---- MODULE MCRangeStream ----
EXTENDS RangeStream
====
