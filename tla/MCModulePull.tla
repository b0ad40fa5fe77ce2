---------------------------- MODULE MCModulePull ----------------------------
(* A two-byte module, chunked by one, by two, or into more chunks than the *)
(* limit; liars that fabricate a whole module, a longer one, a module_hash,*)
(* or a malformed descriptor.                                              *)
EXTENDS ModulePull

MCTruth == <<1, 2>>
MCHonestLens == {<<1, 1>>, <<2>>, <<1, 0, 1>>}
MCLies ==
  { [lens |-> <<1, 1>>, hashes |-> <<<<1>>, <<9>>>>, module |-> <<1, 9>>,
     total |-> 2],
    [lens |-> <<1, 1>>, hashes |-> <<<<9>>, <<2>>>>, module |-> <<1, 2>>,
     total |-> 2],
    [lens |-> <<2, 1>>, hashes |-> <<<<1, 2>>, <<9>>>>, module |-> <<1, 2, 9>>,
     total |-> 3],
    [lens |-> <<1>>, hashes |-> <<<<1>>>>, module |-> <<1>>, total |-> 2] }

=============================================================================
