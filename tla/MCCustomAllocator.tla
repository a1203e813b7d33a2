-------------------------- MODULE MCCustomAllocator --------------------------
(* Main and two threads of the middleware over two blocks: fewer blocks     *)
(* than concurrent requests.  Two remote participants, discovered early or  *)
(* late, so that two threads can trip at once, and a bootstrap pool that    *)
(* serves one call and then answers NULL.                                   *)
EXTENDS CustomAllocator, TLC

CONSTANTS main, t1, t2

MCThreads    == {main, t1, t2}
MCBlockCount == 2
MCMaxPeers   == 2
MCBootSize   == 1
MCLibraryOps == {"calloc"}
MCSymmetry   == Permutations({t1, t2})
=============================================================================
