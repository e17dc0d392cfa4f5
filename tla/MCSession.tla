----------------------------- MODULE MCSession -----------------------------
(***************************************************************************)
(* Session for TLC, with what comments and messages of the source say of it*)
(* and the code does not do.                                               *)
(***************************************************************************)
EXTENDS Session

\* "invert one byte" (spokepov.cpp, the detection loop of Connect): the write to
\* address 0 inverts the byte that is there.
InvertsOneByte ==
    [][pc = "invert" /\ ~missed' => mem'[0][0] = Compl(mem[0][0])]_vars

\* "check up to 32KB" (spokepov.cpp, Connect): a board of the largest size that
\* is probed is found; a connected frame shows at least one page of it.
LargestFound == label = "Disconnect" => banks > 0

\* "SpokePOV communication is ready to go!" (spokepov.cpp, OnTestPort): after
\* the test is passed in a connected session, its commands reach the board.
ReadyToGo == said = "testPassed" /\ label = "Disconnect" => Up

============================================================================
