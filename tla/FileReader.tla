------------------------------ MODULE FileReader ------------------------------
(***************************************************************************)
(* What libavformat's AVIOContext expects of a URLProtocol it reads a file *)
(* from: each read answers with the bytes that follow the position, a seek *)
(* that succeeds moves the position, and the end of the file is reported   *)
(* at the end of the file only.  A call may always fail, and then the      *)
(* position is where it was.  A byte is named by its offset.               *)
(***************************************************************************)
EXTENDS Naturals, Sequences

CONSTANT FileSize

VARIABLES
  position,  \* where the caller takes itself to be (AVIOContext's pos)
  answer     \* what the last call returned

readerVars == <<position, answer>>

NoAnswer == [kind |-> "none", bytes |-> <<>>]
Bytes(from, n) == [i \in 1..n |-> from + i - 1]

ReaderInit == position = 0 /\ answer = NoAnswer

Deliver ==
  \E n \in 1..FileSize :
    /\ position + n <= FileSize
    /\ answer' = [kind |-> "data", bytes |-> Bytes(position, n)]
    /\ position' = position + n

End ==
  /\ position >= FileSize
  /\ answer' = [kind |-> "eof", bytes |-> <<>>]
  /\ UNCHANGED position

Fail ==
  /\ answer' = [kind |-> "error", bytes |-> <<>>]
  /\ UNCHANGED position

Move ==
  /\ answer' = [kind |-> "moved", bytes |-> <<>>]
  /\ position' \in Nat

\* Closed, and opened again.
Restart == position' = 0 /\ answer' = NoAnswer

ReaderNext == Deliver \/ End \/ Fail \/ Move \/ Restart

ReaderSpec == ReaderInit /\ [][ReaderNext]_readerVars
================================================================================
