----------------------------- MODULE RpcTraffic -----------------------------
(***************************************************************************)
(* What a sequence of units on the console means to a reader.              *)
(***************************************************************************)
EXTENDS RpcChannel, SequencesExt

(* The payload of all packets of one procedure.                            *)
DataOf(proc, units) ==
  FlattenSeq([i \in 1 .. Len(units) |->
                IF units[i].part = "body" /\ units[i].proc = proc
                THEN units[i].data ELSE << >>])

Continues(length, body) == /\ length.part = "length" /\ body.part = "body"
                           /\ length.proc = body.proc

(* Every body follows its length word, and every length word is followed   *)
(* by its body or, instead of it, by the report of the exit.               *)
CutOnlyByExit(units) ==
  \A i \in 1 .. Len(units) :
    /\ units[i].part = "body" => i > 1 /\ Continues(units[i - 1], units[i])
    /\ units[i].part = "length" =>
         i < Len(units) /\ \/ Continues(units[i], units[i + 1])
                           \/ units[i + 1] = Head(Packet("EXIT", << >>))

(* A packet of them ends before its body.                                  *)
CutsShort(units) ==
  \E i \in 2 .. Len(units) : units[i - 1].part = "length" /\ units[i].part = "length"
=============================================================================
