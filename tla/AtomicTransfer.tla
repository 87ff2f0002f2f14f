--------------------------- MODULE AtomicTransfer ---------------------------
(***************************************************************************)
(* What a vector.transfer op promises, whatever the rewrite did to it: one *)
(* atomic step that reads the masked window of the memref, padding the     *)
(* lanes outside it, or writes the lanes of the vector that fall inside    *)
(* the memref and leaves every other element alone.  TransferSplit         *)
(* implements this specification under a refinement mapping.              *)
(***************************************************************************)
EXTENDS TransferSemantics

CONSTANT
  Ops          \* the transfers: kind, shapes, indices and in_bounds flags

VARIABLES
  op,          \* the transfer
  memory,      \* contents of its memref
  vector,      \* the vector a read produced (<<>> before, and for writes)
  state        \* "pending", "done"

vars == <<op, memory, vector, state>>

Init ==
  /\ op \in Ops
  /\ memory = MemInit(op.memShape)
  /\ vector = <<>>
  /\ state = "pending"

(* The transfer, in one step.                                              *)
Transfer ==
  /\ state = "pending"
  /\ IF op.kind = "read"
       THEN /\ vector' = TransferRead(memory, op.memShape, op.indices,
                                      op.vecShape, op.inBounds)
            /\ UNCHANGED memory
       ELSE /\ memory' = TransferWrite(memory, op.memShape, op.indices,
                                       VecOperand(op.vecShape), op.vecShape)
            /\ UNCHANGED vector
  /\ state' = "done"
  /\ UNCHANGED op

(* A program that reaches the transfer executes it.                        *)
Spec == Init /\ [][Transfer]_vars /\ WF_vars(Transfer)
=============================================================================
