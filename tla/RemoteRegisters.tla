-------------------------- MODULE RemoteRegisters --------------------------
(***************************************************************************)
(* What a client library promises an application that calls it to read and *)
(* write the registers of a server: a call is carried out at most once and *)
(* as a whole; a call that returns normally was carried out, and what it   *)
(* read is what the registers held then; a call that fails may have been   *)
(* carried out or not.  Nothing else changes a register.                   *)
(* Session.tla implements this, with the exceptions it names.              *)
(*                                                                         *)
(* A call is a request of RegisterFile, which says what it does.           *)
(***************************************************************************)
EXTENDS Naturals, Sequences

CONSTANTS FifoSize, \* how many registers a FIFO has
          NoCall    \* no call is running
VARIABLES mem,     \* cell -> value
          call,    \* the running call
          done,    \* it was carried out
          value,   \* what it read then
          result   \* what the last call returned: <<>>, or a sequence of that value

vars == <<mem, call, done, value, result>>

File == INSTANCE RegisterFile WITH reply <- value, Requests <- {},
                                   Slaves <- {}, Broadcast <- {}

Reads(request) == request.fn \in {1, 2, 3, 4, 20, 23, 24}

Init ==
    /\ call = NoCall /\ done = FALSE
    /\ value = <<>> /\ result = <<>>

Begin ==
    /\ call = NoCall /\ call' # NoCall
    /\ done' = FALSE /\ value' = <<>> /\ result' = <<>>
    /\ mem' = mem

CarryOut ==
    /\ call # NoCall /\ ~done
    /\ done' = TRUE
    /\ mem' = File!Effect(mem, call)
    /\ value' = IF Reads(call) THEN File!Answer(mem', call) ELSE <<>>
    /\ UNCHANGED <<call, result>>

Return ==
    /\ call # NoCall /\ done
    /\ result' = <<value>>
    /\ call' = NoCall
    /\ mem' = mem

\* The call throws, after it was carried out or without having been.
Fail ==
    /\ result' = <<>>
    /\ call' = NoCall
    /\ mem' = mem

Next == Begin \/ CarryOut \/ Return \/ Fail
=============================================================================
