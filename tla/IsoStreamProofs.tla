-------------------------- MODULE IsoStreamProofs ---------------------------
(***************************************************************************)
(* Stopping an isochronous stream, for every number of transfers, with or  *)
(* without a second thread that handles events, and whether or not         *)
(* submissions fail.                                                       *)
(***************************************************************************)
EXTENDS IsoStream, FiniteSetTheorems, TLAPS

Counted == {x \in Xfers : xfer[x] = "dead"}

(* The counter says how many transfers are counted; the one transfer that  *)
(* is in its callback is not; before the first submission and after the    *)
(* last free there is none, and there are buffers in between.              *)
CountInv ==
  /\ dead_xfers = Cardinality(Counted)
  /\ \A x \in Xfers : xfer[x] = "callback" <=> cur = x /\ cb \in {"packet", "copy", "submit"}
  /\ pc \in {"free", "stopped"} => \A x \in Xfers : xfer[x] = "none"
  /\ pc = "submit" => \A x \in Xfers : x >= i => xfer[x] = "none"
  /\ pc = "stopped" \/ bufs

IsoInv == TypeOK /\ CountInv

LEMMA CountedFinite == IsFiniteSet(Counted) /\ Counted \subseteq Xfers /\ Cardinality(Counted) \in Nat
<1>1. IsFiniteSet(Xfers)
  BY FS_Interval, IsoAssumption DEF Xfers
<1>2. IsFiniteSet(Counted)
  BY <1>1, FS_Subset DEF Counted
<1> QED BY <1>2, FS_CardinalityType DEF Counted

(* The end of fnusb_stop_iso's loop: every transfer has been counted.      *)
LEMMA DrainedAll ==
  ASSUME CountInv, Drained
  PROVE  \A x \in Xfers : xfer[x] = "dead"
<1>1. IsFiniteSet(Xfers) /\ Cardinality(Xfers) = NumXfers
  BY FS_Interval, IsoAssumption DEF Xfers
<1>2. Cardinality(Counted) >= Cardinality(Xfers)
  BY <1>1 DEF CountInv, Drained
<1>3. Counted \subseteq Xfers
  BY DEF Counted
<1>4. Cardinality(Counted) =< Cardinality(Xfers) /\ (Cardinality(Counted) = Cardinality(Xfers) => Counted = Xfers)
  BY <1>1, <1>3, FS_Subset
<1>5. Counted = Xfers
  BY <1>1, <1>2, <1>4, CountedFinite, IsoAssumption
<1> QED BY <1>5 DEF Counted

LEMMA InitIso == Init => IsoInv
<1> SUFFICES ASSUME Init PROVE IsoInv
  OBVIOUS
<1>1. TypeOK
  <2>1. 1 \in 1 .. NumXfers + 1
    BY IsoAssumption
  <2>2. xfer \in [Xfers -> XferState]
    BY DEF Init, XferState
  <2> QED BY <2>1, <2>2 DEF Init, TypeOK
<1>2. Counted = {}
  BY DEF Init, Counted
<1>3. CountInv
  BY <1>2, FS_EmptySet DEF Init, CountInv
<1> QED BY <1>1, <1>3 DEF IsoInv

(* A step that changes which transfers are counted only by counting x.     *)
LEMMA CountOne ==
  ASSUME IsoInv, NEW x \in Xfers, xfer[x] # "dead",
         xfer' = [xfer EXCEPT ![x] = "dead"], dead_xfers' = dead_xfers + 1
  PROVE  dead_xfers' = Cardinality(Counted')
<1>1. Counted' = Counted \cup {x} /\ x \notin Counted
  BY DEF Counted, IsoInv, TypeOK
<1> QED BY <1>1, CountedFinite, FS_AddElement DEF IsoInv, CountInv

LEMMA CountNone ==
  ASSUME IsoInv, NEW x \in Xfers, NEW s \in XferState, xfer[x] # "dead", s # "dead",
         xfer' = [xfer EXCEPT ![x] = s], UNCHANGED dead_xfers
  PROVE  dead_xfers' = Cardinality(Counted')
<1>1. Counted' = Counted
  BY DEF Counted, IsoInv, TypeOK
<1> QED BY <1>1 DEF IsoInv, CountInv

LEMMA WorkingInv ==
  ASSUME IsoInv, Working \/ StartIso \/ StopRegisters
  PROVE  IsoInv'
<1> USE DEF IsoInv, Control
<1>1. CASE StartIso
  <2>1. Counted' = {}
    BY <1>1 DEF StartIso, CountInv, Counted
  <2>2. CountInv'
    BY <1>1, <2>1, FS_EmptySet DEF StartIso, CountInv
  <2>3. 1 \in 1 .. NumXfers + 1
    BY IsoAssumption
  <2>4. TypeOK'
    BY <1>1, <2>3 DEF StartIso, TypeOK
  <2> QED BY <2>2, <2>4
<1>2. CASE SubmitNext
  <2>1. PICK s \in Submitted : xfer' = [xfer EXCEPT ![i] = s]
    BY <1>2 DEF SubmitNext
  <2>2. s \in {"flying", "idle"} /\ i \in Xfers /\ pc = "submit" /\ pc' = pc /\ i' = i + 1
    BY <1>2, <2>1 DEF SubmitNext, Submitted, TypeOK, Xfers
  <2>3. xfer[i] = "none"
    BY <1>2, <2>2 DEF CountInv, TypeOK
  <2>4. TypeOK'
    BY <1>2, <2>1, <2>2, IsoAssumption DEF SubmitNext, TypeOK, XferState, InFlight, stream, Xfers
  <2>5. dead_xfers' = Cardinality(Counted')
    BY <1>2, <2>1, <2>2, <2>3, CountNone DEF SubmitNext, stream, XferState, InFlight
  <2>6. CountInv'
    BY <1>2, <2>1, <2>2, <2>3, <2>5, IsoAssumption
    DEF SubmitNext, CountInv, TypeOK, stream, Xfers
  <2> QED BY <2>4, <2>6
<1>3. CASE CancelNext
  <2>1. i \in Xfers /\ pc = "cancel" /\ i' = i + 1
    BY <1>3 DEF CancelNext, TypeOK, Xfers
  <2>2. TypeOK'
    BY <1>3, <2>1, IsoAssumption DEF CancelNext, TypeOK, XferState, InFlight, stream, Xfers
  <2>3. Counted' = Counted
    BY <1>3, <2>1 DEF CancelNext, Counted, TypeOK
  <2>4. CountInv'
    BY <1>3, <2>1, <2>3 DEF CancelNext, CountInv, TypeOK, stream
  <2> QED BY <2>2, <2>4
<1>4. CASE FreeIso
  <2>1. TypeOK'
    BY <1>4 DEF FreeIso, TypeOK, XferState
  <2>2. Counted' = {}
    BY <1>4 DEF FreeIso, Counted
  <2>3. cb \notin {"packet", "copy", "submit"}
    BY <1>4, DrainedAll DEF FreeIso, CountInv, TypeOK
  <2>4. CountInv'
    BY <1>4, <2>2, <2>3, FS_EmptySet DEF FreeIso, CountInv
  <2> QED BY <2>1, <2>4
<1>5. CASE StopIso
  <2>1. TypeOK'
    BY <1>5, IsoAssumption DEF StopIso, TypeOK
  <2> QED BY <1>5, <2>1 DEF StopIso, CountInv, Counted
<1>6. CASE StartRegisters \/ StartDone \/ StopRegisters \/ CancelDone \/ FreeBufs
  <2>1. TypeOK'
    BY <1>6 DEF StartRegisters, StartDone, StopRegisters, CancelDone, FreeBufs, TypeOK, stream
  <2>2. xfer' = xfer /\ dead_xfers' = dead_xfers /\ cb' = cb /\ cur' = cur
    BY <1>6 DEF StartRegisters, StartDone, StopRegisters, CancelDone, FreeBufs, stream
  <2>3. CountInv'
    BY <1>6, <2>2
    DEF StartRegisters, StartDone, StopRegisters, CancelDone, FreeBufs, stream, CountInv, Counted
  <2> QED BY <2>1, <2>3
<1> QED BY <1>1, <1>2, <1>3, <1>4, <1>5, <1>6 DEF Working

LEMMA HandleInv ==
  ASSUME IsoInv, Handle
  PROVE  IsoInv'
<1> USE DEF IsoInv
<1>1. ASSUME NEW x \in Xfers, CallbackDead(x) \/ CallbackError(x) PROVE IsoInv'
  <2>1. /\ xfer[x] \in {"done", "error"} /\ cb = "none" /\ cur' = x
        /\ xfer' = [xfer EXCEPT ![x] = "dead"] /\ dead_xfers' = dead_xfers + 1
        /\ cb' \in {"none", "log"}
    BY <1>1 DEF CallbackDead, CallbackError, Callback
  <2>2. dead_xfers' = Cardinality(Counted')
    BY <2>1, CountOne
  <2>3. TypeOK'
    BY <1>1, <2>1 DEF CallbackDead, CallbackError, TypeOK, XferState
  <2>4. \A y \in Xfers : xfer'[y] # "callback"
    BY <2>1 DEF CountInv, TypeOK
  <2>5. CountInv'
    BY <1>1, <2>1, <2>2, <2>4 DEF CallbackDead, CallbackError, CountInv, TypeOK
  <2> QED BY <2>3, <2>5
<1>2. ASSUME NEW x \in Xfers, CallbackDone(x) PROVE IsoInv'
  <2>1. /\ xfer[x] = "done" /\ cb = "none" /\ cur' = x /\ cb' = "packet"
        /\ xfer' = [xfer EXCEPT ![x] = "callback"] /\ UNCHANGED <<pc, i, stream>>
    BY <1>2 DEF CallbackDone, Callback
  <2>2. dead_xfers' = Cardinality(Counted')
    BY <2>1, CountNone DEF stream, XferState, InFlight
  <2>3. TypeOK'
    BY <2>1 DEF stream, TypeOK, XferState, InFlight
  <2>4. CountInv'
    BY <2>1, <2>2 DEF stream, CountInv, TypeOK
  <2> QED BY <2>3, <2>4
<1>3. CASE Resubmit
  <2>1. PICK s \in Submitted : xfer' = [xfer EXCEPT ![cur] = s]
    BY <1>3 DEF Resubmit
  <2>2. s \in {"flying", "idle"} /\ cb = "submit" /\ cb' = "none" /\ UNCHANGED <<pc, i, stream, cur>>
    BY <1>3, <2>1 DEF Resubmit, Submitted
  <2>3. cur \in Xfers /\ xfer[cur] = "callback"
    BY <2>2 DEF CountInv, TypeOK
  <2>4. dead_xfers' = Cardinality(Counted')
    BY <2>1, <2>2, <2>3, CountNone DEF stream, XferState, InFlight
  <2>5. TypeOK'
    BY <2>1, <2>2, <2>3 DEF stream, TypeOK, XferState, InFlight
  <2>6. CountInv'
    BY <2>1, <2>2, <2>3, <2>4 DEF stream, CountInv, TypeOK
  <2> QED BY <2>5, <2>6
<1>4. CASE PacketDropped \/ PacketTaken \/ Processed
  <2>1. /\ cb \in {"packet", "copy"} /\ cb' \in {"copy", "submit"}
        /\ UNCHANGED <<pc, i, stream, xfer, cur>>
    BY <1>4 DEF PacketDropped, PacketTaken, Processed
  <2>2. TypeOK'
    BY <2>1 DEF TypeOK, stream
  <2>3. CountInv'
    BY <2>1 DEF CountInv, Counted, stream
  <2> QED BY <2>2, <2>3
<1>5. CASE Logged
  <2>1. TypeOK'
    BY <1>5 DEF Logged, TypeOK, stream
  <2>2. CountInv'
    BY <1>5 DEF Logged, CountInv, Counted, stream
  <2> QED BY <2>1, <2>2
<1> QED BY <1>1, <1>2, <1>3, <1>4, <1>5 DEF Handle

LEMMA CompleteInv ==
  ASSUME IsoInv, NEW x \in Xfers, Complete(x)
  PROVE  IsoInv'
<1> USE DEF IsoInv
<1>1. PICK s \in {"done", "error"} : xfer' = [xfer EXCEPT ![x] = s]
  BY DEF Complete
<1>2. xfer[x] \in {"flying", "cancelled"} /\ UNCHANGED <<pc, i, stream, cb, cur>>
  BY DEF Complete
<1>3. dead_xfers' = Cardinality(Counted')
  BY <1>1, <1>2, CountNone DEF stream, XferState, InFlight
<1>4. TypeOK'
  BY <1>1, <1>2 DEF stream, TypeOK, XferState, InFlight
<1>5. pc \notin {"free", "stopped"} /\ (pc = "submit" => x < i)
  BY <1>2 DEF CountInv, TypeOK, Xfers
<1>6. CountInv'
  BY <1>1, <1>2, <1>3, <1>5 DEF stream, CountInv, TypeOK, Xfers
<1> QED BY <1>4, <1>6

LEMMA NextIso == IsoInv /\ [Next]_vars => IsoInv'
<1> SUFFICES ASSUME IsoInv, [Next]_vars PROVE IsoInv'
  OBVIOUS
<1>1. CASE UNCHANGED vars
  <2>1. TypeOK'
    BY <1>1 DEF IsoInv, TypeOK, vars, state, stream
  <2>2. CountInv'
    BY <1>1 DEF IsoInv, CountInv, Counted, vars, state, stream
  <2> QED BY <2>1, <2>2 DEF IsoInv
<1> QED BY <1>1, WorkingInv, HandleInv, CompleteInv DEF Next

LEMMA IsoInvariant == Spec => []IsoInv
BY InitIso, NextIso, PTL DEF Spec

(* Type correctness.                                                       *)
THEOREM IsoTypeCorrect == Spec => []TypeOK
<1>1. IsoInv => TypeOK
  BY DEF IsoInv
<1> QED BY <1>1, IsoInvariant, PTL

(* dead_xfers is exact, callbacks have their transfer and their buffers,   *)
(* and a stopped stream is quiet.                                          *)
THEOREM StopIsSafe ==
  Spec => [](CountsOnce /\ BuffersHeld /\ CallbackHeld /\ QuietWhenStopped)
<1>1. IsoInv => CountsOnce /\ BuffersHeld /\ CallbackHeld /\ QuietWhenStopped
  <2> SUFFICES ASSUME IsoInv
               PROVE  CountsOnce /\ BuffersHeld /\ CallbackHeld /\ QuietWhenStopped
    OBVIOUS
  <2>1. CountsOnce
    BY DEF IsoInv, CountInv, Counted, CountsOnce
  <2>2. CallbackHeld
    BY DEF IsoInv, CountInv, TypeOK, CallbackHeld
  <2>3. BuffersHeld /\ QuietWhenStopped
    BY <2>2 DEF IsoInv, CountInv, TypeOK, CallbackHeld, BuffersHeld, QuietWhenStopped
  <2> QED BY <2>1, <2>2, <2>3
<1> QED BY <1>1, IsoInvariant, PTL

LEMMA FreeStep ==
  ASSUME IsoInv, [Next]_vars
  PROVE  [\A x \in Xfers : xfer[x] \in InFlight => xfer'[x] # "none"]_vars
<1> SUFFICES ASSUME ~UNCHANGED vars, NEW x \in Xfers, xfer[x] \in InFlight
             PROVE  xfer'[x] # "none"
  OBVIOUS
<1> USE DEF InFlight
<1>1. xfer[x] # "none" /\ xfer[x] # "dead" /\ xfer \in [Xfers -> XferState] /\ cur \in Xfers
  BY DEF IsoInv, TypeOK
<1>2. CASE FreeIso
  BY <1>1, <1>2, DrainedAll DEF FreeIso, IsoInv
<1>3. CASE SubmitNext \/ CancelNext
  BY <1>1, <1>3 DEF SubmitNext, CancelNext, Submitted
<1>4. CASE StartIso \/ StopRegisters \/ StartRegisters \/ StartDone \/ StopIso
           \/ CancelDone \/ FreeBufs
  BY <1>1, <1>4
  DEF StartIso, StopRegisters, StartRegisters, StartDone, StopIso, CancelDone, FreeBufs
<1>5. CASE Handle
  BY <1>1, <1>5 DEF Handle, CallbackDead, CallbackError, CallbackDone, Callback,
     PacketDropped, PacketTaken, Processed, Resubmit, Logged, Submitted
<1>6. CASE \E y \in Xfers : Complete(y)
  BY <1>1, <1>6 DEF Complete
<1> QED BY <1>2, <1>3, <1>4, <1>5, <1>6 DEF Next, Working

(* fnusb_stop_iso never frees a transfer that is in flight, or one whose   *)
(* callback has still to resubmit it.                                      *)
THEOREM FreesNothingInFlight == Spec => NoFreeInFlight
<1>1. IsoInv /\ [Next]_vars
        => [\A x \in Xfers : xfer[x] \in InFlight => xfer'[x] # "none"]_vars
  BY FreeStep
<1> QED BY <1>1, IsoInvariant, PTL DEF Spec, NoFreeInFlight

(* With own_events the controlling thread moves only between callbacks,    *)
(* and a callback that counted its transfer does nothing else with it.     *)
LEMMA LogStep == IsoInv /\ LogHeld /\ [Next]_vars => LogHeld'
<1> SUFFICES ASSUME IsoInv, LogHeld, [Next]_vars, own_events', cb' = "log"
             PROVE  xfer'[cur'] = "dead"
  BY DEF LogHeld
<1>1. CASE UNCHANGED vars
  BY <1>1 DEF LogHeld, vars, state, stream, rigid
<1>2. own_events /\ xfer \in [Xfers -> XferState] /\ cur \in Xfers
  BY DEF Next, rigid, vars, IsoInv, TypeOK
<1>3. ASSUME NEW x \in Xfers, CallbackDead(x) \/ CallbackError(x) \/ CallbackDone(x)
      PROVE  xfer'[cur'] = "dead"
  BY <1>2, <1>3 DEF CallbackDead, CallbackError, CallbackDone, Callback
<1>4. CASE PacketDropped \/ PacketTaken \/ Processed \/ Resubmit \/ Logged
  BY <1>4 DEF PacketDropped, PacketTaken, Processed, Resubmit, Logged
<1>5. ASSUME NEW x \in Xfers, Complete(x) PROVE xfer'[cur'] = "dead"
  <2>1. cb = "log" /\ cur' = cur /\ xfer[cur] = "dead"
    BY <1>2, <1>5 DEF Complete, LogHeld
  <2> QED BY <1>2, <1>5, <2>1 DEF Complete
<1>6. ASSUME StartIso \/ StopRegisters \/ Working PROVE FALSE
  <2>1. Control(pc) /\ cb' = cb
    BY <1>6 DEF Working, StartIso, StopRegisters, SubmitNext, StartRegisters, StartDone,
                StopIso, CancelNext, CancelDone, FreeIso, FreeBufs, Control
  <2> QED BY <1>2, <2>1 DEF Control
<1> QED BY <1>1, <1>3, <1>4, <1>5, <1>6 DEF Next, Handle

(* When no other thread handles events, the endpoint that a callback logs  *)
(* is read from a transfer that still exists: the stop that frees it waits *)
(* for the callback to return.                                             *)
THEOREM LogIsSafe == Spec => []LogHeld
<1>1. Init => LogHeld
  BY DEF Init, LogHeld
<1> QED BY <1>1, LogStep, IsoInvariant, PTL DEF Spec
=============================================================================
