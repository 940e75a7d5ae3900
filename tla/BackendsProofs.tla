--------------------------- MODULE BackendsProofs ---------------------------
(***************************************************************************)
(* The backends of libusb keep what a transfer has lent to the system as   *)
(* long as the system may use it, bring its data and its result through,   *)
(* and do with every transfer what Transfer says: each of their steps is   *)
(* one of Transfer, or does not concern it.  (That a transfer that is      *)
(* asked to stop does stop is left to the model checker.)                  *)
(***************************************************************************)
EXTENDS Backends, FiniteSetTheorems, SequenceTheorems, WellFoundedInduction, TLAPS

CONSTANT t                   (* any of the transfers                         *)

T == INSTANCE Transfer WITH phase <- Phase(t), asked <- Asked(t), reset <- Reset
-----------------------------------------------------------------------------
(* Sets of numbers have a least and a greatest element.                    *)
LEMMA Least ==
  ASSUME NEW S \in SUBSET Nat, S # {}
  PROVE  Min(S) \in S /\ \A x \in S : Min(S) =< x
<1>1. \E x \in S : \A y \in S : ~(<<y, x>> \in OpToRel(<, Nat))
  BY NatLessThanWellFounded, WFMin
<1>2. PICK x \in S : \A y \in S : ~(y < x)
  BY <1>1 DEF OpToRel
<1>3. \A y \in S : x =< y
  BY <1>2
<1> QED BY <1>3 DEF Min

LEMMA Interval ==
  ASSUME NEW a \in Nat, NEW b \in Nat, a =< b
  PROVE  Min(a .. b) = a /\ Max(a .. b) = b
<1>1. Min(a .. b) = a
  BY DEF Min
<1>2. Max(a .. b) = b
  BY DEF Max
<1> QED BY <1>1, <1>2

(* The backends' instances of the libraries' operators.                    *)
LEMMA Same ==
  ASSUME NEW S
  PROVE  /\ L!Min(S) = Min(S) /\ L!Max(S) = Max(S) /\ L!ToSet(S) = ToSet(S)
         /\ L!Cardinality(S) = Cardinality(S) /\ D!Cardinality(S) = Cardinality(S)
         /\ W!Min(S) = Min(S)
<1>1. L!Min(S) = Min(S) /\ L!Max(S) = Max(S) /\ W!Min(S) = Min(S)
  BY DEF L!Min, L!Max, W!Min, Min, Max
<1>2. L!ToSet(S) = ToSet(S)
  BY DEF L!ToSet, ToSet
<1>3. L!Cardinality(S) = Cardinality(S) /\ D!Cardinality(S) = Cardinality(S)
  BY DEF L!Cardinality, D!Cardinality, Cardinality
<1> QED BY <1>1, <1>2, <1>3

LEMMA Element ==
  ASSUME NEW S, NEW s \in Seq(S), NEW i \in 1 .. Len(s)
  PROVE  s[i] \in S
  OBVIOUS

(* A queue is first in, first out.                                         *)
LEMMA SeqRest ==
  ASSUME NEW S, NEW s \in Seq(S), s # <<>>
  PROVE  /\ Head(s) = s[1] /\ 1 \in 1 .. Len(s) /\ s[1] \in S
         /\ Tail(s) \in Seq(S) /\ Len(s) \in Nat /\ Len(Tail(s)) = Len(s) - 1
         /\ \A i \in 1 .. Len(Tail(s)) : i + 1 \in 2 .. Len(s) /\ Tail(s)[i] = s[i + 1]
  OBVIOUS

LEMMA SeqMore ==
  ASSUME NEW S, NEW s \in Seq(S), NEW e \in S
  PROVE  /\ Append(s, e) \in Seq(S)
         /\ Len(s) \in Nat /\ Len(Append(s, e)) = Len(s) + 1
         /\ Append(s, e)[Len(s) + 1] = e
         /\ \A i \in 1 .. Len(s) : Append(s, e)[i] = s[i]
  OBVIOUS
-----------------------------------------------------------------------------
(* The Darwin backend.                                                     *)

TD == INSTANCE Transfer WITH phase <- phase[t], asked <- asked[t], reset <- FALSE

Outcomes == {"success", "stalled", "overrun", "error", "timeout", "aborted", "gone"}
Messages == [transfer : Transfers \cup {0}, result : Outcomes]
Phases == {"idle", "flying"} \cup TD!Results

DarwinTypes ==
  /\ phase \in [Transfers -> Phases]
  /\ asked \in [Transfers -> BOOLEAN] /\ timed_out \in [Transfers -> BOOLEAN]
  /\ io \in [Transfers -> {"none", "flying", "aborting"}]
  /\ device \in {"present", "gone", "told"} /\ polled \in BOOLEAN
  /\ messages \in Seq(Messages)
  /\ framelist \in [Transfers -> BOOLEAN]
  /\ type = "iso" => \A u \in Transfers : phase[u] = "flying" => framelist[u]

(* No two messages are about the same, and the device tells of its end     *)
(* once, after which the pipe may not be read any more.                    *)
MessagesOnce ==
  \A i, j \in 1 .. Len(messages) : i # j => messages[i].transfer # messages[j].transfer
ToldOnce ==
  /\ \A i \in 1 .. Len(messages) : messages[i].transfer = 0 => device = "told"
  /\ ~polled => device = "told"

(* While the pipe is read: what IOKit has is in flight, and so is what has *)
(* a message; what IOKit is done with has one; what was aborted was asked  *)
(* to stop.                                                                *)
MessageOf(m) ==
  \/ m = D!Gone
  \/ /\ m.transfer \in Transfers /\ m.result # "gone"
     /\ phase[m.transfer] = "flying" /\ io[m.transfer] = "none"
     /\ m.result = "aborted" => asked[m.transfer]
MessagesMatch == \A i \in 1 .. Len(messages) : MessageOf(messages[i])
MessagesPresent ==
  \A u \in Transfers :
    phase[u] = "flying" /\ io[u] = "none" => \E i \in 1 .. Len(messages) : messages[i].transfer = u
RequestsMatch ==
  \A u \in Transfers :
    /\ io[u] # "none" => phase[u] = "flying"
    /\ io[u] = "aborting" => asked[u]

DarwinInv ==
  /\ DarwinTypes /\ MessagesOnce /\ ToldOnce
  /\ polled => MessagesMatch /\ MessagesPresent /\ RequestsMatch

LEMMA Zero == 0 \notin Transfers
  BY BackendsAssumption

LEMMA DarwinInit == D!Init => DarwinInv /\ (t \in Transfers => TD!Init)
<1> SUFFICES ASSUME D!Init PROVE DarwinInv /\ (t \in Transfers => TD!Init)
  OBVIOUS
<1>1. DarwinTypes
  BY DEF D!Init, DarwinTypes, Phases
<1>2. MessagesOnce /\ ToldOnce /\ MessagesMatch
  BY DEF D!Init, MessagesOnce, ToldOnce, MessagesMatch
<1>3. MessagesPresent /\ RequestsMatch
  BY DEF D!Init, MessagesPresent, RequestsMatch
<1>4. t \in Transfers => TD!Init
  BY DEF D!Init, TD!Init
<1> QED BY <1>1, <1>2, <1>3, <1>4 DEF DarwinInv

(* The status that is reported is a result, and CANCELLED only for what    *)
(* was aborted.                                                            *)
LEMMA DarwinStatus ==
  ASSUME NEW u, NEW result \in Outcomes
  PROVE  /\ D!TransferStatus(u, result) \in TD!Results
         /\ D!TransferStatus(u, result) = "CANCELLED" => result = "aborted"
  BY DEF D!TransferStatus, TD!Results, Outcomes

(* A message about something that has none yet leaves one about each.      *)
LEMMA OneMore ==
  ASSUME DarwinTypes, MessagesOnce, NEW m \in Messages, messages' = Append(messages, m),
         \A i \in 1 .. Len(messages) : messages[i].transfer # m.transfer
  PROVE  MessagesOnce'
<1> SUFFICES ASSUME NEW i \in 1 .. Len(messages'), NEW j \in 1 .. Len(messages'), i # j
             PROVE  messages'[i].transfer # messages'[j].transfer
  BY DEF MessagesOnce
<1>1. /\ Len(messages) \in Nat /\ Len(messages') = Len(messages) + 1
      /\ messages'[Len(messages) + 1] = m
      /\ \A k \in 1 .. Len(messages) : messages'[k] = messages[k]
  BY SeqMore DEF DarwinTypes
<1>2. CASE i \in 1 .. Len(messages) /\ j \in 1 .. Len(messages)
  BY <1>1, <1>2 DEF MessagesOnce
<1>3. CASE i = Len(messages) + 1 \/ j = Len(messages) + 1
  BY <1>1, <1>3
<1> QED BY <1>1, <1>2, <1>3

LEMMA DetachedInv ==
  ASSUME DarwinInv, D!DevicesDetached
  PROVE  DarwinInv'
<1> USE DEF DarwinInv, D!flags, D!DevicesDetached
<1>1. D!Gone \in Messages /\ D!Gone.transfer = 0
  BY DEF D!Gone, Messages, Outcomes
<1>2. /\ messages' \in Seq(Messages) /\ Len(messages) \in Nat
      /\ Len(messages') = Len(messages) + 1 /\ messages'[Len(messages) + 1] = D!Gone
      /\ \A i \in 1 .. Len(messages) : messages'[i] = messages[i]
  BY <1>1, SeqMore DEF DarwinTypes
<1>3. DarwinTypes'
  BY <1>2 DEF DarwinTypes
<1>4. MessagesOnce'
  BY <1>1, OneMore DEF ToldOnce
<1>5. ToldOnce'
  BY DEF ToldOnce
<1>6. polled => MessagesMatch'
  BY <1>2 DEF MessagesMatch, MessageOf
<1>7. polled => MessagesPresent'
  BY <1>2 DEF MessagesPresent
<1>8. polled => RequestsMatch'
  BY DEF RequestsMatch
<1> QED BY <1>3, <1>4, <1>5, <1>6, <1>7, <1>8

LEMMA AsyncIoInv ==
  ASSUME DarwinInv, NEW u \in Transfers, D!AsyncIoCallback(u)
  PROVE  DarwinInv'
<1> USE DEF DarwinInv, D!flags, D!AsyncIoCallback
<1>1. PICK result \in D!Ends(u) :
        messages' = Append(messages, [transfer |-> u, result |-> result])
  OBVIOUS
<1> DEFINE m == [transfer |-> u, result |-> result]
<1>2. m \in Messages /\ result # "gone" /\ (result = "aborted" => io[u] = "aborting")
  BY DEF D!Ends, Outcomes, Messages
<1>3. /\ messages' \in Seq(Messages) /\ Len(messages) \in Nat
      /\ Len(messages') = Len(messages) + 1 /\ messages'[Len(messages) + 1] = m
      /\ \A i \in 1 .. Len(messages) : messages'[i] = messages[i]
  BY <1>1, <1>2, SeqMore DEF DarwinTypes
<1>4. \A i \in 1 .. Len(messages) : messages[i].transfer # u
  BY Zero DEF MessagesMatch, MessageOf, D!Gone
<1>5. u # 0 /\ phase[u] = "flying" /\ (io[u] = "aborting" => asked[u])
  BY Zero DEF RequestsMatch
<1>6. io'[u] = "none" /\ \A v \in Transfers : v # u => io'[v] = io[v]
  BY DEF DarwinTypes
<1>7. DarwinTypes'
  BY <1>3 DEF DarwinTypes
<1>8. MessagesOnce'
  BY <1>1, <1>2, <1>4, OneMore
<1>9. ToldOnce'
  BY <1>3, <1>5 DEF ToldOnce
<1>10. MessagesMatch'
  <2> SUFFICES ASSUME NEW i \in 1 .. Len(messages') PROVE MessageOf(messages[i])'
    BY DEF MessagesMatch
  <2>1. CASE i \in 1 .. Len(messages)
    BY <1>3, <1>4, <1>6, <2>1 DEF MessagesMatch, MessageOf
  <2>2. CASE i = Len(messages) + 1
    BY <1>2, <1>3, <1>5, <1>6, <2>2 DEF MessageOf
  <2> QED BY <1>3, <2>1, <2>2
<1>11. MessagesPresent'
  <2> SUFFICES ASSUME NEW v \in Transfers, phase[v] = "flying", io'[v] = "none"
               PROVE  \E i \in 1 .. Len(messages') : messages'[i].transfer = v
    BY DEF MessagesPresent
  <2>1. CASE v = u
    BY <1>3, <2>1
  <2>2. CASE v # u
    BY <1>3, <1>6, <2>2 DEF MessagesPresent
  <2> QED BY <2>1, <2>2
<1>12. RequestsMatch'
  BY <1>6 DEF RequestsMatch
<1> QED BY <1>7, <1>8, <1>9, <1>10, <1>11, <1>12

\* The message that is read leaves the others as they are.
LEMMA RestInv ==
  ASSUME DarwinInv, messages # <<>>, messages' = Tail(messages), UNCHANGED device
  PROVE  /\ messages' \in Seq(Messages) /\ MessagesOnce'
         /\ Head(messages) = messages[1] /\ messages[1] \in Messages /\ 1 \in 1 .. Len(messages)
         /\ Len(messages) \in Nat /\ Len(messages') = Len(messages) - 1
         /\ \A i \in 1 .. Len(messages') :
              i + 1 \in 2 .. Len(messages) /\ messages'[i] = messages[i + 1]
         /\ \A i \in 1 .. Len(messages') : messages'[i].transfer = 0 => device' = "told"
<1>1. /\ messages' \in Seq(Messages) /\ Len(messages) \in Nat
      /\ Head(messages) = messages[1] /\ messages[1] \in Messages /\ 1 \in 1 .. Len(messages)
      /\ Len(messages') = Len(messages) - 1
      /\ \A i \in 1 .. Len(messages') :
           i + 1 \in 2 .. Len(messages) /\ messages'[i] = messages[i + 1]
  BY SeqRest DEF DarwinInv, DarwinTypes
<1>2. MessagesOnce'
  BY <1>1 DEF DarwinInv, MessagesOnce
<1> QED BY <1>1, <1>2 DEF DarwinInv, ToldOnce

(* The message is about one that is in flight and not IOKit's.             *)
LEMMA MessageRead ==
  ASSUME DarwinInv, D!HandleCallback
  PROVE  LET u == Head(messages).transfer
             result == D!TransferStatus(u, Head(messages).result)
         IN /\ u \in Transfers /\ phase[u] = "flying" /\ io[u] = "none"
            /\ result \in TD!Results /\ (result = "CANCELLED" => asked[u])
            /\ phase' = [phase EXCEPT ![u] = result]
            /\ \A i \in 1 .. Len(messages') : messages'[i].transfer # u
<1> USE DEF D!HandleCallback
<1> DEFINE u == Head(messages).transfer
<1>1. /\ Head(messages) = messages[1] /\ messages[1] \in Messages /\ 1 \in 1 .. Len(messages)
      /\ \A i \in 1 .. Len(messages') : i + 1 \in 2 .. Len(messages) /\ messages'[i] = messages[i + 1]
  BY RestInv
<1>2. MessageOf(messages[1])
  BY <1>1 DEF DarwinInv, MessagesMatch
<1>3. /\ u \in Transfers /\ phase[u] = "flying" /\ io[u] = "none"
      /\ Head(messages).result \in Outcomes
      /\ Head(messages).result = "aborted" => asked[u]
  BY <1>1, <1>2 DEF MessageOf, Messages
<1>4. \A i \in 1 .. Len(messages') : messages'[i].transfer # u
  BY <1>1 DEF DarwinInv, MessagesOnce
<1> QED BY <1>3, <1>4, DarwinStatus

LEMMA HandleCallbackInv ==
  ASSUME DarwinInv, D!HandleCallback
  PROVE  DarwinInv'
<1> USE DEF DarwinInv, D!flags, D!HandleCallback
<1> DEFINE u == Head(messages).transfer
<1>1. PICK result \in TD!Results : phase' = [phase EXCEPT ![u] = result]
  BY MessageRead
<1>2. /\ u \in Transfers /\ phase[u] = "flying" /\ io[u] = "none"
      /\ \A i \in 1 .. Len(messages') : messages'[i].transfer # u
  BY MessageRead
<1>3. /\ messages' \in Seq(Messages) /\ MessagesOnce' /\ ToldOnce'
      /\ Head(messages) = messages[1] /\ Len(messages) \in Nat
      /\ Len(messages') = Len(messages) - 1
      /\ \A i \in 1 .. Len(messages') :
           i + 1 \in 2 .. Len(messages) /\ messages'[i] = messages[i + 1]
  BY RestInv DEF ToldOnce
<1> HIDE DEF u
<1>4. result # "flying" /\ phase'[u] = result /\ \A v \in Transfers : v # u => phase'[v] = phase[v]
  BY <1>1, <1>2 DEF TD!Results, DarwinTypes
<1>5. DarwinTypes'
  <2>1. phase' \in [Transfers -> Phases]
    BY <1>1, <1>2 DEF DarwinTypes, Phases
  <2>2. timed_out' \in [Transfers -> BOOLEAN]
    BY DEF DarwinTypes
  <2>3. type' = "iso" => \A v \in Transfers : phase'[v] = "flying" => framelist'[v]
    BY <1>4 DEF DarwinTypes
  <2> QED BY <1>3, <2>1, <2>2, <2>3 DEF DarwinTypes
<1>6. MessagesMatch'
  <2> SUFFICES ASSUME NEW i \in 1 .. Len(messages') PROVE MessageOf(messages[i])'
    BY DEF MessagesMatch
  <2>1. messages'[i] = messages[i + 1] /\ MessageOf(messages[i + 1]) /\ messages'[i].transfer # u
    BY <1>2, <1>3 DEF MessagesMatch
  <2> QED BY <1>4, <2>1 DEF MessageOf
<1>7. MessagesPresent'
  <2> SUFFICES ASSUME NEW v \in Transfers, phase'[v] = "flying", io[v] = "none"
               PROVE  \E i \in 1 .. Len(messages') : messages'[i].transfer = v
    BY DEF MessagesPresent
  <2>1. v # u /\ phase[v] = "flying"
    BY <1>4
  <2>2. PICK i \in 1 .. Len(messages) : messages[i].transfer = v
    BY <2>1 DEF MessagesPresent
  <2>3. i # 1
    BY <1>3, <2>1, <2>2 DEF u
  <2>4. i - 1 \in 1 .. Len(messages') /\ messages'[i - 1] = messages[i]
    BY <1>3, <2>3
  <2> QED BY <2>2, <2>4
<1>8. RequestsMatch'
  BY <1>2, <1>4 DEF RequestsMatch
<1> QED BY <1>3, <1>5, <1>6, <1>7, <1>8

LEMMA HandleGoneInv ==
  ASSUME DarwinInv, D!HandleGone
  PROVE  DarwinInv'
<1> USE DEF DarwinInv, D!flags, D!HandleGone
<1>1. /\ messages' \in Seq(Messages) /\ MessagesOnce'
      /\ Head(messages) = messages[1] /\ 1 \in 1 .. Len(messages)
      /\ \A i \in 1 .. Len(messages') : messages'[i].transfer = 0 => device' = "told"
  BY RestInv
<1>2. device = "told"
  BY <1>1 DEF ToldOnce, D!Gone
<1>3. DarwinTypes'
  BY <1>1 DEF DarwinTypes, Phases, TD!Results
<1> QED BY <1>1, <1>2, <1>3 DEF ToldOnce

(* What does not touch the pipe, and leaves what is in flight as it is.    *)
LEMMA OtherInv ==
  ASSUME DarwinInv,
         D!Unplug \/ (\E u \in Transfers : D!Submit(u) \/ D!SubmitFails(u) \/ D!Renew(u))
           \/ (D!Abort /\ timed_out' \in [Transfers -> BOOLEAN]) \/ UNCHANGED D!vars
  PROVE  DarwinInv'
<1> USE DEF DarwinInv, D!flags, D!link
<1>1. CASE D!Unplug \/ UNCHANGED D!vars
  BY <1>1 DEF D!Unplug, D!vars, DarwinTypes, MessagesOnce, ToldOnce, MessagesMatch, MessageOf,
              MessagesPresent, RequestsMatch
<1>2. ASSUME NEW u \in Transfers, D!Submit(u) PROVE DarwinInv'
  <2> USE <1>2 DEF D!Submit, D!Submittable
  <2>1. /\ phase'[u] = "flying" /\ io'[u] = "flying"
        /\ \A v \in Transfers : v # u => phase'[v] = phase[v] /\ io'[v] = io[v]
    BY DEF DarwinTypes
  <2>2. DarwinTypes'
    BY DEF DarwinTypes, Phases
  <2>3. \A i \in 1 .. Len(messages) : messages[i].transfer # u
    BY Zero DEF MessagesMatch, MessageOf, D!Gone
  <2>4. MessagesMatch'
    BY <2>1, <2>3 DEF MessagesMatch, MessageOf
  <2>5. MessagesPresent' /\ RequestsMatch'
    BY <2>1 DEF MessagesPresent, RequestsMatch
  <2> QED BY <2>2, <2>4, <2>5 DEF MessagesOnce, ToldOnce
<1>3. ASSUME NEW u \in Transfers, D!SubmitFails(u) PROVE DarwinInv'
  <2> USE <1>3 DEF D!SubmitFails, D!Submittable
  <2>1. DarwinTypes'
    BY DEF DarwinTypes
  <2> QED BY <2>1 DEF MessagesOnce, ToldOnce, MessagesMatch, MessageOf, MessagesPresent, RequestsMatch
<1>4. ASSUME NEW u \in Transfers, D!Renew(u) PROVE DarwinInv'
  <2> USE <1>4 DEF D!Renew
  <2>1. /\ phase[u] # "flying" /\ phase'[u] = "idle"
        /\ \A v \in Transfers : v # u => phase'[v] = phase[v] /\ asked'[v] = asked[v]
    BY DEF DarwinTypes
  <2>2. DarwinTypes'
    BY <2>1 DEF DarwinTypes, Phases
  <2>3. polled => MessagesMatch'
    BY <2>1 DEF MessagesMatch, MessageOf
  <2>4. polled => MessagesPresent' /\ RequestsMatch'
    BY <2>1 DEF MessagesPresent, RequestsMatch
  <2> QED BY <2>2, <2>3, <2>4 DEF MessagesOnce, ToldOnce
<1>5. CASE D!Abort /\ timed_out' \in [Transfers -> BOOLEAN]
  <2> USE <1>5 DEF D!Abort
  <2>1. DarwinTypes'
    BY DEF DarwinTypes
  <2>2. polled => MessagesMatch'
    BY DEF MessagesMatch, MessageOf
  <2>3. polled => MessagesPresent' /\ RequestsMatch'
    BY DEF MessagesPresent, RequestsMatch
  <2> QED BY <2>1, <2>2, <2>3 DEF MessagesOnce, ToldOnce
<1> QED BY <1>1, <1>2, <1>3, <1>4, <1>5

\* The timeout handler changes the flag of one transfer.
LEMMA AbortSteps ==
  ASSUME DarwinTypes, NEW u \in Transfers, D!Cancel(u) \/ D!TimeOut(u)
  PROVE  D!Abort /\ timed_out' \in [Transfers -> BOOLEAN]
  BY DEF D!Cancel, D!TimeOut, DarwinTypes

LEMMA DarwinNext == DarwinInv /\ [D!Next]_D!vars => DarwinInv'
<1> SUFFICES ASSUME DarwinInv, [D!Next]_D!vars PROVE DarwinInv'
  OBVIOUS
<1>1. ASSUME NEW u \in Transfers, D!Cancel(u) \/ D!TimeOut(u) PROVE DarwinInv'
  BY <1>1, AbortSteps, OtherInv DEF DarwinInv
<1> QED BY <1>1, DetachedInv, AsyncIoInv, HandleCallbackInv, HandleGoneInv, OtherInv
        DEF D!Next, D!EventThread, D!HandleEvents

(* Each step is one of the transfer's.                                     *)
DarwinStep == t \in Transfers => [TD!Next]_TD!vars

LEMMA DarwinRefines == DarwinInv /\ [D!Next]_D!vars => DarwinStep
<1> SUFFICES ASSUME DarwinInv, [D!Next]_D!vars, t \in Transfers PROVE [TD!Next]_TD!vars
  BY DEF DarwinStep
<1> USE DEF D!flags, D!link
<1>0. DarwinTypes
  BY DEF DarwinInv
<1>1. CASE D!EventThread \/ D!Unplug \/ UNCHANGED D!vars
  BY <1>1 DEF D!EventThread, D!DevicesDetached, D!AsyncIoCallback, D!Unplug, D!vars, TD!vars
<1>2. CASE D!HandleCallback
  <2> DEFINE u == Head(messages).transfer
             result == D!TransferStatus(u, Head(messages).result)
  <2>1. /\ u \in Transfers /\ phase[u] = "flying" /\ asked' = asked
        /\ result \in TD!Results /\ (result = "CANCELLED" => asked[u])
        /\ phase' = [phase EXCEPT ![u] = result]
    BY <1>2, MessageRead DEF D!HandleCallback
  <2> HIDE DEF u, result
  <2>2. CASE u = t
    <3>1. TD!Finish(result)
      BY <1>0, <2>1, <2>2 DEF TD!Finish, DarwinTypes
    <3> QED BY <2>1, <3>1 DEF TD!Next
  <2>3. CASE u # t
    BY <1>0, <2>1, <2>3 DEF TD!vars, DarwinTypes
  <2> QED BY <2>2, <2>3
<1>3. CASE D!HandleGone
  <2>1. CASE phase[t] = "flying"
    <3>1. TD!Finish("NO_DEVICE")
      BY <1>3, <2>1 DEF D!HandleGone, TD!Finish
    <3> QED BY <3>1 DEF TD!Next, TD!Results
  <2>2. CASE phase[t] # "flying"
    BY <1>3, <2>2 DEF D!HandleGone, TD!vars
  <2> QED BY <2>1, <2>2
<1>4. ASSUME NEW u \in Transfers, D!Submit(u) PROVE [TD!Next]_TD!vars
  BY <1>0, <1>4 DEF D!Submit, D!Submittable, TD!Submit, TD!Next, TD!vars, DarwinTypes
<1>5. ASSUME NEW u \in Transfers, D!SubmitFails(u) PROVE [TD!Next]_TD!vars
  BY <1>5 DEF D!SubmitFails, TD!vars
<1>6. ASSUME NEW u \in Transfers, D!Renew(u) PROVE [TD!Next]_TD!vars
  BY <1>0, <1>6 DEF D!Renew, TD!Renew, TD!Next, TD!vars, DarwinTypes, Phases
<1>7. ASSUME NEW u \in Transfers, D!Cancel(u) \/ D!TimeOut(u) PROVE [TD!Next]_TD!vars
  <2>1. phase' = phase /\ asked'[t] = (asked[t] \/ phase[t] = "flying")
    BY <1>0, <1>7, AbortSteps DEF D!Abort
  <2>2. CASE phase[t] = "flying"
    BY <2>1, <2>2 DEF TD!Ask, TD!Next
  <2>3. CASE phase[t] # "flying"
    <3>1. asked'[t] = asked[t]
      BY <1>0, <2>1, <2>3 DEF DarwinTypes
    <3> QED BY <2>1, <3>1 DEF TD!vars
  <2> QED BY <2>2, <2>3
<1> QED BY <1>1, <1>2, <1>3, <1>4, <1>5, <1>6, <1>7 DEF D!Next, D!HandleEvents

(* There is never a message too many: each is about something else.        *)
LEMMA MessagesFew ==
  ASSUME DarwinTypes, MessagesOnce
  PROVE  Len(messages) =< Cardinality(Transfers) + 1
<1>1. IsFiniteSet(Transfers \cup {0}) /\ Cardinality(Transfers \cup {0}) = Cardinality(Transfers) + 1
  BY BackendsAssumption, Zero, FS_AddElement
<1>2. Len(messages) \in Nat
  BY DEF DarwinTypes
<1> DEFINE f == [i \in 1 .. Len(messages) |-> messages[i].transfer]
<1>3. \A i \in 1 .. Len(messages) : messages[i].transfer \in Transfers \cup {0}
  <2>1. \A i \in 1 .. Len(messages) : messages[i] \in Messages
    BY Element DEF DarwinTypes
  <2> QED BY <2>1 DEF Messages
<1>4. f \in Injection(1 .. Len(messages), Transfers \cup {0})
  BY <1>3 DEF Injection, IsInjective, MessagesOnce
<1>5. Cardinality(1 .. Len(messages)) =< Cardinality(Transfers \cup {0})
  BY <1>1, <1>4, FS_Injection
<1> QED BY <1>1, <1>2, <1>5, FS_Interval

LEMMA DarwinHeld == DarwinInv => D!TypeOK /\ D!OnePlace
<1> SUFFICES ASSUME DarwinInv PROVE D!TypeOK /\ D!OnePlace
  OBVIOUS
<1> USE DEF DarwinInv
<1>1. D!TypeOK
  BY MessagesFew, Same DEF D!TypeOK, DarwinTypes, Phases, TD!Results
<1>2. ASSUME NEW u \in Transfers, polled
      PROVE  Cardinality(D!Pending(u)) = IF phase[u] = "flying" /\ io[u] = "none" THEN 1 ELSE 0
  <2>0. DOMAIN messages = 1 .. Len(messages)
    BY DEF DarwinTypes
  <2>1. CASE phase[u] = "flying" /\ io[u] = "none"
    <3>1. PICK i \in 1 .. Len(messages) : messages[i].transfer = u
      BY <1>2, <2>1 DEF MessagesPresent
    <3>2. D!Pending(u) = {i}
      BY <2>0, <3>1 DEF D!Pending, MessagesOnce
    <3> QED BY <2>1, <3>2, FS_Singleton
  <2>2. CASE ~(phase[u] = "flying" /\ io[u] = "none")
    <3>1. \A i \in 1 .. Len(messages) : messages[i].transfer # u
      BY <1>2, <2>2, Zero DEF MessagesMatch, MessageOf, D!Gone
    <3>2. D!Pending(u) = {}
      BY <2>0, <3>1 DEF D!Pending
    <3> QED BY <2>2, <3>2, FS_EmptySet
  <2> QED BY <2>1, <2>2
<1>3. ASSUME NEW u \in Transfers, polled, phase[u] # "flying" PROVE io[u] = "none"
  BY <1>3 DEF RequestsMatch
<1> QED BY <1>1, <1>2, <1>3, Same DEF D!OnePlace
-----------------------------------------------------------------------------
(* The Windows backend.                                                    *)

TW == INSTANCE Transfer
        WITH phase <- IF phase[t] \in {"unclaimed", "ready"} THEN "idle" ELSE phase[t],
             asked <- asked[t], reset <- reset

Statuses == {"ok", "over", "stall", "sem_timeout", "aborted", "error"}
Reports == {"COMPLETED", "ERROR", "TIMED_OUT", "CANCELLED", "STALL", "OVERFLOW"}

WindowsTypes ==
  /\ composite \in BOOLEAN /\ api \in [Ifaces -> {"winusb", "hid"}]
  /\ kind \in [Transfers -> {"control", "bulk"}] /\ target \in [Transfers -> Ifaces]
  /\ claimed \subseteq Ifaces /\ handle \subseteq Ifaces
  /\ autoclaim_count \in [Ifaces -> 0 .. MaxAutoclaims]
  /\ phase \in [Transfers -> {"idle", "unclaimed", "ready", "flying", "lost"} \cup Reports]
  /\ asked \in [Transfers -> BOOLEAN] /\ timed_out \in [Transfers -> BOOLEAN]
  /\ interface_number \in [Transfers -> Ifaces] /\ hid_buffer \in [Transfers -> BOOLEAN]
  /\ fd \in [Transfers -> BOOLEAN]
  /\ io \in [Transfers -> {"none", "pending"} \cup Statuses]
  /\ reset \in BOOLEAN

\* What was aborted was asked to stop.
AbortedAsked == \A u \in Transfers : io[u] = "aborted" => asked[u]

WindowsInv == WindowsTypes /\ W!RequestHeld /\ AbortedAsked

(* What one transfer's part of the invariant says.                         *)
Lent(u) ==
  /\ (phase[u] = "flying") = fd[u] /\ fd[u] = (io[u] # "none")
  /\ io[u] = "pending" /\ api[interface_number[u]] = "hid" => hid_buffer[u]
  /\ phase[u] \in Reports => ~hid_buffer[u]
  /\ io[u] = "aborted" => asked[u]

LEMMA LentAll == WindowsInv <=> WindowsTypes /\ \A u \in Transfers : Lent(u)
  BY DEF WindowsInv, W!RequestHeld, W!Api, AbortedAsked, Lent, Reports

LEMMA LentNext == WindowsTypes' /\ (\A u \in Transfers : Lent(u)') => WindowsInv'
  BY DEF WindowsInv, W!RequestHeld, W!Api, AbortedAsked, Lent, Reports

WindowsStep == t \in Transfers => [TW!Next]_TW!vars

LEMMA WindowsInit == W!Init => WindowsInv /\ (t \in Transfers => TW!Init)
<1> SUFFICES ASSUME W!Init PROVE WindowsInv /\ (t \in Transfers => TW!Init)
  OBVIOUS
<1>1. WindowsTypes
  <2>1. autoclaim_count \in [Ifaces -> 0 .. MaxAutoclaims]
    BY BackendsAssumption DEF W!Init
  <2>2. interface_number \in [Transfers -> Ifaces]
    BY BackendsAssumption DEF W!Init, W!All
  <2> QED BY <2>1, <2>2 DEF W!Init, W!All, WindowsTypes
<1>2. W!RequestHeld /\ AbortedAsked
  BY DEF W!Init, W!All, W!RequestHeld, AbortedAsked
<1>3. t \in Transfers => TW!Init
  BY DEF W!Init, W!All, TW!Init
<1> QED BY <1>1, <1>2, <1>3 DEF WindowsInv

(* Claims and releases, by the program or by the backend, concern the      *)
(* interfaces of the device.                                               *)
LEMMA ClaimTypes ==
  ASSUME WindowsTypes, NEW i \in Ifaces
  PROVE  /\ W!Opened(i) \subseteq Ifaces
         /\ W!Claims(i) => claimed' \subseteq Ifaces /\ handle' \subseteq Ifaces
         /\ W!Releases(i) => claimed' \subseteq Ifaces /\ handle' \subseteq Ifaces
         /\ \A is : W!AfterFailing(is) \subseteq Ifaces
  BY BackendsAssumption DEF WindowsTypes, W!Opened, W!Claims, W!Releases, W!AfterFailing

LEMMA ClaimInv ==
  ASSUME WindowsInv, NEW i \in Ifaces, W!Claim(i) \/ W!Release(i)
  PROVE  WindowsInv' /\ WindowsStep
<1>1. UNCHANGED <<W!rigid, autoclaim_count, phase, asked, timed_out, W!request, reset>>
  BY DEF W!Claim, W!Release
<1>2. claimed' \subseteq Ifaces /\ handle' \subseteq Ifaces
  BY ClaimTypes DEF W!Claim, W!Release, WindowsInv, WindowsTypes
<1>3. WindowsTypes'
  BY <1>1, <1>2 DEF WindowsInv, WindowsTypes, W!rigid, W!request
<1>4. \A u \in Transfers : Lent(u)'
  BY <1>1, LentAll DEF Lent, W!rigid, W!request
<1>5. WindowsStep
  BY <1>1 DEF WindowsStep, TW!vars
<1> QED BY <1>3, <1>4, <1>5, LentNext

(* The interface that get_valid_interface finds is one of the device.      *)
LEMMA ValidInterface == ASSUME WindowsTypes, W!Valid # {} PROVE W!Min(W!Valid) \in Ifaces
<1>1. W!Valid \in SUBSET Nat /\ W!Valid \subseteq Ifaces
  BY BackendsAssumption DEF WindowsTypes, W!Valid
<1> QED BY <1>1, Least, Same

\* A step of a submission, which leaves the transfer without a request.
LEMMA Unstarted ==
  ASSUME WindowsInv, NEW u \in Transfers, phase[u] \in {"idle", "unclaimed", "ready"},
         WindowsTypes', UNCHANGED <<W!rigid, asked, fd, io, reset>>,
         phase'[u] \in {"idle", "unclaimed", "ready"},
         \A v \in Transfers : v # u => /\ phase'[v] = phase[v] /\ hid_buffer'[v] = hid_buffer[v]
                                       /\ interface_number'[v] = interface_number[v]
  PROVE  WindowsInv' /\ WindowsStep
<1>1. Lent(u)'
  BY LentAll DEF Lent, Reports
<1>2. ASSUME NEW v \in Transfers, v # u PROVE Lent(v)'
  BY <1>2, LentAll DEF Lent, W!rigid
<1>3. WindowsStep
  BY DEF WindowsStep, TW!vars
<1> QED BY <1>1, <1>2, <1>3, LentNext

LEMMA LookUpInv ==
  ASSUME WindowsInv, NEW u \in Transfers, W!LookUp(u) \/ W!InterfaceByEndpoint(u)
  PROVE  WindowsInv' /\ WindowsStep
<1>0. WindowsTypes
  BY DEF WindowsInv
<1>1. UNCHANGED <<W!rigid, W!claims, asked, timed_out, fd, io, reset>>
  BY DEF W!LookUp, W!InterfaceByEndpoint
<1>2. phase[u] = "idle" /\ \E p \in {"unclaimed", "ready"} : phase' = [phase EXCEPT ![u] = p]
  BY DEF W!LookUp, W!InterfaceByEndpoint
<1>3. \E i \in Ifaces : interface_number' \in
        {interface_number, [interface_number EXCEPT ![u] = i]}
  <2>1. CASE W!LookUp(u)
    BY <2>1, <1>0, ValidInterface, BackendsAssumption DEF W!LookUp
  <2>2. CASE W!InterfaceByEndpoint(u)
    BY <2>2, <1>0 DEF W!InterfaceByEndpoint, WindowsTypes
  <2> QED BY <2>1, <2>2
<1>4. \E b \in BOOLEAN : hid_buffer' = [hid_buffer EXCEPT ![u] = b]
  <2>1. hid_buffer[u] \in BOOLEAN
    BY <1>0 DEF WindowsTypes
  <2> QED BY <2>1 DEF W!LookUp, W!InterfaceByEndpoint
<1>5. WindowsTypes'
  BY <1>0, <1>1, <1>2, <1>3, <1>4 DEF WindowsTypes, W!rigid, W!claims
<1>6. phase'[u] \in {"idle", "unclaimed", "ready"} /\ phase[u] \in {"idle", "unclaimed", "ready"}
  BY <1>0, <1>2 DEF WindowsTypes
<1>7. \A v \in Transfers : v # u => /\ phase'[v] = phase[v] /\ hid_buffer'[v] = hid_buffer[v]
                                    /\ interface_number'[v] = interface_number[v]
  BY <1>0, <1>2, <1>3, <1>4 DEF WindowsTypes
<1> QED BY <1>1, <1>5, <1>6, <1>7, Unstarted

LEMMA AutoClaimInv ==
  ASSUME WindowsInv, NEW u \in Transfers, W!AutoClaim(u)
  PROVE  WindowsInv' /\ WindowsStep
<1>0. WindowsTypes
  BY DEF WindowsInv
<1>1. UNCHANGED <<W!rigid, asked, timed_out, hid_buffer, fd, io, reset>>
  BY DEF W!AutoClaim
<1>2. phase[u] = "unclaimed" /\ \E p \in {"idle", "ready"} : phase' = [phase EXCEPT ![u] = p]
  BY DEF W!AutoClaim
<1> DEFINE Claimed ==
             /\ \E i \in Ifaces : interface_number' \in
                   {interface_number, [interface_number EXCEPT ![u] = i]}
             /\ claimed' \subseteq Ifaces /\ handle' \subseteq Ifaces
             /\ autoclaim_count' \in [Ifaces -> 0 .. MaxAutoclaims]
<1>3. Claimed
  <2> DEFINE candidates == {i \in Ifaces : api[i] = W!ControlApi}
  <2>1. ASSUME NEW i \in candidates, autoclaim_count[i] < MaxAutoclaims,
               claimed' = claimed \cup {i},
               handle' = IF i \in claimed THEN handle
                         ELSE W!AfterFailing(candidates \cap 0 .. i - 1) \cup W!Opened(i),
               autoclaim_count' = [autoclaim_count EXCEPT ![i] = @ + 1],
               interface_number' = [interface_number EXCEPT ![u] = i]
        PROVE  Claimed
    <3>1. i \in Ifaces /\ autoclaim_count[i] + 1 \in 0 .. MaxAutoclaims
      BY <1>0, <2>1, BackendsAssumption DEF WindowsTypes
    <3>2. handle' \subseteq Ifaces
      BY <1>0, <2>1, <3>1, ClaimTypes DEF WindowsTypes
    <3> QED BY <1>0, <2>1, <3>1, <3>2 DEF WindowsTypes
  <2>2. CASE /\ handle' = W!AfterFailing(candidates)
             /\ UNCHANGED <<claimed, autoclaim_count, interface_number>>
    BY <1>0, <2>2, ClaimTypes, BackendsAssumption DEF WindowsTypes
  <2> QED BY <2>1, <2>2 DEF W!AutoClaim
<1>5. WindowsTypes'
  BY <1>0, <1>1, <1>2, <1>3 DEF WindowsTypes, W!rigid
<1>6. phase'[u] \in {"idle", "unclaimed", "ready"} /\ phase[u] \in {"idle", "unclaimed", "ready"}
  BY <1>0, <1>2 DEF WindowsTypes
<1>7. \A v \in Transfers : v # u => /\ phase'[v] = phase[v] /\ hid_buffer'[v] = hid_buffer[v]
                                    /\ interface_number'[v] = interface_number[v]
  BY <1>0, <1>1, <1>2, <1>3 DEF WindowsTypes
<1> QED BY <1>1, <1>5, <1>6, <1>7, Unstarted

LEMMA StartEndsInv ==
  ASSUME WindowsInv, NEW u \in Transfers, W!StartFails(u) \/ W!StartAbandons(u)
  PROVE  WindowsInv' /\ WindowsStep
<1>0. WindowsTypes
  BY DEF WindowsInv
<1>1. UNCHANGED <<W!rigid, W!claims, asked, timed_out, interface_number, fd, io, reset>>
  BY DEF W!StartFails, W!StartAbandons, W!request
<1>2. phase[u] = "ready" /\ phase' = [phase EXCEPT ![u] = "idle"]
  BY DEF W!StartFails, W!StartAbandons
<1>3. hid_buffer' \in {hid_buffer, [hid_buffer EXCEPT ![u] = TRUE]}
  BY DEF W!StartFails, W!StartAbandons, W!request
<1>5. WindowsTypes'
  BY <1>0, <1>1, <1>2, <1>3 DEF WindowsTypes, W!rigid, W!claims
<1>6. phase'[u] \in {"idle", "unclaimed", "ready"} /\ phase[u] \in {"idle", "unclaimed", "ready"}
  BY <1>0, <1>2 DEF WindowsTypes
<1>7. \A v \in Transfers : v # u => /\ phase'[v] = phase[v] /\ hid_buffer'[v] = hid_buffer[v]
                                    /\ interface_number'[v] = interface_number[v]
  BY <1>0, <1>1, <1>2, <1>3 DEF WindowsTypes
<1> QED BY <1>1, <1>5, <1>6, <1>7, Unstarted

LEMMA StartInv ==
  ASSUME WindowsInv, NEW u \in Transfers, W!Start(u) \/ W!StartDone(u)
  PROVE  WindowsInv' /\ WindowsStep
<1>0. WindowsTypes
  BY DEF WindowsInv
<1>1. /\ phase[u] = "ready" /\ phase' = [phase EXCEPT ![u] = "flying"]
      /\ fd' = [fd EXCEPT ![u] = TRUE]
      /\ UNCHANGED <<W!rigid, W!claims, asked, timed_out, interface_number, reset>>
  BY DEF W!Start, W!StartDone, W!Starts
<1>2. /\ \E s \in {"pending", "ok"} : io' = [io EXCEPT ![u] = s]
      /\ \E b \in BOOLEAN : hid_buffer' = [hid_buffer EXCEPT ![u] = b]
      /\ io'[u] = "pending" => hid_buffer'[u] = (api[interface_number[u]] = "hid")
  BY <1>0 DEF W!Start, W!StartDone, W!Api, WindowsTypes
<1>3. WindowsTypes'
  BY <1>0, <1>1, <1>2 DEF WindowsTypes, W!rigid, W!claims, Statuses
<1>4. Lent(u)'
  BY <1>0, <1>1, <1>2 DEF Lent, Reports, WindowsTypes, W!rigid
<1>5. ASSUME NEW v \in Transfers, v # u PROVE Lent(v)'
  BY <1>0, <1>1, <1>2, <1>5, LentAll DEF Lent, WindowsTypes, W!rigid
<1>6. ASSUME t \in Transfers PROVE [TW!Next]_TW!vars
  <2>1. CASE u = t
    <3>1. TW!Submit
      BY <1>0, <1>1, <1>6, <2>1 DEF TW!Submit, WindowsTypes
    <3> QED BY <3>1 DEF TW!Next
  <2>2. CASE u # t
    BY <1>0, <1>1, <2>2, <1>6 DEF TW!vars, WindowsTypes
  <2> QED BY <2>1, <2>2
<1> QED BY <1>3, <1>4, <1>5, <1>6, LentNext DEF WindowsStep

LEMMA EndInv ==
  ASSUME WindowsInv, NEW u \in Transfers, W!End(u)
  PROVE  WindowsInv' /\ WindowsStep
<1>0. WindowsTypes
  BY DEF WindowsInv
<1>1. /\ io[u] = "pending"
      /\ UNCHANGED <<W!rigid, W!claims, phase, asked, timed_out, interface_number, hid_buffer, fd,
                     reset>>
  BY DEF W!End
<1>2. \E s \in Statuses \ {"aborted"} : io' = [io EXCEPT ![u] = s]
  BY DEF W!End, Statuses
<1>3. WindowsTypes'
  BY <1>0, <1>1, <1>2 DEF WindowsTypes, W!rigid, W!claims
<1>4. ASSUME NEW v \in Transfers PROVE Lent(v)'
  BY <1>0, <1>1, <1>2, LentAll DEF Lent, WindowsTypes, W!rigid, Statuses
<1>5. WindowsStep
  BY <1>1 DEF WindowsStep, TW!vars
<1> QED BY <1>3, <1>4, <1>5, LentNext

LEMMA AbortInv ==
  ASSUME WindowsInv, NEW u \in Transfers, W!Abort(u), timed_out' \in [Transfers -> BOOLEAN]
  PROVE  WindowsInv' /\ WindowsStep
<1>0. WindowsTypes
  BY DEF WindowsInv
<1>1. UNCHANGED <<W!rigid, W!claims, phase, interface_number, hid_buffer, fd, reset>>
  BY DEF W!Abort
<1>2. PICK ts \in SUBSET Transfers :
        W!Aborting(u, ts) /\ io' = W!Set(io, ts, "aborted") /\ asked' = W!Set(asked, ts, TRUE)
  BY DEF W!Abort
<1>3. \A v \in ts : io[v] = "pending"
  BY <1>2 DEF W!Aborting
<1>4. \A v \in Transfers : /\ io'[v] = IF v \in ts THEN "aborted" ELSE io[v]
                           /\ asked'[v] = IF v \in ts THEN TRUE ELSE asked[v]
  BY <1>0, <1>2 DEF WindowsTypes, W!Set
<1>5. WindowsTypes'
  <2>1. io' \in [Transfers -> {"none", "pending"} \cup Statuses]
    BY <1>0, <1>2 DEF WindowsTypes, W!Set, Statuses
  <2>2. asked' \in [Transfers -> BOOLEAN]
    BY <1>0, <1>2 DEF WindowsTypes, W!Set
  <2> QED BY <1>0, <1>1, <2>1, <2>2 DEF WindowsTypes, W!rigid, W!claims
<1>6. ASSUME NEW v \in Transfers PROVE Lent(v)'
  BY <1>1, <1>3, <1>4, LentAll DEF Lent, W!rigid
<1>7. ASSUME t \in Transfers PROVE [TW!Next]_TW!vars
  <2>1. CASE t \in ts
    <3>1. phase[t] = "flying"
      BY <1>3, <2>1, <1>7, LentAll DEF Lent
    <3>2. TW!Ask
      BY <1>1, <1>4, <2>1, <3>1, <1>7 DEF TW!Ask
    <3> QED BY <3>2 DEF TW!Next
  <2>2. CASE t \notin ts
    BY <1>1, <1>4, <2>2, <1>7 DEF TW!vars
  <2> QED BY <2>1, <2>2
<1> QED BY <1>5, <1>6, <1>7, LentNext DEF WindowsStep

(* windows_handle_events reports what Windows said, and CANCELLED only for *)
(* what was aborted.                                                       *)
LEMMA WindowsStatus ==
  ASSUME NEW u
  PROVE  /\ W!TransferStatus(u) \in Reports
         /\ W!TransferStatus(u) = "CANCELLED" => io[u] = "aborted"
  BY DEF W!TransferStatus, W!CopyTransferData, Reports

LEMMA HandleEventsInv ==
  ASSUME WindowsInv, NEW u \in Transfers, W!HandleEvents(u)
  PROVE  WindowsInv' /\ WindowsStep
<1>0. WindowsTypes
  BY DEF WindowsInv
<1> DEFINE result == W!TransferStatus(u)
           i == interface_number[u]
<1>1. /\ phase[u] = "flying" /\ phase' = [phase EXCEPT ![u] = result]
      /\ fd' = [fd EXCEPT ![u] = FALSE] /\ io' = [io EXCEPT ![u] = "none"]
      /\ hid_buffer' = [hid_buffer EXCEPT ![u] = FALSE]
      /\ W!AutoRelease(i)
      /\ UNCHANGED <<W!rigid, asked, timed_out, interface_number, reset>>
  BY DEF W!HandleEvents, W!ClearTransferPriv
<1>2. result \in Reports /\ (result = "CANCELLED" => asked[u])
  BY WindowsStatus, LentAll DEF Lent
<1>3. i \in Ifaces
  BY <1>0 DEF WindowsTypes
<1> HIDE DEF result, i
<1>4. /\ claimed' \subseteq Ifaces /\ handle' \subseteq Ifaces
      /\ autoclaim_count' \in [Ifaces -> 0 .. MaxAutoclaims]
  <2>1. claimed' \subseteq Ifaces /\ handle' \subseteq Ifaces
    BY <1>0, <1>1, <1>3, ClaimTypes DEF W!AutoRelease, WindowsTypes
  <2>2. (IF autoclaim_count[i] > 0 THEN autoclaim_count[i] - 1 ELSE 0) \in 0 .. MaxAutoclaims
    BY <1>0, <1>3, BackendsAssumption DEF WindowsTypes
  <2> QED BY <1>0, <1>1, <1>3, <2>1, <2>2 DEF W!AutoRelease, WindowsTypes
<1>5. WindowsTypes'
  BY <1>0, <1>1, <1>2, <1>4 DEF WindowsTypes, W!rigid
<1>6. Lent(u)'
  BY <1>0, <1>1, <1>2 DEF Lent, WindowsTypes, Reports
<1>7. ASSUME NEW v \in Transfers, v # u PROVE Lent(v)'
  BY <1>0, <1>1, <1>7, LentAll DEF Lent, WindowsTypes, W!rigid
<1>8. ASSUME t \in Transfers PROVE [TW!Next]_TW!vars
  <2>1. CASE u = t
    <3>1. phase'[t] = result /\ result \notin {"unclaimed", "ready"} /\ result \in TW!Results
      BY <1>0, <1>1, <1>2, <2>1 DEF WindowsTypes, Reports, TW!Results
    <3>2. TW!Finish(result)
      BY <1>1, <1>2, <2>1, <3>1 DEF TW!Finish
    <3> QED BY <3>1, <3>2 DEF TW!Next
  <2>2. CASE u # t
    BY <1>0, <1>1, <2>2, <1>8 DEF TW!vars, WindowsTypes
  <2> QED BY <2>1, <2>2
<1> QED BY <1>5, <1>6, <1>7, <1>8, LentNext DEF WindowsStep

LEMMA RenewInv ==
  ASSUME WindowsInv, NEW u \in Transfers, W!Renew(u)
  PROVE  WindowsInv' /\ WindowsStep
<1>0. WindowsTypes
  BY DEF WindowsInv
<1>1. /\ phase[u] \in Reports /\ phase' = [phase EXCEPT ![u] = "idle"]
      /\ asked' = [asked EXCEPT ![u] = FALSE] /\ timed_out' = [timed_out EXCEPT ![u] = FALSE]
      /\ UNCHANGED <<W!rigid, W!claims, W!request, reset>>
  BY <1>0 DEF W!Renew, WindowsTypes
<1>2. WindowsTypes'
  BY <1>0, <1>1 DEF WindowsTypes, W!rigid, W!claims, W!request
<1>3. ASSUME NEW v \in Transfers PROVE Lent(v)'
  BY <1>0, <1>1, LentAll DEF Lent, WindowsTypes, W!rigid, W!request, Reports
<1>4. ASSUME t \in Transfers PROVE [TW!Next]_TW!vars
  <2>1. CASE u = t
    <3>1. TW!Renew
      BY <1>0, <1>1, <1>4, <2>1 DEF TW!Renew, WindowsTypes, Reports, TW!Results
    <3> QED BY <3>1 DEF TW!Next
  <2>2. CASE u # t
    BY <1>0, <1>1, <2>2, <1>4 DEF TW!vars, WindowsTypes
  <2> QED BY <2>1, <2>2
<1> QED BY <1>2, <1>3, <1>4, LentNext DEF WindowsStep

LEMMA ResetInv ==
  ASSUME WindowsInv, W!ResetDevice
  PROVE  WindowsInv' /\ WindowsStep
<1>0. WindowsTypes
  BY DEF WindowsInv
<1> DEFINE freed == {u \in Transfers :
                       fd[u] /\ api[interface_number[u]] = "winusb" /\ interface_number[u] \in handle}
<1>1. /\ phase' = W!Set(phase, freed, "lost") /\ fd' = W!Set(fd, freed, FALSE)
      /\ io' = W!Set(io, freed, "none") /\ reset' = TRUE
      /\ UNCHANGED <<W!rigid, W!claims, asked, timed_out, interface_number, hid_buffer>>
  BY DEF W!ResetDevice, W!Api
<1>2. \A u \in freed : phase[u] = "flying"
  BY LentAll DEF Lent
<1>3. \A u \in Transfers : /\ phase'[u] = IF u \in freed THEN "lost" ELSE phase[u]
                           /\ fd'[u] = IF u \in freed THEN FALSE ELSE fd[u]
                           /\ io'[u] = IF u \in freed THEN "none" ELSE io[u]
  BY <1>0, <1>1 DEF W!Set, WindowsTypes
<1> HIDE DEF freed
<1>4. WindowsTypes'
  <2>1. phase' \in [Transfers -> {"idle", "unclaimed", "ready", "flying", "lost"} \cup Reports]
    BY <1>0, <1>1 DEF W!Set, WindowsTypes
  <2>2. fd' \in [Transfers -> BOOLEAN]
    BY <1>0, <1>1 DEF W!Set, WindowsTypes
  <2>3. io' \in [Transfers -> {"none", "pending"} \cup Statuses]
    BY <1>0, <1>1 DEF W!Set, WindowsTypes
  <2> QED BY <1>0, <1>1, <2>1, <2>2, <2>3 DEF WindowsTypes, W!rigid, W!claims
<1>5. ASSUME NEW u \in Transfers PROVE Lent(u)'
  <2>1. CASE u \in freed
    BY <1>3, <2>1 DEF Lent, Reports
  <2>2. CASE u \notin freed
    BY <1>1, <1>3, <2>2, LentAll DEF Lent, W!rigid
  <2> QED BY <2>1, <2>2
<1>6. ASSUME t \in Transfers PROVE TW!Reset
  <2>1. CASE t \in freed
    BY <1>1, <1>2, <1>3, <2>1, <1>6 DEF TW!Reset
  <2>2. CASE t \notin freed
    BY <1>1, <1>3, <2>2, <1>6 DEF TW!Reset
  <2> QED BY <2>1, <2>2
<1> QED BY <1>4, <1>5, <1>6, LentNext DEF TW!Next, WindowsStep

LEMMA WindowsNext == WindowsInv /\ [W!Next]_W!vars => WindowsInv' /\ WindowsStep
<1> SUFFICES ASSUME WindowsInv, [W!Next]_W!vars PROVE WindowsInv' /\ WindowsStep
  OBVIOUS
<1>1. ASSUME NEW u \in Transfers, W!Cancel(u) \/ W!TimeOut(u)
      PROVE  WindowsInv' /\ WindowsStep
  <2>1. W!Abort(u) /\ timed_out' \in [Transfers -> BOOLEAN]
    BY <1>1 DEF W!Cancel, W!TimeOut, WindowsInv, WindowsTypes
  <2> QED BY <2>1, AbortInv
<1>2. CASE UNCHANGED W!vars
  BY <1>2 DEF W!vars, W!rigid, W!claims, W!request, TW!vars, WindowsInv, WindowsTypes,
              W!RequestHeld, W!Api, AbortedAsked, WindowsStep
<1> QED BY <1>1, <1>2, ClaimInv, LookUpInv, AutoClaimInv, StartEndsInv, StartInv, EndInv,
           HandleEventsInv, RenewInv, ResetInv
        DEF W!Next, W!Submission

LEMMA WindowsHeld == WindowsInv => W!TypeOK /\ W!RequestHeld
  BY DEF WindowsInv, WindowsTypes, W!TypeOK, Reports, Statuses
-----------------------------------------------------------------------------
(* The Linux backend.                                                      *)

TL == INSTANCE Transfer WITH phase <- L!AbstractPhase, asked <- asked, reset <- FALSE

Ended == {"ok", "short", "stall", "error", "overflow", "cancelled", "shutdown"}
Ticket == [at : {"none", "flying", "reapable", "reaped"}, status : Ended, len : 0 .. Cap]

Flying == L!At("flying")
Reapable == L!At("reapable")

LinuxTypes ==
  /\ kind \in {"bulk", "iso", "control"} /\ continuation \in BOOLEAN
  /\ phase \in {"idle", "submitting", "flying"} \cup L!Results
  /\ asked \in BOOLEAN /\ urbs \in BOOLEAN /\ refused \in BOOLEAN
  /\ num_urbs \in 0 .. MaxUrbs /\ (kind = "control" => num_urbs =< 1)
  /\ num_retired \in 0 .. num_urbs /\ iso_packet_offset \in 0 .. num_retired
  /\ reap_action \in {"NORMAL", "SUBMIT_FAILED", "COMPLETED_EARLY", "CANCELLED", "ERROR"}
  /\ reap_status \in L!Results \ {"CANCELLED"} /\ (kind # "bulk" => reap_status = "COMPLETED")
  /\ results \in [L!Ids -> 0 .. MaxUrbs] /\ todo \subseteq 1 .. num_urbs
  /\ urb \in [L!Ids -> Ticket] /\ queue \in Seq(L!Ids)
  /\ endpoint \in {"ok", "disabled", "halted", "gone"}
  /\ buffer \in [1 .. L!Offset(MaxUrbs + 1) -> Nat]

(* The queue has each finished URB once.                                   *)
Queued ==
  /\ \A i \in Reapable : \E k \in 1 .. Len(queue) : queue[k] = i
  /\ \A k \in 1 .. Len(queue) : queue[k] \in Reapable
  /\ \A k, l \in 1 .. Len(queue) : k # l => queue[k] # queue[l]

(* What an URB says of its end.                                            *)
Tickets ==
  \A i \in L!Ids :
    /\ urb[i].at # "none" => i =< num_urbs
    /\ urb[i].at \in {"none", "flying"} => urb[i].status = "ok" /\ urb[i].len = 0
    /\ urb[i].at \in {"reapable", "reaped"} =>
         /\ urb[i].status = "ok" => urb[i].len = Cap
         /\ urb[i].len = Cap => urb[i].status \in {"ok", "overflow"}
         /\ urb[i].status = "overflow" => i = num_urbs

(* All URBs up to one have been submitted, and those up to another reaped. *)
InLine(from, to) ==
  /\ from \in Nat /\ to \in Nat /\ from + Len(queue) =< to
  /\ \A k \in 1 .. Len(queue) : queue[k] = from + k
  /\ Flying = from + Len(queue) + 1 .. to

Submitting ==
  phase = "submitting" =>
    /\ \E to \in 0 .. num_urbs - 1 : todo = to + 1 .. num_urbs /\ InLine(0, to)
    /\ num_retired = 0 /\ transferred = 0 /\ iso_packet_offset = 0
    /\ reap_action = "NORMAL" /\ reap_status = "COMPLETED" /\ urbs
    /\ \A i \in L!Ids : urb[i].at # "reaped"

Counted ==
  phase = "flying" => num_retired + Cardinality(Flying \cup Reapable) = num_urbs

(* The kernel has URBs that follow each other.                             *)
Convex == \A i, j \in Flying : \A k \in i .. j : k \in Flying

(* What is to be discarded follows each other and is not before the rest.  *)
Discarding ==
  todo # {} /\ phase # "submitting" =>
    /\ phase = "flying"
    /\ \E lo, hi \in 1 .. num_urbs : lo =< hi /\ todo = lo .. hi /\ \A i \in Flying : i =< hi

(* What is unfinished has room for all that comes after what was sent.     *)
Floor ==
  /\ transferred \in Nat /\ sent \in Nat
  /\ transferred =< sent /\ sent =< L!Offset(num_urbs + 1)
  /\ \A i \in Flying : sent =< L!Offset(i)
  /\ phase = "submitting" => \A i \in todo : sent =< L!Offset(i)

(* The finished URBs bring what was sent and not yet counted, in order.    *)
Runs(s) ==
  /\ s \in [1 .. Len(queue) + 1 -> Nat]
  /\ s[1] = transferred /\ s[Len(queue) + 1] = sent
  /\ \A k, l \in 1 .. Len(queue) + 1 : k =< l => s[k] =< s[l]
  /\ \A k \in 1 .. Len(queue) :
       /\ s[k + 1] = s[k] + urb[queue[k]].len
       /\ urb[queue[k]].len > 0 => s[k] =< L!Offset(queue[k])
       /\ \A p \in 1 .. urb[queue[k]].len : buffer[L!Offset(queue[k]) + p] = s[k] + p
Brought ==
  kind # "iso" /\ ~(phase = "NO_DEVICE" /\ endpoint = "gone") => \E s : Runs(s)
Moved == kind = "bulk" => \A p \in 1 .. transferred : buffer[p] = p

Orderly ==
  phase = "flying" /\ reap_action = "NORMAL" /\ (reap_status = "COMPLETED" \/ continuation) =>
    todo = {} /\ InLine(num_retired, num_urbs)

Full ==
  phase = "flying" /\ reap_action = "NORMAL" /\ reap_status = "COMPLETED" =>
    /\ \A i \in 1 .. num_retired : urb[i].at = "reaped"
    /\ kind = "bulk" => /\ \A i \in 1 .. num_retired : urb[i].status = "ok"
                        /\ transferred = L!Offset(num_retired + 1)
    /\ kind = "iso" => /\ iso_packet_offset = num_retired
                       /\ \A i \in 1 .. num_retired : results[i] = i

AfterBad ==
  \A k \in 1 .. Len(queue) :
    urb[queue[k]].status \in {"stall", "shutdown"} =>
      endpoint # "ok" /\ \A l \in k + 1 .. Len(queue) : urb[queue[l]].len = 0
Stalled ==
  phase = "flying" /\ reap_action = "NORMAL" /\ reap_status # "COMPLETED" =>
    endpoint # "ok" /\ \A i \in Reapable : urb[i].len = 0

Early ==
  phase = "flying" /\ kind = "bulk" /\ reap_action = "COMPLETED_EARLY" /\ reap_status = "COMPLETED" /\ ~refused =>
    \E i \in L!Ids : /\ urb[i].at = "reaped" /\ urb[i].status \in {"short", "cancelled"}
                     /\ \A j \in 1 .. i - 1 : urb[j].at = "reaped" /\ urb[j].status = "ok"

LinuxAsked ==
  /\ phase \in {"idle", "submitting"} => ~asked
  /\ reap_action = "CANCELLED" /\ phase \notin {"idle", "submitting"} => asked

LinuxInv ==
  /\ LinuxTypes /\ Queued /\ Tickets /\ Submitting /\ Counted /\ Convex /\ Discarding
  /\ Floor /\ Brought /\ Moved /\ Orderly /\ Full /\ AfterBad /\ Stalled /\ Early /\ LinuxAsked
  /\ L!FreedWhenReaped /\ L!ErrorReported /\ L!IsoInPlace
-----------------------------------------------------------------------------
(* The places of the URBs in the buffer follow each other.                 *)
LEMMA Times == ASSUME NEW a \in Nat, NEW b \in Nat PROVE a * b \in Nat
  OBVIOUS

LEMMA Offsets ==
  /\ \A i \in Nat : L!Offset(i + 1) \in Nat /\ L!Offset(i + 1) = i * Cap
  /\ L!Offset(1) = 0
  /\ \A i \in Nat \ {0} : L!Offset(i) \in Nat /\ L!Offset(i + 1) = L!Offset(i) + Cap
  /\ \A i, j \in Nat \ {0} : i < j => L!Offset(i) + Cap =< L!Offset(j)
<1>0. Cap \in Nat \ {0}
  BY BackendsAssumption
<1>1. ASSUME NEW i \in Nat PROVE L!Offset(i + 1) \in Nat /\ L!Offset(i + 1) = i * Cap
  <2>1. i + 1 - 1 = i
    OBVIOUS
  <2> QED BY <1>0, <2>1, Times DEF L!Offset
<1>2. L!Offset(1) = 0
  BY <1>0 DEF L!Offset
<1>3. ASSUME NEW i \in Nat \ {0} PROVE L!Offset(i) \in Nat /\ L!Offset(i + 1) = L!Offset(i) + Cap
  <2>1. (i - 1) * Cap \in Nat
    BY <1>0, Times
  <2>2. i * Cap = (i - 1) * Cap + Cap
    BY <1>0
  <2> QED BY <1>1, <2>1, <2>2 DEF L!Offset
<1>4. ASSUME NEW i \in Nat \ {0}, NEW j \in Nat \ {0}, i < j
      PROVE  L!Offset(i) + Cap =< L!Offset(j)
  <2>1. (j - i - 1) * Cap \in Nat
    BY <1>0, <1>4, Times
  <2>2. (j - 1) * Cap = (i - 1) * Cap + Cap + (j - i - 1) * Cap
    BY <1>0
  <2> QED BY <1>0, <1>3, <2>1, <2>2 DEF L!Offset
<1> QED BY <1>1, <1>2, <1>3, <1>4

LEMMA SeqJoin ==
  ASSUME NEW S, NEW s \in Seq(S), NEW e \in Seq(S)
  PROVE  /\ s \o e \in Seq(S) /\ Len(s) \in Nat /\ Len(e) \in Nat
         /\ Len(s \o e) = Len(s) + Len(e)
         /\ \A k \in 1 .. Len(s) : (s \o e)[k] = s[k]
         /\ \A k \in 1 .. Len(e) : (s \o e)[Len(s) + k] = e[k]
         /\ \A k \in 1 .. Len(s) + Len(e) : k \in 1 .. Len(s) \/ k - Len(s) \in 1 .. Len(e)
  OBVIOUS

(* URBs e end, the first of them with n units.                             *)
Finished(e, n) ==
  /\ e \in Seq(L!Ids) /\ queue' = queue \o e
  /\ \A k \in 1 .. Len(e) : e[k] \in Flying
  /\ \A k, l \in 1 .. Len(e) : k # l => e[k] # e[l]
  /\ urb' \in [L!Ids -> Ticket]
  /\ \A i \in L!Ids : (\A k \in 1 .. Len(e) : e[k] # i) => urb'[i] = urb[i]
  /\ \A k \in 1 .. Len(e) :
       LET u == urb'[e[k]] IN
         /\ u.at = "reapable" /\ u.len = IF k = 1 THEN n ELSE 0
         /\ u.status = "ok" => u.len = Cap
         /\ u.len = Cap => u.status \in {"ok", "overflow"}
         /\ u.status = "overflow" => e[k] = num_urbs
         /\ u.status \in {"stall", "shutdown"} => endpoint' # "ok"
  /\ n \in 0 .. Cap
  /\ n > 0 => Len(e) > 0 /\ endpoint = "ok" /\ \A i \in Flying : e[1] =< i
  /\ sent' = sent + n
  /\ buffer' \in [1 .. L!Offset(MaxUrbs + 1) -> Nat]
  /\ \A p \in 1 .. n : buffer'[L!Offset(e[1]) + p] = sent + p
  /\ \A p \in 1 .. L!Offset(MaxUrbs + 1) :
       n = 0 \/ p =< L!Offset(e[1]) \/ p > L!Offset(e[1]) + n => buffer'[p] = buffer[p]
  /\ endpoint' \in {"ok", "disabled", "halted", "gone"}
  /\ endpoint # "ok" => endpoint' # "ok"
  /\ endpoint = "gone" => endpoint' = "gone"
  /\ UNCHANGED <<L!rigid, phase, asked, L!tpriv, transferred, results, refused>>

InOrder(e) ==
  \A k \in 1 .. Len(e) : e[k] = e[1] + k - 1 /\ \A i \in Flying : e[1] =< i

LEMMA LinuxInit == L!Init => LinuxInv
<1> SUFFICES ASSUME L!Init PROVE LinuxInv
  OBVIOUS
<1>0. \A i \in L!Ids : urb[i] = [at |-> "none", status |-> "ok", len |-> 0]
  BY DEF L!Init, L!NoUrbs
<1>1. Flying = {} /\ Reapable = {}
  BY <1>0 DEF Flying, Reapable, L!At
<1>2. LinuxTypes
  <2>1. buffer \in [1 .. L!Offset(MaxUrbs + 1) -> Nat]
    BY Offsets, BackendsAssumption DEF L!Init, L!Empty
  <2>2. urb \in [L!Ids -> Ticket]
    BY BackendsAssumption DEF L!Init, L!NoUrbs, Ticket, Ended
  <2>3. results \in [L!Ids -> 0 .. MaxUrbs] /\ num_urbs \in 0 .. MaxUrbs
    BY BackendsAssumption DEF L!Init
  <2>4. queue \in Seq(L!Ids) /\ todo \subseteq 1 .. num_urbs
    BY DEF L!Init
  <2>5. num_retired \in 0 .. num_urbs /\ iso_packet_offset \in 0 .. num_retired
    BY DEF L!Init
  <2>6. num_urbs = 0 /\ kind \in {"bulk", "iso", "control"} /\ continuation \in BOOLEAN
        /\ phase = "idle" /\ asked \in BOOLEAN /\ urbs \in BOOLEAN /\ refused \in BOOLEAN
        /\ reap_action = "NORMAL" /\ reap_status = "COMPLETED" /\ endpoint = "ok"
    BY DEF L!Init
  <2> QED BY <2>1, <2>2, <2>3, <2>4, <2>5, <2>6 DEF LinuxTypes, L!Results
<1>3. Queued /\ Tickets /\ Convex /\ AfterBad
  BY <1>0, <1>1 DEF L!Init, Queued, Tickets, Convex, AfterBad
<1>4. Submitting /\ Counted /\ Discarding /\ Orderly /\ Full /\ Stalled /\ Early /\ LinuxAsked
  BY DEF L!Init, Submitting, Counted, Discarding, Orderly, Full, Stalled, Early, LinuxAsked
<1>5. Floor /\ Moved
  BY <1>1, Offsets, BackendsAssumption DEF L!Init, Floor, Moved
<1>6. Runs([k \in {1} |-> 0])
  BY DEF L!Init, Runs
<1>7. Brought
  BY <1>6 DEF Brought
<1>8. L!FreedWhenReaped /\ L!ErrorReported /\ L!IsoInPlace
  BY DEF L!Init, L!FreedWhenReaped, L!AllReaped, L!Results, L!ErrorReported, L!IsoInPlace
<1> QED BY <1>2, <1>3, <1>4, <1>5, <1>7, <1>8 DEF LinuxInv
-----------------------------------------------------------------------------
LEMMA Greatest ==
  ASSUME NEW b \in Nat, NEW S \in SUBSET (1 .. b), S # {}
  PROVE  Max(S) \in S /\ \A x \in S : x =< Max(S)
<1> DEFINE D0 == {b - x : x \in S}
<1>0. \A x \in S : x \in Nat /\ b - x \in Nat /\ b - x \in D0
  OBVIOUS
<1>1. D0 \in SUBSET Nat /\ D0 # {}
  <2>1. PICK x : x \in S
    OBVIOUS
  <2> QED BY <1>0, <2>1
<1>5. D0 \in SUBSET Nat /\ D0 # {} /\ \A y \in D0 : \E x \in S : y = b - x
  BY <1>1
<1> HIDE DEF D0
<1>2. Min(D0) \in D0 /\ \A y \in D0 : Min(D0) =< y
  BY <1>1, Least
<1>3. PICK m \in S : Min(D0) = b - m
  BY <1>2, <1>5
<1>4. \A x \in S : x =< m
  BY <1>0, <1>2, <1>3
<1> QED BY <1>4 DEF Max

(* The order in which the kernel finishes URBs that follow each other.     *)
LEMMA Ascents ==
  ASSUME NEW S \in SUBSET L!Ids, \A i, j \in S : \A k \in i .. j : k \in S
  PROVE  LET e == L!Ascending(S) IN
           /\ e \in Seq(L!Ids) /\ (S = {} => e = <<>>)
           /\ \A k \in 1 .. Len(e) : e[k] \in S /\ e[k] = e[1] + k - 1
           /\ \A k \in 1 .. Len(e) : \A i \in S : e[1] =< i
           /\ \A i \in S : \E k \in 1 .. Len(e) : e[k] = i
<1>1. CASE S = {}
  BY <1>1 DEF L!Ascending
<1>2. CASE S # {}
  <2> DEFINE lo == Min(S)
             hi == Max(S)
             e == [k \in 1 .. hi - lo + 1 |-> lo + k - 1]
  <2>1. S \in SUBSET Nat /\ S \in SUBSET (1 .. MaxUrbs) /\ MaxUrbs \in Nat
    BY BackendsAssumption DEF L!Ids
  <2>2. lo \in S /\ hi \in S /\ \A i \in S : lo =< i /\ i =< hi
    BY <1>2, <2>1, Least, Greatest
  <2>3. L!Ascending(S) = e
    <3>1. L!Min(S) = lo /\ L!Max(S) = hi
      BY Same
    <3> HIDE DEF lo, hi
    <3> QED BY <1>2, <3>1 DEF L!Ascending
  <2> HIDE DEF lo, hi
  <2>4. hi - lo + 1 \in Nat /\ \A k \in 1 .. hi - lo + 1 : lo + k - 1 \in lo .. hi
    BY <2>1, <2>2
  <2>5. \A k \in 1 .. hi - lo + 1 : lo + k - 1 \in S
    BY <2>2, <2>4
  <2>6. e \in Seq(L!Ids) /\ Len(e) = hi - lo + 1
    BY <2>4, <2>5
  <2>7. \A i \in S : i - lo + 1 \in 1 .. hi - lo + 1 /\ e[i - lo + 1] = i
    BY <2>1, <2>2
  <2>8. \A k \in 1 .. Len(e) : e[1] = lo /\ e[k] = lo + k - 1
    BY <2>1, <2>2, <2>6
  <2>9. \A k \in 1 .. Len(e) : e[k] \in S /\ e[k] = e[1] + k - 1
    BY <2>1, <2>2, <2>5, <2>6, <2>8
  <2>10. \A i \in S : \E k \in 1 .. Len(e) : e[k] = i
    BY <2>6, <2>7
  <2> HIDE DEF e
  <2> QED BY <1>2, <2>2, <2>3, <2>6, <2>8, <2>9, <2>10
<1> QED BY <1>1, <1>2

LEMMA FlyingFacts ==
  ASSUME LinuxTypes
  PROVE  /\ Flying \subseteq L!Ids /\ Reapable \subseteq L!Ids /\ L!Ids \subseteq Nat \ {0}
         /\ \A i \in Flying : urb[i].at = "flying"
         /\ \A i \in Reapable : urb[i].at = "reapable"
         /\ L!At("flying") = Flying /\ L!At("reapable") = Reapable
         /\ Flying # {} => L!Min(Flying) \in Flying /\ \A i \in Flying : L!Min(Flying) =< i
<1>1. Flying \in SUBSET Nat
  BY BackendsAssumption DEF Flying, L!At, L!Ids
<1> QED BY <1>1, Least, Same, BackendsAssumption DEF Flying, Reapable, L!At, L!Ids

LEMMA EndFinished ==
  ASSUME LinuxInv, NEW i \in Flying, NEW status \in Ended \ {"shutdown"}, NEW len \in 0 .. Cap,
         NEW rest \in {{}, Flying \ {i}}, L!End(i, status, len, rest, "cancelled"),
         status = "ok" => len = Cap, len = Cap => status \in {"ok", "overflow"},
         status = "overflow" => i = num_urbs,
         len > 0 => endpoint = "ok" /\ \A j \in Flying : i =< j,
         rest # {} => \A j \in Flying : i =< j,
         endpoint' \in {"ok", "disabled", "halted", "gone"},
         endpoint # "ok" => endpoint' # "ok", endpoint = "gone" => endpoint' = "gone",
         status = "stall" => endpoint' # "ok",
         UNCHANGED <<L!rigid, phase, asked, L!tpriv, transferred, results, refused>>
  PROVE  LET e == <<i>> \o L!Ascending(rest) IN
           /\ Finished(e, len) /\ (rest = {} => e = <<i>>)
           /\ (\A j \in Flying : i =< j) => InOrder(e)
<1> DEFINE a == L!Ascending(rest)
           e == <<i>> \o a
<1>0. LinuxTypes /\ Convex /\ Floor
  BY DEF LinuxInv
<1>1. i \in L!Ids /\ i \in Nat \ {0} /\ rest \subseteq L!Ids
  BY <1>0, FlyingFacts
<1>2. \A j, k \in rest : \A l \in j .. k : l \in rest
  BY <1>0, <1>1, FlyingFacts DEF Convex
<1>3. /\ a \in Seq(L!Ids) /\ (rest = {} => a = <<>>)
      /\ \A k \in 1 .. Len(a) : a[k] \in rest /\ a[k] = a[1] + k - 1
      /\ \A k \in 1 .. Len(a) : \A j \in rest : a[1] =< j
      /\ \A j \in rest : \E k \in 1 .. Len(a) : a[k] = j
  BY <1>1, <1>2, Ascents
<1> HIDE DEF a
<1>4. /\ e \in Seq(L!Ids) /\ Len(a) \in Nat /\ Len(e) = Len(a) + 1 /\ e[1] = i
      /\ \A k \in 1 .. Len(a) : k + 1 \in 1 .. Len(e) /\ e[k + 1] = a[k]
      /\ \A k \in 2 .. Len(e) : k - 1 \in 1 .. Len(a) /\ e[k] = a[k - 1]
  BY <1>1, <1>3
<1>5. queue' = queue \o e
  <2>1. queue \in Seq(L!Ids) /\ <<i>> \in Seq(L!Ids)
    BY <1>0, <1>1 DEF LinuxTypes
  <2>2. queue' = (queue \o <<i>>) \o a
    BY DEF L!End, a
  <2>3. a \in Seq(L!Ids)
    BY <1>3
  <2>4. (queue \o <<i>>) \o a = queue \o (<<i>> \o a)
    BY <2>1, <2>3, ConcatAssociative
  <2> QED BY <2>2, <2>4
<1>6. /\ \A k \in 1 .. Len(e) : e[k] \in Flying
      /\ \A k \in 2 .. Len(e) : e[k] \in rest
  BY <1>3, <1>4
<1>7. \A k, l \in 1 .. Len(e) : k # l => e[k] # e[l]
  <2>1. \A k, l \in 1 .. Len(a) : k # l => a[k] # a[l]
    <3> SUFFICES ASSUME Len(a) > 0
                 PROVE  \A k, l \in 1 .. Len(a) : k # l => a[k] # a[l]
      BY <1>4
    <3>1. a[1] \in Nat
      <4>1. 1 \in 1 .. Len(a)
        BY <1>4
      <4>2. a[1] \in rest
        BY <1>3, <4>1
      <4> QED BY <1>0, <1>1, <4>2, FlyingFacts
    <3> QED BY <1>3, <3>1
  <2>2. \A k \in 1 .. Len(a) : a[k] # i
    BY <1>3
  <2> QED BY <1>4, <2>1, <2>2
<1>8. ASSUME NEW j \in rest PROVE \E k \in 1 .. Len(e) : e[k] = j
  <2>1. PICK k \in 1 .. Len(a) : a[k] = j
    BY <1>3
  <2>2. k + 1 \in 1 .. Len(e) /\ e[k + 1] = j
    BY <1>4, <2>1
  <2> HIDE DEF e
  <2> QED BY <2>2
<1>9. /\ urb' \in [L!Ids -> Ticket]
      /\ \A j \in L!Ids : (\A k \in 1 .. Len(e) : e[k] # j) => urb'[j] = urb[j]
      /\ urb'[i] = [at |-> "reapable", status |-> status, len |-> len]
      /\ \A j \in rest : urb'[j] = [at |-> "reapable", status |-> "cancelled", len |-> 0]
  <2>1. \A j \in L!Ids : urb'[j] =
          CASE j = i -> [at |-> "reapable", status |-> status, len |-> len]
            [] j \in rest -> [at |-> "reapable", status |-> "cancelled", len |-> 0]
            [] OTHER -> urb[j]
    BY DEF L!End
  <2>2. \A j \in L!Ids : j # i /\ j \notin rest => urb'[j] = urb[j]
    BY <2>1
  <2>3. urb'[i] = [at |-> "reapable", status |-> status, len |-> len]
    BY <1>1, <2>1
  <2>4. \A j \in rest : urb'[j] = [at |-> "reapable", status |-> "cancelled", len |-> 0]
    BY <1>1, <2>1
  <2>5. \A j \in L!Ids : urb'[j] \in Ticket
    <3>1. \A j \in L!Ids : urb[j] \in Ticket
      BY <1>0 DEF LinuxTypes
    <3>2. [at |-> "reapable", status |-> status, len |-> len] \in Ticket
      BY DEF Ticket
    <3>3. [at |-> "reapable", status |-> "cancelled", len |-> 0] \in Ticket
      BY BackendsAssumption DEF Ticket, Ended
    <3> QED BY <2>2, <2>3, <2>4, <3>1, <3>2, <3>3
  <2>6. urb' \in [L!Ids -> Ticket]
    <3>1. urb' = [j \in L!Ids |-> urb'[j]]
      BY DEF L!End
    <3> QED BY <2>5, <3>1
  <2>7. 1 \in 1 .. Len(e)
    BY <1>4
  <2>8. \A j \in L!Ids : (\A k \in 1 .. Len(e) : e[k] # j) => j # i /\ j \notin rest
    BY <1>4, <1>8, <2>7
  <2> QED BY <2>2, <2>3, <2>4, <2>6, <2>8
<1>10. \A k \in 1 .. Len(e) :
         LET u == urb'[e[k]] IN
           /\ u.at = "reapable" /\ u.len = IF k = 1 THEN len ELSE 0
           /\ u.status = "ok" => u.len = Cap
           /\ u.len = Cap => u.status \in {"ok", "overflow"}
           /\ u.status = "overflow" => e[k] = num_urbs
           /\ u.status \in {"stall", "shutdown"} => endpoint' # "ok"
  BY <1>4, <1>6, <1>9, BackendsAssumption
<1>11. /\ buffer' \in [1 .. L!Offset(MaxUrbs + 1) -> Nat]
       /\ \A p \in 1 .. len : buffer'[L!Offset(e[1]) + p] = sent + p
       /\ \A p \in 1 .. L!Offset(MaxUrbs + 1) :
            len = 0 \/ p =< L!Offset(e[1]) \/ p > L!Offset(e[1]) + len => buffer'[p] = buffer[p]
  <2>1. L!Offset(i) \in Nat /\ L!Offset(i) + Cap =< L!Offset(MaxUrbs + 1)
        /\ L!Offset(MaxUrbs + 1) \in Nat
    <3>1. i < MaxUrbs + 1 /\ MaxUrbs + 1 \in Nat \ {0}
      BY <1>1, BackendsAssumption DEF L!Ids
    <3> QED BY <1>1, <3>1, Offsets
  <2>2. buffer' = [p \in 1 .. L!Offset(MaxUrbs + 1) |->
                     IF p \in L!Offset(i) + 1 .. L!Offset(i) + len
                     THEN sent + p - L!Offset(i) ELSE buffer[p]]
    BY <1>0 DEF L!End, LinuxTypes
  <2>3. sent \in Nat /\ \A p \in 1 .. L!Offset(MaxUrbs + 1) : buffer[p] \in Nat
    BY <1>0 DEF Floor, LinuxTypes
  <2>4. \A p \in 1 .. len : /\ L!Offset(i) + p \in 1 .. L!Offset(MaxUrbs + 1)
                             /\ L!Offset(i) + p \in L!Offset(i) + 1 .. L!Offset(i) + len
                             /\ sent + (L!Offset(i) + p) - L!Offset(i) = sent + p
    BY <2>1, <2>3, BackendsAssumption
  <2>5. \A p \in 1 .. len : buffer'[L!Offset(i) + p] = sent + p
    BY <2>2, <2>4
  <2>6. \A p \in 1 .. L!Offset(MaxUrbs + 1) : p \in L!Offset(i) + 1 .. L!Offset(i) + len
          => sent + p - L!Offset(i) \in Nat
    BY <2>1, <2>3
  <2>7. buffer' \in [1 .. L!Offset(MaxUrbs + 1) -> Nat]
    BY <2>2, <2>3, <2>6
  <2>8. \A p \in 1 .. L!Offset(MaxUrbs + 1) :
          len = 0 \/ p =< L!Offset(i) \/ p > L!Offset(i) + len => buffer'[p] = buffer[p]
    BY <2>1, <2>2
  <2> HIDE DEF e
  <2> QED BY <1>4, <2>5, <2>7, <2>8
<1>12. (\A j \in Flying : i =< j) => InOrder(e)
  <2> SUFFICES ASSUME \A j \in Flying : i =< j PROVE InOrder(e)
    OBVIOUS
  <2>1. \A k \in 1 .. Len(a) : a[1] = i + 1
    <3> SUFFICES ASSUME Len(a) > 0 PROVE a[1] = i + 1
      BY <1>4
    <3>1. a[1] \in rest /\ a[1] \in Flying /\ a[1] # i /\ a[1] \in Nat
      BY <1>0, <1>3, <1>4, FlyingFacts
    <3>2. i < a[1] /\ i + 1 \in i .. a[1]
      BY <1>1, <3>1
    <3>3. i + 1 \in rest
      BY <1>0, <1>1, <3>1, <3>2 DEF Convex
    <3>4. a[1] =< i + 1
      BY <1>3, <1>4, <3>3
    <3> QED BY <1>1, <3>1, <3>2, <3>4
  <2>3. \A k \in 1 .. Len(a) : a[k] = i + k
    BY <1>1, <1>3, <2>1
  <2>2. \A k \in 2 .. Len(e) : e[k] = i + k - 1
    BY <1>1, <1>4, <2>3
  <2> HIDE DEF e
  <2>4. \A k \in 1 .. Len(e) : k = 1 \/ k \in 2 .. Len(e)
    BY <1>4
  <2>5. i = i + 1 - 1
    BY <1>1
  <2> QED BY <1>4, <2>2, <2>4, <2>5 DEF InOrder
<1>13. rest = {} => e = <<i>>
  BY <1>3
<1>14. sent' = sent + len
  BY DEF L!End
<1>15. len > 0 => Len(e) > 0 /\ endpoint = "ok" /\ \A j \in Flying : e[1] =< j
  BY <1>4
<1> HIDE DEF e
<1>16. Finished(e, len)
  BY <1>4, <1>5, <1>6, <1>7, <1>9, <1>10, <1>11, <1>14, <1>15 DEF Finished
<1> QED BY <1>12, <1>13, <1>16 DEF e, a

(* Each step of the kernel and the device finishes URBs.                   *)
LEMMA DeviceFinishes ==
  ASSUME LinuxInv, L!Device
  PROVE  \E e, n : Finished(e, n) /\ InOrder(e) /\ UNCHANGED todo
<1>0. LinuxTypes /\ Convex /\ Tickets
  BY DEF LinuxInv
<1> DEFINE i == L!Min(Flying)
           Done == \E e, n : Finished(e, n) /\ InOrder(e) /\ UNCHANGED todo
<1>1. ASSUME NEW status \in {"ok", "short", "stall", "error"}, NEW len \in 0 .. Cap,
             L!Answer(status, len)
      PROVE  Done
  <2> DEFINE stop == kind = "bulk" /\ continuation /\ status # "ok"
             rest == IF stop THEN Flying \ {i} ELSE {}
  <2>1. /\ Flying # {} /\ i \in Flying /\ \A j \in Flying : i =< j
        /\ L!End(i, status, len, rest, "cancelled")
        /\ endpoint \in {"ok", "halted"} /\ (endpoint = "halted" => status = "stall" /\ len = 0)
        /\ (status = "ok" <=> len = Cap)
        /\ endpoint' = IF stop THEN "disabled" ELSE IF status = "stall" THEN "halted" ELSE "ok"
        /\ UNCHANGED <<L!rigid, phase, asked, L!tpriv, transferred, results, todo, refused>>
    BY <1>0, <1>1, FlyingFacts DEF L!Answer
  <2> HIDE DEF i
  <2>2. rest \in {{}, Flying \ {i}} /\ status \in Ended \ {"shutdown"}
    BY DEF Ended
  <2>3. len > 0 => endpoint = "ok"
    BY <2>1
  <2> DEFINE e == <<i>> \o L!Ascending(rest)
  <2>4. Finished(e, len) /\ InOrder(e)
    <3> HIDE DEF rest
    <3> QED BY <2>1, <2>2, <2>3, EndFinished
  <2> HIDE DEF e
  <2> QED BY <2>1, <2>4
<1>2. CASE L!Overflow
  <2>1. Flying = {num_urbs}
    BY <1>0, <1>2, FlyingFacts DEF L!Overflow
  <2>2. /\ num_urbs \in Flying /\ num_urbs \in Nat /\ \A j \in Flying : num_urbs =< j
        /\ Cap \in 0 .. Cap /\ Cap # 0 /\ "overflow" \in Ended \ {"shutdown"}
    BY <1>0, <2>1, BackendsAssumption DEF LinuxTypes, Ended
  <2>3. /\ L!End(num_urbs, "overflow", Cap, {}, "cancelled")
        /\ endpoint = "ok" /\ endpoint' \in {"ok", "disabled", "halted", "gone"}
        /\ UNCHANGED <<L!rigid, phase, asked, L!tpriv, transferred, results, todo, refused>>
    BY <1>2 DEF L!Overflow
  <2> DEFINE e == <<num_urbs>> \o L!Ascending({})
  <2>4. Finished(e, Cap) /\ InOrder(e)
    BY <2>2, <2>3, EndFinished
  <2> HIDE DEF e
  <2> QED BY <2>3, <2>4
<1>3. CASE L!Unplug
  <2> DEFINE e == L!Ascending(Flying)
  <2>1. \A j, k \in Flying : \A l \in j .. k : l \in Flying
    BY <1>0 DEF Convex
  <2>2. /\ e \in Seq(L!Ids) /\ (Flying = {} => e = <<>>)
        /\ \A k \in 1 .. Len(e) : e[k] \in Flying /\ e[k] = e[1] + k - 1
        /\ \A k \in 1 .. Len(e) : \A j \in Flying : e[1] =< j
        /\ \A j \in Flying : \E k \in 1 .. Len(e) : e[k] = j
    BY <1>0, <2>1, Ascents, FlyingFacts
  <2>3. /\ endpoint' = "gone" /\ queue' = queue \o e
        /\ UNCHANGED <<L!rigid, phase, asked, L!tpriv, transferred, results, todo, sent, buffer, refused>>
    BY <1>0, <1>3, FlyingFacts DEF L!Unplug
  <2> HIDE DEF e
  <2>4. \A j \in L!Ids : urb'[j] = IF j \in Flying
                                 THEN [at |-> "reapable", status |-> "shutdown", len |-> 0]
                                 ELSE urb[j]
    BY <1>0, <1>3, FlyingFacts DEF L!Unplug, Flying, L!At
  <2>5. urb' \in [L!Ids -> Ticket]
    <3>1. \A j \in L!Ids : urb'[j] \in Ticket
      <4>1. [at |-> "reapable", status |-> "shutdown", len |-> 0] \in Ticket
        BY BackendsAssumption DEF Ticket, Ended
      <4>2. \A j \in L!Ids : urb[j] \in Ticket
        BY <1>0 DEF LinuxTypes
      <4> QED BY <2>4, <4>1, <4>2
    <3>2. urb' = [j \in L!Ids |-> urb'[j]]
      BY <1>3 DEF L!Unplug
    <3> QED BY <3>1, <3>2
  <2>6. \A k \in 1 .. Len(e) : /\ e[k] \in L!Ids
                               /\ urb'[e[k]] = [at |-> "reapable", status |-> "shutdown", len |-> 0]
    BY <1>0, <2>2, <2>4, FlyingFacts
  <2>7. \A k, l \in 1 .. Len(e) : k # l => e[k] # e[l]
    <3> SUFFICES ASSUME Len(e) > 0 PROVE \A k, l \in 1 .. Len(e) : k # l => e[k] # e[l]
      BY <2>2
    <3>1. 1 \in 1 .. Len(e) /\ Len(e) \in Nat
      BY <2>2
    <3>2. e[1] \in Nat
      BY <1>0, <2>2, <3>1, FlyingFacts
    <3> QED BY <2>2, <3>2
  <2>8. 0 \in 0 .. Cap /\ sent' = sent + 0 /\ Cap # 0
    BY <1>0, <2>3, BackendsAssumption DEF LinuxInv, Floor
  <2>9. Finished(e, 0)
    <3>1. /\ buffer' \in [1 .. L!Offset(MaxUrbs + 1) -> Nat]
          /\ \A p \in 1 .. 0 : buffer'[L!Offset(e[1]) + p] = sent + p
          /\ \A p \in 1 .. L!Offset(MaxUrbs + 1) : buffer'[p] = buffer[p]
      BY <1>0, <2>3 DEF LinuxTypes
    <3>2. \A m \in L!Ids : (\A k \in 1 .. Len(e) : e[k] # m) => urb'[m] = urb[m]
      BY <2>2, <2>4
    <3>3. \A k \in 1 .. Len(e) :
            LET u == urb'[e[k]] IN
              /\ u.at = "reapable" /\ u.len = IF k = 1 THEN 0 ELSE 0
              /\ u.status = "ok" => u.len = Cap
              /\ u.len = Cap => u.status \in {"ok", "overflow"}
              /\ u.status = "overflow" => e[k] = num_urbs
              /\ u.status \in {"stall", "shutdown"} => endpoint' # "ok"
      BY <2>3, <2>6, <2>8
    <3> QED BY <2>2, <2>3, <2>5, <2>7, <2>8, <3>1, <3>2, <3>3 DEF Finished
  <2> QED BY <2>2, <2>3, <2>9 DEF InOrder
<1> QED BY <1>1, <1>2, <1>3 DEF L!Device

LEMMA DiscardFinishes ==
  ASSUME LinuxInv, L!Discard
  PROVE  \E i \in todo :
           /\ phase = "flying" /\ todo' = todo \ {i} /\ \A j \in todo : j =< i
           /\ \E e, n : Finished(e, n) /\ e = IF i \in Flying THEN <<i>> ELSE <<>>
<1>0. LinuxTypes /\ Convex /\ Floor /\ Queued
  BY DEF LinuxInv
<1> DEFINE i == L!Max(todo)
<1>1. i \in todo /\ \A j \in todo : j =< i
  <2>1. num_urbs \in Nat /\ todo \in SUBSET (1 .. num_urbs) /\ todo # {}
    BY <1>0, BackendsAssumption DEF LinuxTypes, L!Discard
  <2>2. L!Max(todo) = Max(todo)
    BY Same
  <2> QED BY <2>1, <2>2, Greatest
<1>2. /\ phase = "flying" /\ todo' = todo \ {i}
      /\ UNCHANGED <<L!rigid, phase, asked, L!tpriv, transferred, results, endpoint, refused>>
  BY DEF L!Discard
<1>3. i \in L!Ids
  <2>1. todo \subseteq 1 .. num_urbs /\ num_urbs \in 0 .. MaxUrbs
    BY <1>0 DEF LinuxTypes
  <2> HIDE DEF i
  <2> QED BY <1>1, <2>1, BackendsAssumption DEF L!Ids
<1>4. CASE i \in Flying
  <2>1. PICK len \in IF i = L!Min(L!At("flying")) /\ endpoint = "ok" /\ kind # "iso"
                     THEN 0 .. Cap - 1 ELSE {0} :
          L!End(i, "cancelled", len, {}, "cancelled")
    BY <1>0, <1>4, FlyingFacts DEF L!Discard
  <2> HIDE DEF i
  <2>2. len \in 0 .. Cap /\ len # Cap /\ "cancelled" \in Ended \ {"shutdown"}
    BY <2>1, BackendsAssumption DEF Ended
  <2>3. len > 0 => endpoint = "ok" /\ \A j \in Flying : i =< j
    BY <1>0, <1>4, <2>1, FlyingFacts
  <2>4. endpoint' \in {"ok", "disabled", "halted", "gone"} /\ endpoint' = endpoint
    BY <1>0, <1>2 DEF LinuxTypes
  <2> DEFINE e == <<i>> \o L!Ascending({})
  <2>5. Finished(e, len) /\ e = <<i>>
    BY <1>2, <1>4, <2>1, <2>2, <2>3, <2>4, EndFinished
  <2> HIDE DEF e
  <2> QED BY <1>1, <1>2, <1>4, <2>5
<1>5. CASE i \notin Flying
  <2>1. UNCHANGED <<urb, queue, sent, buffer>>
    BY <1>0, <1>3, <1>5 DEF L!Discard, Flying, L!At
  <2> HIDE DEF i
  <2>2. queue' = queue \o <<>> /\ <<>> \in Seq(L!Ids)
    BY <1>0, <2>1 DEF LinuxTypes
  <2>3. sent' = sent + 0 /\ 0 \in 0 .. Cap
    BY <1>0, <2>1, BackendsAssumption DEF Floor
  <2>4. Finished(<<>>, 0)
    BY <1>0, <1>2, <2>1, <2>2, <2>3 DEF Finished, LinuxTypes
  <2> QED BY <1>1, <1>2, <1>5, <2>4
<1> QED BY <1>4, <1>5
-----------------------------------------------------------------------------
(* What holds while URBs are finished.                                     *)
LEMMA FinishedQueue ==
  ASSUME LinuxTypes, NEW e, NEW n, Finished(e, n)
  PROVE  /\ queue' \in Seq(L!Ids) /\ Len(queue) \in Nat /\ Len(e) \in Nat
         /\ Len(queue') = Len(queue) + Len(e)
         /\ \A k \in 1 .. Len(queue) : k \in 1 .. Len(queue') /\ queue'[k] = queue[k]
         /\ \A k \in 1 .. Len(e) : Len(queue) + k \in 1 .. Len(queue') /\ queue'[Len(queue) + k] = e[k]
         /\ \A k \in 1 .. Len(queue') :
              \/ k \in 1 .. Len(queue)
              \/ \E l \in 1 .. Len(e) : k = Len(queue) + l
<1>1. queue \in Seq(L!Ids) /\ e \in Seq(L!Ids) /\ queue' = queue \o e
  BY DEF LinuxTypes, Finished
<1>2. /\ queue' \in Seq(L!Ids) /\ Len(queue) \in Nat /\ Len(e) \in Nat
      /\ Len(queue') = Len(queue) + Len(e)
      /\ \A k \in 1 .. Len(queue) : queue'[k] = queue[k]
      /\ \A k \in 1 .. Len(e) : queue'[Len(queue) + k] = e[k]
  BY <1>1, SeqJoin
<1>3. ASSUME NEW k \in 1 .. Len(queue'), k \notin 1 .. Len(queue)
      PROVE  \E l \in 1 .. Len(e) : k = Len(queue) + l
  <2>1. k - Len(queue) \in 1 .. Len(e) /\ k = Len(queue) + (k - Len(queue))
    BY <1>2, <1>3
  <2> QED BY <2>1
<1>4. /\ \A k \in 1 .. Len(queue) : k \in 1 .. Len(queue')
      /\ \A k \in 1 .. Len(e) : Len(queue) + k \in 1 .. Len(queue')
  BY <1>2
<1> QED BY <1>2, <1>3, <1>4

LEMMA FinishedSets ==
  ASSUME LinuxTypes, Queued, NEW e, NEW n, Finished(e, n)
  PROVE  /\ \A i : i \in Flying' <=> i \in Flying /\ \A k \in 1 .. Len(e) : e[k] # i
         /\ \A i : i \in Reapable' <=> i \in Reapable \/ \E k \in 1 .. Len(e) : e[k] = i
         /\ \A k \in 1 .. Len(e) : e[k] \in Flying /\ e[k] \in Reapable' /\ e[k] \notin Reapable
         /\ Flying' \cup Reapable' = Flying \cup Reapable
         /\ \A i \in L!Ids : urb[i].at # "flying" => urb'[i] = urb[i]
         /\ \A k \in 1 .. Len(queue) : urb'[queue[k]] = urb[queue[k]]
<1>2. \A k \in 1 .. Len(e) : e[k] \in L!Ids /\ urb[e[k]].at = "flying" /\ urb'[e[k]].at = "reapable"
  BY DEF Finished, Flying, L!At
<1>3. \A i \in L!Ids : (\A k \in 1 .. Len(e) : e[k] # i) => urb'[i] = urb[i]
  BY DEF Finished
<1>4. \A i : i \in Flying' <=> i \in Flying /\ \A k \in 1 .. Len(e) : e[k] # i
  BY <1>2, <1>3 DEF Flying, L!At
<1>5. \A i : i \in Reapable' <=> i \in Reapable \/ \E k \in 1 .. Len(e) : e[k] = i
  BY <1>2, <1>3 DEF Reapable, L!At
<1>6. \A k \in 1 .. Len(e) : e[k] \in Flying /\ e[k] \in Reapable' /\ e[k] \notin Reapable
  BY <1>2 DEF Flying, Reapable, L!At
<1>7. Flying' \cup Reapable' = Flying \cup Reapable
  BY <1>4, <1>5, <1>6
<1>8. \A i \in L!Ids : urb[i].at # "flying" => urb'[i] = urb[i]
  BY <1>2, <1>3
<1>9. \A k \in 1 .. Len(queue) : urb'[queue[k]] = urb[queue[k]]
  BY <1>8 DEF Queued, Reapable, L!At
<1> QED BY <1>4, <1>5, <1>6, <1>7, <1>8, <1>9

LEMMA FinishedTypes ==
  ASSUME LinuxInv, NEW e, NEW n, Finished(e, n), todo' \subseteq todo
  PROVE  LinuxTypes' /\ Queued' /\ Tickets' /\ Counted'
<1>0. LinuxTypes /\ Queued /\ Tickets /\ Counted
  BY DEF LinuxInv
<1>1. LinuxTypes'
  BY <1>0, FinishedQueue DEF LinuxTypes, Finished, L!rigid, L!tpriv
<1>2. Queued'
  <2>0. /\ Len(queue) \in Nat /\ Len(e) \in Nat
        /\ \A k \in 1 .. Len(queue) : k \in 1 .. Len(queue') /\ queue'[k] = queue[k]
        /\ \A k \in 1 .. Len(e) : Len(queue) + k \in 1 .. Len(queue') /\ queue'[Len(queue) + k] = e[k]
        /\ \A k \in 1 .. Len(queue') : \/ k \in 1 .. Len(queue)
                                      \/ \E l \in 1 .. Len(e) : k = Len(queue) + l
    BY <1>0, FinishedQueue
  <2>1. ASSUME NEW i \in Reapable' PROVE \E k \in 1 .. Len(queue') : queue'[k] = i
    <3>1. CASE i \in Reapable
      <4>1. PICK k \in 1 .. Len(queue) : queue[k] = i
        BY <1>0, <3>1 DEF Queued
      <4> QED BY <2>0, <4>1
    <3>2. CASE \E k \in 1 .. Len(e) : e[k] = i
      BY <2>0, <3>2
    <3> QED BY <1>0, <3>1, <3>2, FinishedSets
  <2>2. ASSUME NEW k \in 1 .. Len(queue') PROVE queue'[k] \in Reapable'
    <3>1. CASE k \in 1 .. Len(queue)
      <4>1. queue[k] \in Reapable
        BY <1>0, <3>1 DEF Queued
      <4> QED BY <1>0, <2>0, <3>1, <4>1, FinishedSets
    <3>2. CASE \E l \in 1 .. Len(e) : k = Len(queue) + l
      <4>1. PICK l \in 1 .. Len(e) : k = Len(queue) + l
        BY <3>2
      <4>2. e[l] \in Reapable'
        BY <1>0, FinishedSets
      <4> QED BY <2>0, <4>1, <4>2
    <3> QED BY <2>0, <3>1, <3>2
  <2>3. \A k \in 1 .. Len(queue), l \in 1 .. Len(e) : queue[k] # e[l]
    BY <1>0 DEF Queued, Reapable, Finished, Flying, L!At
  <2>4. ASSUME NEW k \in 1 .. Len(queue'), NEW l \in 1 .. Len(queue'), k # l
        PROVE  queue'[k] # queue'[l]
    <3>1. CASE k \in 1 .. Len(queue) /\ l \in 1 .. Len(queue)
      BY <1>0, <2>0, <2>4, <3>1 DEF Queued
    <3>2. ASSUME k \in 1 .. Len(queue), NEW p \in 1 .. Len(e), l = Len(queue) + p
          PROVE  queue'[k] # queue'[l]
      BY <2>0, <2>3, <3>2
    <3>3. ASSUME l \in 1 .. Len(queue), NEW p \in 1 .. Len(e), k = Len(queue) + p
          PROVE  queue'[k] # queue'[l]
      BY <2>0, <2>3, <3>3
    <3>4. ASSUME NEW p \in 1 .. Len(e), NEW q \in 1 .. Len(e),
                 k = Len(queue) + p, l = Len(queue) + q
          PROVE  queue'[k] # queue'[l]
      <4>1. p # q /\ e[p] # e[q]
        BY <2>4, <3>4 DEF Finished
      <4> QED BY <2>0, <3>4, <4>1
    <3> QED BY <2>0, <3>1, <3>2, <3>3, <3>4
  <2> QED BY <2>1, <2>2, <2>4 DEF Queued
<1>3. Tickets'
  <2> SUFFICES ASSUME NEW i \in L!Ids
               PROVE  /\ urb'[i].at # "none" => i =< num_urbs
                      /\ urb'[i].at \in {"none", "flying"} => urb'[i].status = "ok" /\ urb'[i].len = 0
                      /\ urb'[i].at \in {"reapable", "reaped"} =>
                           /\ urb'[i].status = "ok" => urb'[i].len = Cap
                           /\ urb'[i].len = Cap => urb'[i].status \in {"ok", "overflow"}
                           /\ urb'[i].status = "overflow" => i = num_urbs
    BY DEF Tickets, Finished, L!tpriv
  <2>1. CASE \A k \in 1 .. Len(e) : e[k] # i
    <3>1. urb'[i] = urb[i]
      BY <2>1 DEF Finished
    <3> QED BY <1>0, <3>1 DEF Tickets
  <2>2. CASE \E k \in 1 .. Len(e) : e[k] = i
    <3>1. PICK k \in 1 .. Len(e) : e[k] = i
      BY <2>2
    <3>2. urb[i].at = "flying"
      BY <3>1 DEF Finished, Flying, L!At
    <3> QED BY <1>0, <3>1, <3>2 DEF Tickets, Finished
  <2> QED BY <2>1, <2>2
<1>4. Counted'
  <2>1. Flying' \cup Reapable' = Flying \cup Reapable
    BY <1>0, FinishedSets
  <2>2. UNCHANGED <<phase, num_retired, num_urbs>>
    BY DEF Finished, L!tpriv
  <2> QED BY <1>0, <2>1, <2>2 DEF Counted
<1> QED BY <1>1, <1>2, <1>3, <1>4

LEMMA FinishedSent ==
  ASSUME LinuxInv, NEW e, NEW n, Finished(e, n), todo' \subseteq todo
  PROVE  Floor' /\ Moved'
<1>0. LinuxTypes /\ Queued /\ Tickets /\ Floor /\ Moved /\ Submitting
  BY DEF LinuxInv
<1>1. UNCHANGED <<phase, transferred, num_urbs, kind>>
  BY DEF Finished, L!tpriv, L!rigid
<1>4. /\ transferred \in Nat /\ L!Offset(MaxUrbs + 1) \in Nat
      /\ transferred =< L!Offset(MaxUrbs + 1)
  <2>1. num_urbs + 1 \in Nat \ {0} /\ MaxUrbs + 1 \in Nat \ {0} /\ Cap \in Nat
        /\ (num_urbs + 1 = MaxUrbs + 1 \/ num_urbs + 1 < MaxUrbs + 1)
    BY <1>0, BackendsAssumption DEF LinuxTypes
  <2>2. /\ L!Offset(num_urbs + 1) \in Nat /\ L!Offset(MaxUrbs + 1) \in Nat
        /\ L!Offset(num_urbs + 1) =< L!Offset(MaxUrbs + 1)
    <3>1. L!Offset(num_urbs + 1) \in Nat /\ L!Offset(MaxUrbs + 1) \in Nat
      BY <2>1, Offsets
    <3>2. num_urbs + 1 < MaxUrbs + 1 => L!Offset(num_urbs + 1) + Cap =< L!Offset(MaxUrbs + 1)
      BY <2>1, Offsets
    <3> QED BY <2>1, <3>1, <3>2
  <2> QED BY <1>0, <2>2 DEF Floor
<1>2. CASE n = 0
  <2>1. sent' = sent /\ \A p \in 1 .. L!Offset(MaxUrbs + 1) : buffer'[p] = buffer[p]
    BY <1>0, <1>2 DEF Finished, Floor
  <2>2. Floor'
    BY <1>0, <1>1, <2>1, FinishedSets DEF Floor
  <2>3. transferred \in Nat /\ transferred =< L!Offset(MaxUrbs + 1)
    BY <1>4
  <2>4. Moved'
    BY <1>0, <1>1, <1>4, <2>1 DEF Moved
  <2> QED BY <2>2, <2>4
<1>3. CASE n > 0
  <2>1. /\ Len(e) > 0 /\ 1 \in 1 .. Len(e) /\ e[1] \in Flying /\ \A i \in Flying : e[1] =< i
        /\ n \in Nat /\ n =< Cap /\ sent' = sent + n
    BY <1>0, <1>3, BackendsAssumption, FinishedQueue DEF Finished
  <2>2. /\ e[1] \in L!Ids /\ e[1] \in Nat \ {0} /\ e[1] =< num_urbs /\ num_urbs \in Nat
        /\ sent =< L!Offset(e[1])
    <3> DEFINE i == e[1]
    <3>1. i \in Flying
      BY <2>1
    <3> HIDE DEF i
    <3>2. i \in L!Ids /\ i \in Nat \ {0} /\ urb[i].at = "flying"
      BY <1>0, <3>1, FlyingFacts
    <3>3. i =< num_urbs /\ sent =< L!Offset(i) /\ num_urbs \in Nat
      BY <1>0, <3>1, <3>2 DEF Tickets, Floor, LinuxTypes
    <3> QED BY <3>2, <3>3 DEF i
  <2>3. sent' =< L!Offset(e[1]) + Cap /\ sent' \in Nat /\ L!Offset(e[1]) \in Nat
    <3>1. L!Offset(e[1]) \in Nat /\ sent \in Nat /\ Cap \in Nat
      BY <1>0, <2>2, Offsets, BackendsAssumption DEF Floor
    <3> QED BY <2>1, <2>2, <3>1
  <2>4. ASSUME NEW i \in Nat \ {0}, e[1] < i PROVE sent' =< L!Offset(i)
    <3>1. L!Offset(e[1]) + Cap =< L!Offset(i) /\ L!Offset(i) \in Nat /\ Cap \in Nat
      BY <2>2, <2>4, Offsets, BackendsAssumption
    <3> QED BY <2>3, <3>1
  <2>5. ASSUME NEW i \in Flying' PROVE sent' =< L!Offset(i)
    <3>1. i \in Flying /\ i # e[1]
      BY <1>0, <2>1, <2>5, FinishedSets
    <3>2. i \in Nat \ {0} /\ e[1] < i
      BY <1>0, <2>1, <2>2, <3>1, FlyingFacts
    <3> QED BY <2>4, <3>2
  <2>6. ASSUME phase = "submitting", NEW i \in todo' PROVE sent' =< L!Offset(i)
    <3>1. PICK to \in 0 .. num_urbs - 1 : todo = to + 1 .. num_urbs /\ InLine(0, to)
      BY <1>0, <2>6 DEF Submitting
    <3>2. i \in to + 1 .. num_urbs /\ e[1] =< to
      BY <1>0, <2>1, <2>2, <2>6, <3>1 DEF InLine, LinuxTypes
    <3>3. i \in Nat \ {0} /\ e[1] < i
      BY <2>2, <3>1, <3>2
    <3> QED BY <2>4, <3>3
  <2>7. sent' =< L!Offset(num_urbs + 1)
    BY <2>2, <2>4
  <2>8. Floor'
    BY <1>0, <1>1, <2>1, <2>3, <2>5, <2>6, <2>7 DEF Floor
  <2>9. ASSUME kind = "bulk", NEW p \in 1 .. transferred PROVE buffer'[p] = p
    <3>1. p =< L!Offset(e[1]) /\ p \in 1 .. L!Offset(MaxUrbs + 1)
      BY <1>0, <1>4, <2>2, <2>3 DEF Floor
    <3>2. buffer'[p] = buffer[p]
      BY <3>1 DEF Finished
    <3> QED BY <1>0, <2>9, <3>2 DEF Moved
  <2>10. Moved'
    BY <1>1, <2>9 DEF Moved
  <2> QED BY <2>8, <2>10
<1> QED BY <1>0, <1>2, <1>3, BackendsAssumption DEF Finished

(* The runs of the queue go on with what the device sends.                 *)
LEMMA FinishedBrought ==
  ASSUME LinuxInv, NEW e, NEW n, Finished(e, n), kind # "iso",
         ~(phase = "NO_DEVICE" /\ endpoint = "gone"), NEW s, Runs(s)
  PROVE  \E r : Runs(r)'
<1>0. LinuxTypes /\ Queued /\ Tickets /\ Floor
  BY DEF LinuxInv
<1> DEFINE q == Len(queue)
           m == Len(e)
<1>1. /\ q \in Nat /\ m \in Nat /\ Len(queue') = q + m
      /\ \A k \in 1 .. q : queue'[k] = queue[k]
      /\ \A k \in 1 .. m : queue'[q + k] = e[k]
      /\ \A k \in 1 .. q + m : k \in 1 .. q \/ \E l \in 1 .. m : k = q + l
  <2>1. /\ q \in Nat /\ m \in Nat /\ Len(queue') = q + m
        /\ \A k \in 1 .. q : queue'[k] = queue[k]
        /\ \A k \in 1 .. m : queue'[q + k] = e[k]
        /\ \A k \in 1 .. Len(queue') : k \in 1 .. q \/ \E l \in 1 .. m : k = q + l
    BY <1>0, FinishedQueue
  <2> QED BY <2>1
<1>2. /\ \A k \in 1 .. q : urb'[queue[k]] = urb[queue[k]] /\ queue[k] \in L!Ids
      /\ \A k \in 1 .. q, l \in 1 .. m : queue[k] # e[l]
  BY <1>0, FinishedSets DEF Queued, Reapable, L!At
<1>3. /\ sent \in Nat /\ n \in Nat /\ sent' = sent + n /\ transferred' = transferred
      /\ \A k \in 1 .. m : urb'[e[k]].len = IF k = 1 THEN n ELSE 0
      /\ n > 0 => m > 0 /\ e[1] \in Flying
  <2>1. n \in 0 .. Cap /\ Cap \in Nat /\ (n > 0 => m > 0)
    BY BackendsAssumption DEF Finished
  <2>2. n > 0 => 1 \in 1 .. m
    BY <1>1, <2>1
  <2>3. \A k \in 1 .. m : urb'[e[k]].len = IF k = 1 THEN n ELSE 0
    BY DEF Finished
  <2> QED BY <1>0, <2>1, <2>2, <2>3 DEF Finished, Floor, L!tpriv
<1>4. /\ s \in [1 .. q + 1 -> Nat] /\ s[1] = transferred /\ s[q + 1] = sent
      /\ \A k, l \in 1 .. q + 1 : k =< l => s[k] =< s[l]
      /\ \A k \in 1 .. q :
           /\ s[k + 1] = s[k] + urb[queue[k]].len
           /\ urb[queue[k]].len > 0 => s[k] =< L!Offset(queue[k])
           /\ \A p \in 1 .. urb[queue[k]].len : buffer[L!Offset(queue[k]) + p] = s[k] + p
  BY DEF Runs
<1> HIDE DEF q, m
<1> PICK r : r = [k \in 1 .. q + m + 1 |-> IF k =< q + 1 THEN s[k] ELSE sent + n]
  OBVIOUS
<1>5. /\ r \in [1 .. q + m + 1 -> Nat]
      /\ \A k \in 1 .. q + 1 : r[k] = s[k]
      /\ \A k \in 1 .. m : r[q + k + 1] = sent + n
      /\ r[1] = transferred /\ r[q + 1] = sent /\ r[q + m + 1] = sent + n
  BY <1>1, <1>3, <1>4
<1>6. ASSUME NEW k \in 1 .. q, NEW p \in 1 .. urb[queue[k]].len
      PROVE  buffer'[L!Offset(queue[k]) + p] = s[k] + p
  <2> DEFINE i == queue[k]
  <2>1. i \in L!Ids /\ i \in Nat \ {0} /\ urb[i].len \in Nat /\ urb[i].len =< Cap
    BY <1>0, <1>2, FlyingFacts, BackendsAssumption DEF LinuxTypes, Ticket
  <2>2. i =< MaxUrbs /\ MaxUrbs \in Nat /\ MaxUrbs + 1 \in Nat \ {0} /\ Cap \in Nat
    BY <2>1, BackendsAssumption DEF L!Ids
  <2>3. /\ L!Offset(i) \in Nat /\ L!Offset(MaxUrbs + 1) \in Nat
        /\ L!Offset(i) + Cap =< L!Offset(MaxUrbs + 1)
    <3> HIDE DEF i
    <3>1. i < MaxUrbs + 1
      BY <2>1, <2>2
    <3> QED BY <2>1, <2>2, <3>1, Offsets
  <2>4. p \in Nat /\ L!Offset(i) + p \in 1 .. L!Offset(MaxUrbs + 1) /\ p =< Cap /\ p > 0
    BY <2>1, <2>2, <2>3
  <2>5. ASSUME n > 0
        PROVE  L!Offset(i) + p =< L!Offset(e[1]) \/ L!Offset(i) + p > L!Offset(e[1]) + n
    <3>1. e[1] \in Nat \ {0} /\ e[1] # i /\ n =< Cap /\ 1 \in 1 .. m
      BY <1>0, <1>1, <1>2, <1>3, <2>5, FlyingFacts, BackendsAssumption DEF Finished
    <3> HIDE DEF i
    <3>2. L!Offset(e[1]) \in Nat
      BY <3>1, Offsets
    <3>3. CASE i < e[1]
      <4>1. L!Offset(i) + Cap =< L!Offset(e[1])
        BY <2>1, <3>1, <3>3, Offsets
      <4> QED BY <2>2, <2>3, <2>4, <3>2, <4>1
    <3>4. CASE e[1] < i
      <4>1. L!Offset(e[1]) + Cap =< L!Offset(i)
        BY <2>1, <3>1, <3>4, Offsets
      <4> QED BY <1>3, <2>2, <2>3, <2>4, <3>1, <3>2, <4>1
    <3> QED BY <2>1, <3>1, <3>3, <3>4
  <2>6. buffer'[L!Offset(i) + p] = buffer[L!Offset(i) + p]
    BY <1>3, <2>4, <2>5 DEF Finished
  <2> QED BY <1>4, <2>6
<1>7. ASSUME NEW k \in 1 .. q
      PROVE  /\ r[k + 1] = r[k] + urb'[queue'[k]].len
             /\ urb'[queue'[k]].len > 0 => r[k] =< L!Offset(queue'[k])
             /\ \A p \in 1 .. urb'[queue'[k]].len : buffer'[L!Offset(queue'[k]) + p] = r[k] + p
  <2>1. k + 1 \in 1 .. q + 1 /\ k \in 1 .. q + 1
    BY <1>1
  <2>2. r[k] = s[k] /\ r[k + 1] = s[k + 1] /\ queue'[k] = queue[k] /\ urb'[queue[k]] = urb[queue[k]]
    BY <1>1, <1>2, <1>5, <2>1
  <2>3. urb'[queue'[k]].len = urb[queue[k]].len
    BY <2>2
  <2>4. r[k + 1] = r[k] + urb'[queue'[k]].len
    BY <1>4, <2>2, <2>3
  <2>5. urb'[queue'[k]].len > 0 => r[k] =< L!Offset(queue'[k])
    BY <1>4, <2>2, <2>3
  <2>6. ASSUME NEW p \in 1 .. urb'[queue'[k]].len
        PROVE  buffer'[L!Offset(queue'[k]) + p] = r[k] + p
    <3>1. p \in 1 .. urb[queue[k]].len
      BY <2>3
    <3>2. buffer'[L!Offset(queue[k]) + p] = s[k] + p
      BY <1>4, <1>6, <3>1
    <3> QED BY <2>2, <3>2
  <2> QED BY <2>4, <2>5, <2>6
<1>8. ASSUME NEW l \in 1 .. m
      PROVE  /\ r[q + l + 1] = r[q + l] + urb'[e[l]].len
             /\ urb'[e[l]].len > 0 => r[q + l] =< L!Offset(e[l])
             /\ \A p \in 1 .. urb'[e[l]].len : buffer'[L!Offset(e[l]) + p] = r[q + l] + p
  <2>1. CASE l = 1
    <3>1. r[q + l] = sent /\ r[q + l + 1] = sent + n /\ urb'[e[l]].len = n
      BY <1>1, <1>3, <1>5, <2>1
    <3>2. n > 0 => sent =< L!Offset(e[1])
      BY <1>0, <1>3 DEF Floor
    <3>3. \A p \in 1 .. n : buffer'[L!Offset(e[1]) + p] = sent + p
      BY DEF Finished
    <3> QED BY <2>1, <3>1, <3>2, <3>3
  <2>2. CASE l # 1
    <3>1. l - 1 \in 1 .. m /\ q + l = q + (l - 1) + 1
      BY <1>1, <2>2
    <3>2. r[q + l] = sent + n /\ r[q + l + 1] = sent + n /\ urb'[e[l]].len = 0
      BY <1>3, <1>5, <2>2, <3>1
    <3> QED BY <1>3, <3>2
  <2> QED BY <2>1, <2>2
<1>9. ASSUME NEW k \in 1 .. q + m
      PROVE  /\ r[k + 1] = r[k] + urb'[queue'[k]].len
             /\ urb'[queue'[k]].len > 0 => r[k] =< L!Offset(queue'[k])
             /\ \A p \in 1 .. urb'[queue'[k]].len : buffer'[L!Offset(queue'[k]) + p] = r[k] + p
  <2>1. CASE k \in 1 .. q
    BY <1>7, <2>1
  <2>2. ASSUME NEW l \in 1 .. m, k = q + l
        PROVE  /\ r[k + 1] = r[k] + urb'[queue'[k]].len
               /\ urb'[queue'[k]].len > 0 => r[k] =< L!Offset(queue'[k])
               /\ \A p \in 1 .. urb'[queue'[k]].len : buffer'[L!Offset(queue'[k]) + p] = r[k] + p
    <3>1. queue'[k] = e[l]
      BY <1>1, <2>2
    <3>2. r[k + 1] = r[k] + urb'[queue'[k]].len
      BY <1>8, <2>2, <3>1
    <3>3. urb'[queue'[k]].len > 0 => r[k] =< L!Offset(queue'[k])
      BY <1>8, <2>2, <3>1
    <3>4. ASSUME NEW p \in 1 .. urb'[queue'[k]].len
          PROVE  buffer'[L!Offset(queue'[k]) + p] = r[k] + p
      <4>1. buffer'[L!Offset(e[l]) + p] = r[q + l] + p
        BY <1>8, <3>1
      <4> QED BY <2>2, <3>1, <4>1
    <3> QED BY <3>2, <3>3, <3>4
  <2> QED BY <1>1, <2>1, <2>2
<1>11. ASSUME NEW k \in 1 .. q + m + 1, NEW l \in 1 .. q + m + 1, k =< l PROVE r[k] =< r[l]
  <2>1. CASE l =< q + 1
    BY <1>1, <1>4, <1>5, <1>11, <2>1
  <2>2. CASE k =< q + 1 /\ l > q + 1
    <3>1. s[k] =< s[q + 1] /\ r[k] = s[k] /\ r[l] = sent + n /\ s[k] \in Nat
      BY <1>1, <1>4, <1>5, <2>2
    <3> QED BY <1>3, <1>4, <3>1
  <2>3. CASE k > q + 1
    <3>1. r[k] = sent + n /\ r[l] = sent + n
      BY <1>1, <1>5, <1>11, <2>3
    <3> QED BY <1>3, <3>1
  <2> QED BY <1>1, <1>11, <2>1, <2>2, <2>3
<1>10. Runs(r)'
  BY <1>1, <1>3, <1>5, <1>9, <1>11 DEF Runs
<1> QED BY <1>10

LEMMA FinishedRest ==
  ASSUME LinuxInv, NEW e, NEW n, Finished(e, n), todo' \subseteq todo
  PROVE  /\ Brought' /\ AfterBad' /\ Stalled' /\ Full' /\ Early' /\ LinuxAsked'
         /\ L!FreedWhenReaped' /\ L!ErrorReported' /\ L!IsoInPlace'
<1>0. LinuxTypes /\ Queued /\ Tickets
  BY DEF LinuxInv
<1>1. UNCHANGED <<L!rigid, phase, asked, L!tpriv, transferred, results, refused>>
  BY DEF Finished
<1>2. endpoint # "ok" => endpoint' # "ok" /\ n = 0
  BY <1>0, BackendsAssumption DEF Finished
<1>3. Brought'
  <2> SUFFICES ASSUME kind # "iso", ~(phase = "NO_DEVICE" /\ endpoint' = "gone") PROVE \E r : Runs(r)'
    BY <1>1 DEF Brought, L!rigid
  <2>1. ~(phase = "NO_DEVICE" /\ endpoint = "gone")
    BY DEF Finished
  <2>2. PICK s : Runs(s)
    BY <2>1 DEF LinuxInv, Brought
  <2> QED BY <2>1, <2>2, FinishedBrought
<1>4. AfterBad'
  <2>1. \A k \in 1 .. Len(e) : LET u == urb'[e[k]] IN
          /\ u.len = IF k = 1 THEN n ELSE 0
          /\ u.status \in {"stall", "shutdown"} => endpoint' # "ok"
    BY DEF Finished
  <2>2. /\ Len(queue) \in Nat /\ Len(e) \in Nat
        /\ \A k \in 1 .. Len(queue) : queue'[k] = queue[k]
        /\ \A k \in 1 .. Len(e) : queue'[Len(queue) + k] = e[k]
        /\ \A k \in 1 .. Len(queue') : k \in 1 .. Len(queue) \/ \E l \in 1 .. Len(e) : k = Len(queue) + l
    BY <1>0, FinishedQueue
  <2>3. \A k \in 1 .. Len(queue) : urb'[queue[k]] = urb[queue[k]]
    BY <1>0, FinishedSets
  <2> SUFFICES ASSUME NEW k \in 1 .. Len(queue'), urb'[queue'[k]].status \in {"stall", "shutdown"}
               PROVE  endpoint' # "ok" /\ \A l \in k + 1 .. Len(queue') : urb'[queue'[l]].len = 0
    BY DEF AfterBad
  <2>4. CASE k \in 1 .. Len(queue)
    <3>1. endpoint # "ok" /\ \A l \in k + 1 .. Len(queue) : urb[queue[l]].len = 0
      BY <2>2, <2>3, <2>4 DEF LinuxInv, AfterBad
    <3>2. ASSUME NEW l \in k + 1 .. Len(queue') PROVE urb'[queue'[l]].len = 0
      <4>1. CASE l \in 1 .. Len(queue)
        BY <2>2, <2>3, <3>1, <4>1
      <4>2. ASSUME NEW p \in 1 .. Len(e), l = Len(queue) + p PROVE urb'[queue'[l]].len = 0
        BY <1>2, <2>1, <2>2, <3>1, <4>2
      <4>3. l \in 1 .. Len(queue')
        BY <2>4
      <4> QED BY <2>2, <4>1, <4>2, <4>3
    <3> QED BY <1>2, <3>1, <3>2
  <2>5. ASSUME NEW p \in 1 .. Len(e), k = Len(queue) + p
        PROVE  endpoint' # "ok" /\ \A l \in k + 1 .. Len(queue') : urb'[queue'[l]].len = 0
    <3>1. endpoint' # "ok"
      BY <2>1, <2>2, <2>5
    <3>2. ASSUME NEW l \in k + 1 .. Len(queue') PROVE urb'[queue'[l]].len = 0
      <4>1. l \in 1 .. Len(queue') /\ l \notin 1 .. Len(queue)
        BY <2>2, <2>5
      <4>2. PICK r \in 1 .. Len(e) : l = Len(queue) + r
        BY <2>2, <4>1
      <4>3. r # 1
        BY <2>2, <2>5, <4>2
      <4> QED BY <2>1, <2>2, <4>2, <4>3
    <3> QED BY <3>1, <3>2
  <2> QED BY <2>2, <2>4, <2>5
<1>5. Stalled'
  <2> SUFFICES ASSUME phase = "flying", reap_action = "NORMAL", reap_status # "COMPLETED"
               PROVE  endpoint' # "ok" /\ \A i \in Reapable' : urb'[i].len = 0
    BY <1>1 DEF Stalled, L!tpriv
  <2>1. endpoint # "ok" /\ \A i \in Reapable : urb[i].len = 0
    BY DEF LinuxInv, Stalled
  <2>2. ASSUME NEW i \in Reapable' PROVE urb'[i].len = 0
    <3>1. CASE i \in Reapable
      <4>1. i \in L!Ids /\ urb[i].at # "flying"
        BY <3>1 DEF Reapable, L!At
      <4> QED BY <1>0, <2>1, <3>1, <4>1, FinishedSets
    <3>2. CASE \E k \in 1 .. Len(e) : e[k] = i
      BY <1>2, <2>1, <3>2 DEF Finished
    <3> QED BY <1>0, <3>1, <3>2, FinishedSets
  <2> QED BY <1>2, <2>1, <2>2
<1>6. \A i \in L!Ids : urb[i].at # "flying" => urb'[i] = urb[i]
  BY <1>0, FinishedSets
<1>7. Full'
  <2>1. \A i \in 1 .. num_retired : i \in L!Ids
    BY <1>0, BackendsAssumption DEF LinuxTypes, L!Ids
  <2> QED BY <1>1, <1>6, <2>1 DEF LinuxInv, Full, L!tpriv, L!rigid
<1>8. Early'
  <2> SUFFICES ASSUME phase = "flying", kind = "bulk", reap_action = "COMPLETED_EARLY",
                      reap_status = "COMPLETED", ~refused
               PROVE  \E i \in L!Ids : /\ urb'[i].at = "reaped" /\ urb'[i].status \in {"short", "cancelled"}
                        /\ \A j \in 1 .. i - 1 : urb'[j].at = "reaped" /\ urb'[j].status = "ok"
    BY <1>1 DEF Early, L!tpriv, L!rigid
  <2>1. PICK i \in L!Ids : /\ urb[i].at = "reaped" /\ urb[i].status \in {"short", "cancelled"}
                          /\ \A j \in 1 .. i - 1 : urb[j].at = "reaped" /\ urb[j].status = "ok"
    BY DEF LinuxInv, Early
  <2>2. \A j \in 1 .. i - 1 : j \in L!Ids
    BY BackendsAssumption DEF L!Ids
  <2> QED BY <1>6, <2>1, <2>2
<1>9. LinuxAsked' /\ L!IsoInPlace'
  BY <1>1 DEF LinuxInv, LinuxAsked, L!IsoInPlace, L!tpriv, L!rigid
<1>10. L!AllReaped' => L!AllReaped
  <2>1. Flying' \cup Reapable' = Flying \cup Reapable
    BY <1>0, FinishedSets
  <2> QED BY <1>1, <2>1 DEF L!AllReaped, Flying, Reapable
<1>11. L!FreedWhenReaped'
  <2>1. Flying' \cup Reapable' = Flying \cup Reapable
    BY <1>0, FinishedSets
  <2> QED BY <1>1, <2>1 DEF LinuxInv, L!FreedWhenReaped, L!AllReaped, Flying, Reapable, L!rigid
<1>12. L!ErrorReported'
  <2> SUFFICES ASSUME phase = "COMPLETED", kind = "bulk", L!AllReaped', ~refused
               PROVE  \A i \in L!FirstBad' : urb'[i].status \in {"short", "cancelled"}
    BY <1>1 DEF L!ErrorReported, L!rigid
  <2>1. Flying = {}
    BY <1>10 DEF L!AllReaped, L!Results, Flying
  <2>2. \A i \in L!Ids : urb'[i] = urb[i]
    BY <1>6, <2>1 DEF Flying, L!At
  <2>3. \A i \in L!Ids : \A j \in 1 .. i - 1 : j \in L!Ids
    BY BackendsAssumption DEF L!Ids
  <2>4. L!FirstBad' = L!FirstBad /\ \A i \in L!FirstBad : i \in L!Ids
    BY <2>2, <2>3 DEF L!FirstBad
  <2> QED BY <1>10, <2>2, <2>4 DEF LinuxInv, L!ErrorReported
<1> QED BY <1>3, <1>4, <1>5, <1>7, <1>8, <1>9, <1>11, <1>12

LEMMA FinishedInv ==
  ASSUME LinuxInv, NEW e, NEW n, Finished(e, n), todo' \subseteq todo,
         Convex', Submitting', Orderly', Discarding'
  PROVE  LinuxInv'
  BY FinishedTypes, FinishedSent, FinishedRest DEF LinuxInv

LEMMA InLineOn ==
  ASSUME LinuxTypes, Queued, NEW e, NEW n, Finished(e, n), InOrder(e), NEW from, NEW to, InLine(from, to)
  PROVE  InLine(from, to)'
<1> DEFINE q == Len(queue)
           m == Len(e)
<1>1. /\ q \in Nat /\ m \in Nat /\ Len(queue') = q + m
      /\ \A k \in 1 .. q : queue'[k] = queue[k]
      /\ \A k \in 1 .. m : queue'[q + k] = e[k]
      /\ \A k \in 1 .. Len(queue') : k \in 1 .. q \/ \E l \in 1 .. m : k = q + l
  BY FinishedQueue
<1>2. /\ \A i : i \in Flying' <=> i \in Flying /\ \A k \in 1 .. m : e[k] # i
      /\ \A k \in 1 .. m : e[k] \in Flying
  BY FinishedSets
<1>3. /\ from \in Nat /\ to \in Nat /\ from + q =< to
      /\ \A k \in 1 .. q : queue[k] = from + k
      /\ Flying = from + q + 1 .. to
  BY DEF InLine
<1>4. \A k \in 1 .. m : e[k] = e[1] + k - 1 /\ \A i \in Flying : e[1] =< i
  BY DEF InOrder
<1> HIDE DEF q, m
<1>5. \A k \in 1 .. m : e[k] = from + q + k
  <2> SUFFICES ASSUME m > 0 PROVE \A k \in 1 .. m : e[k] = from + q + k
    BY <1>1
  <2>1. 1 \in 1 .. m /\ e[1] \in from + q + 1 .. to
    BY <1>1, <1>2, <1>3
  <2>2. e[1] = from + q + 1
    BY <1>1, <1>3, <1>4, <2>1
  <2> QED BY <1>1, <1>3, <1>4, <2>2
<1>6. from + q + m =< to
  <2> SUFFICES ASSUME m > 0 PROVE from + q + m =< to
    BY <1>1, <1>3
  <2>1. m \in 1 .. m
    BY <1>1
  <2>2. from + q + m \in from + q + 1 .. to
    BY <1>2, <1>3, <1>5, <2>1
  <2> QED BY <1>1, <1>3, <2>2
<1>7. Flying' = from + (q + m) + 1 .. to
  <2>1. ASSUME NEW i \in Flying' PROVE i \in from + (q + m) + 1 .. to
    <3>1. i \in from + q + 1 .. to /\ \A k \in 1 .. m : i # from + q + k
      BY <1>2, <1>3, <1>5, <2>1
    <3>2. CASE i =< from + q + m
      <4>1. i - (from + q) \in 1 .. m /\ i = from + q + (i - (from + q))
        BY <1>1, <1>3, <3>1, <3>2
      <4> QED BY <3>1, <4>1
    <3> QED BY <1>1, <1>3, <3>1, <3>2
  <2>2. ASSUME NEW i \in from + (q + m) + 1 .. to PROVE i \in Flying'
    <3>1. i \in Flying /\ \A k \in 1 .. m : e[k] # i
      BY <1>1, <1>3, <1>5, <2>2
    <3> QED BY <1>2, <3>1
  <2> QED BY <2>1, <2>2
<1>8. \A k \in 1 .. Len(queue') : queue'[k] = from + k
  <2>1. ASSUME NEW l \in 1 .. m PROVE queue'[q + l] = from + (q + l)
    <3>1. queue'[q + l] = e[l] /\ e[l] = from + q + l
      BY <1>1, <1>5
    <3> QED BY <1>1, <1>3, <3>1
  <2> QED BY <1>1, <1>3, <2>1
<1> QED BY <1>1, <1>3, <1>6, <1>7, <1>8 DEF InLine

LEMMA DeviceInv ==
  ASSUME LinuxInv, L!Device
  PROVE  LinuxInv' /\ UNCHANGED <<phase, asked>>
<1>0. LinuxTypes /\ Queued /\ Convex /\ Submitting /\ Orderly /\ Discarding
  BY DEF LinuxInv
<1>1. PICK e, n : Finished(e, n) /\ InOrder(e) /\ UNCHANGED todo
  BY DeviceFinishes
<1>2. UNCHANGED <<L!rigid, phase, asked, L!tpriv, transferred, results, refused, todo>>
  BY <1>1 DEF Finished
<1>3. /\ \A i : i \in Flying' <=> i \in Flying /\ \A k \in 1 .. Len(e) : e[k] # i
      /\ \A i \in L!Ids : urb[i].at # "flying" => urb'[i] = urb[i]
      /\ \A k \in 1 .. Len(e) : e[k] \in Flying
  BY <1>0, <1>1, FinishedSets
<1>4. Convex'
  <2> SUFFICES ASSUME NEW i \in Flying', NEW j \in Flying', NEW k \in i .. j PROVE k \in Flying'
    BY DEF Convex
  <2>1. k \in Flying /\ i \in Flying /\ i \in Nat /\ k \in Nat /\ i =< k
    <3>1. i \in Flying /\ j \in Flying /\ i \in Nat /\ j \in Nat
      BY <1>0, <1>3, FlyingFacts
    <3> QED BY <1>0, <3>1 DEF Convex
  <2>2. ASSUME NEW l \in 1 .. Len(e), e[l] = k PROVE FALSE
    <3>1. e[1] \in Nat /\ Len(e) \in Nat /\ l \in Nat /\ 1 \in 1 .. Len(e)
      <4>1. Len(e) \in Nat
        BY <1>1 DEF Finished
      <4>2. 1 \in 1 .. Len(e)
        BY <4>1
      <4> QED BY <1>0, <1>3, <4>1, <4>2, FlyingFacts
    <3>2. e[1] =< i /\ k = e[1] + l - 1
      BY <1>1, <2>1, <2>2 DEF InOrder
    <3>3. i - e[1] + 1 \in 1 .. Len(e)
      BY <2>1, <3>1, <3>2
    <3>4. e[i - e[1] + 1] = e[1] + (i - e[1] + 1) - 1
      BY <1>1, <3>3 DEF InOrder
    <3>5. e[i - e[1] + 1] = i
      BY <2>1, <3>1, <3>4
    <3> QED BY <1>3, <3>3, <3>5
  <2> QED BY <1>3, <2>1, <2>2
<1>5. Submitting'
  <2> SUFFICES ASSUME phase = "submitting"
               PROVE  /\ \E to \in 0 .. num_urbs - 1 : todo = to + 1 .. num_urbs /\ InLine(0, to)'
                      /\ \A i \in L!Ids : urb'[i].at # "reaped"
    BY <1>0, <1>2 DEF Submitting, L!tpriv
  <2>1. PICK to \in 0 .. num_urbs - 1 : todo = to + 1 .. num_urbs /\ InLine(0, to)
    BY <1>0 DEF Submitting
  <2>2. InLine(0, to)'
    BY <1>0, <1>1, <2>1, InLineOn
  <2>3. ASSUME NEW i \in L!Ids PROVE urb'[i].at # "reaped"
    <3>1. CASE \E k \in 1 .. Len(e) : e[k] = i
      BY <1>1, <3>1 DEF Finished
    <3>2. CASE \A k \in 1 .. Len(e) : e[k] # i
      BY <1>0, <1>1, <3>2 DEF Finished, Submitting
    <3> QED BY <3>1, <3>2
  <2> QED BY <2>1, <2>2, <2>3
<1>6. Orderly'
  <2> SUFFICES ASSUME phase = "flying", reap_action = "NORMAL", reap_status = "COMPLETED" \/ continuation
               PROVE  todo = {} /\ InLine(num_retired, num_urbs)'
    BY <1>2 DEF Orderly, L!tpriv, L!rigid
  <2>1. todo = {} /\ InLine(num_retired, num_urbs)
    BY <1>0 DEF Orderly
  <2>2. PICK from, to : from = num_retired /\ to = num_urbs
    OBVIOUS
  <2>3. InLine(from, to)'
    BY <1>0, <1>1, <2>1, <2>2, InLineOn
  <2>4. from = num_retired' /\ to = num_urbs'
    BY <1>2, <2>2 DEF L!tpriv
  <2> QED BY <2>1, <2>3, <2>4 DEF InLine
<1>7. Discarding'
  BY <1>0, <1>2, <1>3 DEF Discarding, L!tpriv
<1>8. LinuxInv'
  BY <1>1, <1>2, <1>4, <1>5, <1>6, <1>7, FinishedInv
<1> QED BY <1>2, <1>8

LEMMA DiscardInv ==
  ASSUME LinuxInv, L!Discard
  PROVE  LinuxInv' /\ UNCHANGED <<phase, asked>>
<1>0. LinuxTypes /\ Queued /\ Convex /\ Orderly /\ Discarding
  BY DEF LinuxInv
<1>1. PICK i \in todo :
        /\ phase = "flying" /\ todo' = todo \ {i} /\ \A j \in todo : j =< i
        /\ \E e, n : Finished(e, n) /\ e = IF i \in Flying THEN <<i>> ELSE <<>>
  BY DiscardFinishes
<1>2. PICK e, n : Finished(e, n) /\ e = IF i \in Flying THEN <<i>> ELSE <<>>
  BY <1>1
<1>3. UNCHANGED <<L!rigid, phase, asked, L!tpriv, transferred, results, refused>>
  BY <1>2 DEF Finished
<1>4. \A j : j \in Flying' <=> j \in Flying /\ j # i
  <2>1. \A j : j \in Flying' <=> j \in Flying /\ \A k \in 1 .. Len(e) : e[k] # j
    BY <1>0, <1>2, FinishedSets
  <2>2. CASE i \in Flying
    <3>1. e = <<i>> /\ Len(e) = 1 /\ e[1] = i
      BY <1>2, <2>2
    <3> QED BY <2>1, <3>1
  <2>3. CASE i \notin Flying
    <3>1. e = <<>> /\ Len(e) = 0
      BY <1>2, <2>3
    <3> QED BY <2>1, <2>3, <3>1
  <2> QED BY <2>2, <2>3
<1>5. PICK lo, hi \in 1 .. num_urbs : lo =< hi /\ todo = lo .. hi /\ \A j \in Flying : j =< hi
  BY <1>0, <1>1 DEF Discarding
<1>6. i = hi /\ num_urbs \in Nat
  <2>1. num_urbs \in Nat
    BY <1>0, BackendsAssumption DEF LinuxTypes
  <2>2. hi \in todo /\ i \in lo .. hi /\ hi =< i
    BY <1>1, <1>5, <2>1
  <2> QED BY <1>5, <2>1, <2>2
<1>7. \A j \in Flying' : j \in Nat /\ j < hi
  <2>1. \A j \in Flying : j \in Nat
    BY <1>0, FlyingFacts
  <2> QED BY <1>4, <1>5, <1>6, <2>1
<1>8. Convex'
  <2> SUFFICES ASSUME NEW j \in Flying', NEW k \in Flying', NEW l \in j .. k PROVE l \in Flying'
    BY DEF Convex
  <2>1. l \in Flying
    BY <1>0, <1>4 DEF Convex
  <2>2. l # i
    BY <1>6, <1>7
  <2> QED BY <1>4, <2>1, <2>2
<1>9. Discarding'
  <2> SUFFICES ASSUME todo' # {}
               PROVE  \E a, b \in 1 .. num_urbs : a =< b /\ todo' = a .. b /\ \A j \in Flying' : j =< b
    BY <1>1, <1>3 DEF Discarding, L!tpriv
  <2>1. todo' = lo .. hi - 1
    BY <1>1, <1>5, <1>6
  <2>2. lo =< hi - 1 /\ hi - 1 \in 1 .. num_urbs
    BY <1>5, <1>6, <2>1
  <2>3. \A j \in Flying' : j =< hi - 1
    BY <1>5, <1>6, <1>7
  <2> QED BY <2>1, <2>2, <2>3
<1>10. Submitting' /\ Orderly'
  <2>1. ~(reap_action = "NORMAL" /\ (reap_status = "COMPLETED" \/ continuation))
    BY <1>0, <1>1 DEF Orderly
  <2> QED BY <1>1, <1>3, <2>1 DEF Submitting, Orderly, L!tpriv, L!rigid
<1>11. LinuxInv'
  <2>1. todo' \subseteq todo
    BY <1>1
  <2> QED BY <1>2, <1>8, <1>9, <1>10, <2>1, FinishedInv
<1> QED BY <1>3, <1>11
-----------------------------------------------------------------------------
(* The submission.                                                         *)
LEMMA SubmitInv ==
  ASSUME LinuxInv, L!Submit
  PROVE  LinuxInv'
<1>0. LinuxTypes
  BY DEF LinuxInv
<1>1. PICK n \in IF kind = "control" THEN {1} ELSE L!Ids : num_urbs' = n /\ todo' = 1 .. n
  BY DEF L!Submit
<1>2. n \in 1 .. MaxUrbs /\ MaxUrbs \in Nat /\ n \in Nat \ {0} /\ (kind = "control" => n = 1)
  BY <1>1, BackendsAssumption DEF L!Ids
<1>3. /\ phase' = "submitting" /\ asked' = FALSE
      /\ urbs' = TRUE /\ num_retired' = 0 /\ reap_action' = "NORMAL" /\ reap_status' = "COMPLETED"
      /\ iso_packet_offset' = 0 /\ transferred' = 0 /\ results' = [i \in L!Ids |-> 0]
      /\ urb' = L!NoUrbs /\ queue' = <<>> /\ sent' = 0 /\ buffer' = L!Empty /\ refused' = FALSE
      /\ endpoint' = IF endpoint = "gone" THEN "gone" ELSE "ok"
      /\ UNCHANGED <<kind, continuation>>
  BY DEF L!Submit, L!rigid
<1>4. \A i \in L!Ids : urb'[i] = [at |-> "none", status |-> "ok", len |-> 0]
  BY <1>3 DEF L!NoUrbs
<1>5. Flying' = {} /\ Reapable' = {}
  BY <1>4 DEF Flying, Reapable, L!At
<1>6. LinuxTypes'
  <2>1. buffer' \in [1 .. L!Offset(MaxUrbs + 1) -> Nat]
    BY <1>3, Offsets, BackendsAssumption DEF L!Empty
  <2>2. urb' \in [L!Ids -> Ticket]
    BY <1>3, BackendsAssumption DEF L!NoUrbs, Ticket, Ended
  <2>3. results' \in [L!Ids -> 0 .. MaxUrbs] /\ num_urbs' \in 0 .. MaxUrbs
    BY <1>1, <1>2, <1>3
  <2>4. queue' \in Seq(L!Ids) /\ todo' \subseteq 1 .. num_urbs'
    BY <1>1, <1>3
  <2>5. num_retired' \in 0 .. num_urbs' /\ iso_packet_offset' \in 0 .. num_retired'
    BY <1>1, <1>2, <1>3
  <2>6. /\ kind' \in {"bulk", "iso", "control"} /\ continuation' \in BOOLEAN
        /\ asked' \in BOOLEAN /\ urbs' \in BOOLEAN /\ refused' \in BOOLEAN
        /\ endpoint' \in {"ok", "disabled", "halted", "gone"}
    BY <1>0, <1>3 DEF LinuxTypes
  <2>7. kind' = "control" => num_urbs' =< 1
    BY <1>1, <1>2, <1>3
  <2> QED BY <1>3, <2>1, <2>2, <2>3, <2>4, <2>5, <2>6, <2>7 DEF LinuxTypes, L!Results
<1>7. Queued' /\ Tickets' /\ Convex' /\ AfterBad'
  BY <1>3, <1>4, <1>5 DEF Queued, Tickets, Convex, AfterBad
<1>8. Submitting'
  <2>1. InLine(0, 0)'
    BY <1>3, <1>5 DEF InLine
  <2>2. 0 \in 0 .. n - 1 /\ 1 .. n = 0 + 1 .. n
    BY <1>2
  <2> QED BY <1>1, <1>3, <1>4, <2>1, <2>2 DEF Submitting
<1>9. Counted' /\ Discarding' /\ Orderly' /\ Full' /\ Stalled' /\ Early' /\ LinuxAsked'
  BY <1>3 DEF Counted, Discarding, Orderly, Full, Stalled, Early, LinuxAsked
<1>10. Floor'
  <2>1. L!Offset(n + 1) \in Nat /\ \A i \in 1 .. n : L!Offset(i) \in Nat
    BY <1>2, Offsets
  <2> QED BY <1>1, <1>3, <1>5, <2>1 DEF Floor
<1>11. Moved'
  BY <1>3 DEF Moved
<1>12. Brought'
  <2>1. Runs([k \in {1} |-> 0])'
    BY <1>3 DEF Runs
  <2> QED BY <2>1 DEF Brought
<1>13. L!FreedWhenReaped' /\ L!ErrorReported' /\ L!IsoInPlace'
  BY <1>3 DEF L!FreedWhenReaped, L!AllReaped, L!Results, L!ErrorReported, L!IsoInPlace
<1> QED BY <1>6, <1>7, <1>8, <1>9, <1>10, <1>11, <1>12, <1>13 DEF LinuxInv

(* What the URBs that are back say does not change in a step that leaves   *)
(* them and the counters alone.                                            *)
LEMMA BackKept ==
  ASSUME LinuxInv, phase # "NO_DEVICE", phase' \notin L!Results,
         UNCHANGED <<L!rigid, queue, endpoint, sent, buffer, transferred>>,
         \A k \in 1 .. Len(queue) : urb'[queue[k]] = urb[queue[k]]
  PROVE  /\ Brought' /\ Moved' /\ AfterBad'
         /\ L!FreedWhenReaped' /\ L!ErrorReported' /\ L!IsoInPlace'
<1>1. Brought'
  <2> SUFFICES ASSUME kind # "iso" PROVE \E s : Runs(s)'
    BY DEF Brought, L!rigid
  <2>1. PICK s : Runs(s)
    BY DEF LinuxInv, Brought
  <2>2. Runs(s)'
    BY <2>1 DEF Runs
  <2> QED BY <2>2
<1>2. Moved'
  BY DEF LinuxInv, Moved, L!rigid
<1>3. AfterBad'
  <2>1. \A k \in 1 .. Len(queue) : \A l \in k + 1 .. Len(queue) : l \in 1 .. Len(queue)
    BY DEF LinuxInv, LinuxTypes
  <2> QED BY <2>1 DEF LinuxInv, AfterBad
<1>4. L!FreedWhenReaped' /\ L!ErrorReported' /\ L!IsoInPlace'
  BY DEF L!FreedWhenReaped, L!AllReaped, L!Results, L!ErrorReported, L!IsoInPlace
<1> QED BY <1>1, <1>2, <1>3, <1>4

(* Where a submission is.                                                  *)
LEMMA SubmittedSoFar ==
  ASSUME LinuxInv, phase = "submitting"
  PROVE  \E to \in 0 .. num_urbs - 1 :
           /\ to \in Nat /\ num_urbs \in Nat /\ to < num_urbs /\ num_urbs =< MaxUrbs
           /\ todo = to + 1 .. num_urbs /\ InLine(0, to)
           /\ L!Min(todo) = to + 1 /\ L!Cardinality(todo) = num_urbs - to
           /\ Flying \cup Reapable = 1 .. to
           /\ Cardinality(Flying \cup Reapable) = to
<1>0. LinuxTypes /\ Queued /\ Submitting
  BY DEF LinuxInv
<1>1. PICK to \in 0 .. num_urbs - 1 : todo = to + 1 .. num_urbs /\ InLine(0, to)
  BY <1>0 DEF Submitting
<1>2. to \in Nat /\ num_urbs \in Nat /\ to < num_urbs /\ num_urbs =< MaxUrbs
  BY <1>0, <1>1, BackendsAssumption DEF LinuxTypes
<1>3. L!Min(todo) = to + 1
  BY <1>1, <1>2, Interval, Same
<1>4. L!Cardinality(todo) = num_urbs - to
  <2>1. Cardinality(to + 1 .. num_urbs) = num_urbs - (to + 1) + 1
    BY <1>2, FS_Interval
  <2>2. L!Cardinality(todo) = Cardinality(todo)
    BY Same
  <2> QED BY <1>1, <1>2, <2>1, <2>2
<1>5. Flying \cup Reapable = 1 .. to
  <2>1. /\ Len(queue) \in Nat /\ Len(queue) =< to
        /\ \A k \in 1 .. Len(queue) : queue[k] = k
        /\ Flying = Len(queue) + 1 .. to
    BY <1>0, <1>1 DEF InLine, LinuxTypes
  <2>2. \A i \in Reapable : i \in 1 .. Len(queue)
    BY <1>0, <2>1 DEF Queued
  <2>3. \A i \in 1 .. Len(queue) : i \in Reapable
    BY <1>0, <2>1 DEF Queued
  <2> QED BY <1>2, <2>1, <2>2, <2>3
<1>6. Cardinality(1 .. to) = to
  BY <1>2, FS_Interval
<1> QED BY <1>1, <1>2, <1>3, <1>4, <1>5, <1>6

LEMMA SubmitUrbInv ==
  ASSUME LinuxInv, L!SubmitUrb
  PROVE  LinuxInv'
<1>0. LinuxTypes /\ Queued /\ Tickets /\ Submitting /\ Floor /\ phase = "submitting"
  BY DEF LinuxInv, L!SubmitUrb
<1>1. PICK to \in 0 .. num_urbs - 1 :
        /\ to \in Nat /\ num_urbs \in Nat /\ to < num_urbs /\ num_urbs =< MaxUrbs
        /\ todo = to + 1 .. num_urbs /\ InLine(0, to)
        /\ L!Min(todo) = to + 1 /\ L!Cardinality(todo) = num_urbs - to
        /\ Flying \cup Reapable = 1 .. to
  BY <1>0, SubmittedSoFar
<1> DEFINE i == to + 1
<1>2. /\ urb' = [urb EXCEPT ![i].at = "flying"] /\ todo' = todo \ {i}
      /\ phase' = IF num_urbs - to = 1 THEN "flying" ELSE "submitting"
      /\ UNCHANGED <<L!rigid, asked, L!tpriv, transferred, results, queue, endpoint, sent, buffer, refused>>
  BY <1>1 DEF L!SubmitUrb
<1>3. i \in L!Ids /\ i \in todo /\ urb[i] \in Ticket /\ Flying \subseteq L!Ids /\ Reapable \subseteq L!Ids
  BY <1>0, <1>1, BackendsAssumption DEF L!Ids, LinuxTypes, Flying, Reapable, L!At
<1>4. i \notin Flying /\ i \notin Reapable
  BY <1>1
<1>5. urb[i].at = "none"
  BY <1>0, <1>3, <1>4 DEF Ticket, Submitting, Flying, Reapable, L!At
<1>6. /\ urb'[i] = [urb[i] EXCEPT !.at = "flying"] /\ \A j \in L!Ids : j # i => urb'[j] = urb[j]
      /\ urb'[i].at = "flying" /\ urb'[i].status = "ok" /\ urb'[i].len = 0
      /\ urb' \in [L!Ids -> Ticket]
  BY <1>0, <1>2, <1>3, <1>5 DEF LinuxTypes, Ticket, Tickets
<1>7. Flying' = Flying \cup {i} /\ Reapable' = Reapable
  BY <1>3, <1>4, <1>5, <1>6 DEF Flying, Reapable, L!At
<1>8. \A k \in 1 .. Len(queue) : urb'[queue[k]] = urb[queue[k]]
  <2>1. \A k \in 1 .. Len(queue) : queue[k] \in Reapable
    BY <1>0 DEF Queued
  <2> QED BY <1>3, <1>4, <1>6, <2>1
<1>9. InLine(0, i)'
  <2>1. Len(queue) \in Nat /\ Len(queue) =< to /\ Flying = Len(queue) + 1 .. to
    BY <1>0, <1>1 DEF InLine, LinuxTypes
  <2>2. Flying' = Len(queue) + 1 .. i
    BY <1>1, <1>7, <2>1
  <2> QED BY <1>1, <1>2, <2>1, <2>2 DEF InLine
<1>10. LinuxTypes'
  BY <1>0, <1>1, <1>2, <1>6 DEF LinuxTypes, L!rigid, L!tpriv
<1>11. Queued'
  BY <1>0, <1>2, <1>7 DEF Queued
<1>12. Tickets'
  BY <1>0, <1>1, <1>2, <1>6 DEF Tickets, L!tpriv
<1>13. phase' # "NO_DEVICE" /\ phase' \notin L!Results
  BY <1>2 DEF L!Results
<1>14. /\ Brought' /\ Moved' /\ AfterBad'
       /\ L!FreedWhenReaped' /\ L!ErrorReported' /\ L!IsoInPlace'
  BY <1>0, <1>2, <1>8, <1>13, BackKept
<1>15. Convex'
  <2>1. Len(queue') \in Nat /\ Flying' = 0 + Len(queue') + 1 .. i
    BY <1>9, <1>10 DEF InLine, LinuxTypes
  <2> QED BY <1>1, <2>1 DEF Convex
<1>16. Floor'
  BY <1>0, <1>2, <1>3, <1>7 DEF Floor, L!tpriv
<1>17. /\ num_retired = 0 /\ transferred = 0 /\ iso_packet_offset = 0
       /\ reap_action = "NORMAL" /\ reap_status = "COMPLETED" /\ urbs
       /\ \A j \in L!Ids : urb[j].at # "reaped"
  BY <1>0 DEF Submitting
<1>18. CASE num_urbs - to = 1
  <2>1. phase' = "flying" /\ todo' = {} /\ i = num_urbs
    BY <1>1, <1>2, <1>18
  <2>2. Flying' \cup Reapable' = 1 .. num_urbs
    BY <1>1, <1>7, <2>1
  <2>3. Counted'
    <3>1. Cardinality(1 .. num_urbs) = num_urbs
      BY <1>1, FS_Interval
    <3>2. Cardinality(Flying' \cup Reapable') = num_urbs
      BY <2>2, <3>1
    <3>3. num_retired' = 0 /\ num_urbs' = num_urbs /\ 0 + num_urbs = num_urbs
      BY <1>1, <1>2, <1>17 DEF L!tpriv
    <3> QED BY <3>2, <3>3 DEF Counted
  <2>4. Orderly'
    <3>1. InLine(0, num_urbs)'
      BY <1>2, <1>9, <2>1 DEF InLine, L!tpriv
    <3> QED BY <1>2, <1>17, <2>1, <3>1 DEF Orderly, InLine, L!tpriv
  <2>5. Full'
    <3>1. L!Offset(0 + 1) = 0
      BY Offsets
    <3> QED BY <1>2, <1>17, <3>1 DEF Full, L!tpriv
  <2> QED BY <1>2, <1>10, <1>11, <1>12, <1>14, <1>15, <1>16, <1>17, <2>1, <2>3, <2>4, <2>5
          DEF LinuxInv, Submitting, Discarding, Stalled, Early, LinuxAsked, L!tpriv
<1>19. CASE num_urbs - to # 1
  <2>1. phase' = "submitting" /\ i \in 0 .. num_urbs - 1 /\ todo' = i + 1 .. num_urbs
    BY <1>1, <1>2, <1>19
  <2>2. \A j \in L!Ids : urb'[j].at # "reaped"
    BY <1>3, <1>6, <1>17
  <2>3. Submitting'
    BY <1>2, <1>9, <1>17, <2>1, <2>2 DEF Submitting, L!tpriv
  <2>4. LinuxAsked'
    BY <1>0, <1>2, <2>1 DEF LinuxInv, LinuxAsked, L!tpriv
  <2> QED BY <1>10, <1>11, <1>12, <1>14, <1>15, <1>16, <2>1, <2>3, <2>4
          DEF LinuxInv, Counted, Discarding, Orderly, Full, Stalled, Early
<1> QED BY <1>18, <1>19

(* A submission that ends with URBs that were not submitted.               *)
LEMMA SubmitEndsInv ==
  ASSUME LinuxInv, phase = "submitting", phase' = "flying",
         \/ reap_action' = "COMPLETED_EARLY" /\ todo' = {} /\ refused' = TRUE
         \/ reap_action' = "SUBMIT_FAILED" /\ todo' = 1 .. L!Min(todo) - 1 /\ refused' = refused,
         num_retired' = num_retired + L!Cardinality(todo),
         UNCHANGED <<L!rigid, asked, urbs, num_urbs, reap_status, iso_packet_offset, transferred,
                     results, L!kernel>>
  PROVE  LinuxInv'
<1>0. LinuxTypes /\ Queued /\ Tickets /\ Submitting /\ Floor /\ Convex
  BY DEF LinuxInv
<1>1. PICK to \in 0 .. num_urbs - 1 :
        /\ to \in Nat /\ num_urbs \in Nat /\ to < num_urbs /\ num_urbs =< MaxUrbs
        /\ todo = to + 1 .. num_urbs /\ InLine(0, to)
        /\ L!Min(todo) = to + 1 /\ L!Cardinality(todo) = num_urbs - to
        /\ Flying \cup Reapable = 1 .. to /\ Cardinality(Flying \cup Reapable) = to
  BY SubmittedSoFar
<1>2. /\ UNCHANGED <<kind, continuation, urb, queue, endpoint, sent, buffer>>
      /\ Flying' = Flying /\ Reapable' = Reapable
  BY DEF L!kernel, L!rigid, Flying, Reapable, L!At
<1>3. num_retired = 0 /\ iso_packet_offset = 0 /\ num_retired' = num_urbs - to
  BY <1>0, <1>1 DEF Submitting
<1>4. todo' \in {{}, 1 .. to}
  BY <1>1
<1>5. LinuxTypes'
  <2>1. todo' \subseteq 1 .. num_urbs
    BY <1>1, <1>4
  <2>2. num_retired' \in 0 .. num_urbs /\ iso_packet_offset' \in 0 .. num_retired'
    BY <1>1, <1>3
  <2> QED BY <1>0, <1>2, <2>1, <2>2 DEF LinuxTypes
<1>6. Queued' /\ Tickets' /\ Convex'
  BY <1>0, <1>2 DEF Queued, Tickets, Convex
<1>7. Counted'
  BY <1>1, <1>2, <1>3 DEF Counted
<1>8. Discarding'
  <2> SUFFICES ASSUME todo' # {}
               PROVE  \E lo, hi \in 1 .. num_urbs : lo =< hi /\ todo' = lo .. hi /\ \A i \in Flying : i =< hi
    BY <1>2 DEF Discarding
  <2>1. todo' = 1 .. to /\ 1 =< to /\ 1 \in 1 .. num_urbs /\ to \in 1 .. num_urbs
    BY <1>1, <1>4
  <2>2. \A i \in Flying : i =< to
    BY <1>1
  <2> QED BY <2>1, <2>2
<1>9. Floor'
  BY <1>0, <1>2 DEF Floor
<1>10. /\ Brought' /\ Moved' /\ AfterBad'
       /\ L!FreedWhenReaped' /\ L!ErrorReported' /\ L!IsoInPlace'
  BY <1>2, BackKept DEF L!Results
<1> QED BY <1>5, <1>6, <1>7, <1>8, <1>9, <1>10
        DEF LinuxInv, Submitting, Orderly, Full, Stalled, Early, LinuxAsked

LEMMA FirstFailsInv ==
  ASSUME LinuxInv, L!SubmitFirstFails
  PROVE  LinuxInv'
<1>0. LinuxTypes /\ Queued /\ Tickets /\ Submitting /\ Floor /\ Convex /\ LinuxAsked
  BY DEF LinuxInv
<1>1. /\ phase = "submitting" /\ phase' = "idle" /\ todo' = {} /\ urbs' = FALSE
      /\ UNCHANGED <<L!rigid, asked, num_urbs, num_retired, reap_action, reap_status,
                     iso_packet_offset, transferred, results, L!kernel, refused>>
  BY DEF L!SubmitFirstFails
<1>2. /\ UNCHANGED <<kind, continuation, urb, queue, endpoint, sent, buffer>>
      /\ Flying' = Flying /\ Reapable' = Reapable
  BY <1>1 DEF L!kernel, L!rigid, Flying, Reapable, L!At
<1>3. LinuxTypes'
  BY <1>0, <1>1, <1>2 DEF LinuxTypes
<1>4. Queued' /\ Tickets' /\ Convex' /\ Floor' /\ LinuxAsked'
  BY <1>0, <1>1, <1>2 DEF Queued, Tickets, Convex, Floor, LinuxAsked
<1>5. /\ Brought' /\ Moved' /\ AfterBad'
      /\ L!FreedWhenReaped' /\ L!ErrorReported' /\ L!IsoInPlace'
  BY <1>1, <1>2, BackKept DEF L!Results
<1> QED BY <1>1, <1>3, <1>4, <1>5
        DEF LinuxInv, Submitting, Counted, Discarding, Orderly, Full, Stalled, Early

LEMMA CancelInv ==
  ASSUME LinuxInv, L!Cancel
  PROVE  LinuxInv'
<1>0. LinuxTypes /\ Queued /\ Tickets /\ Floor /\ Convex /\ Counted
  BY DEF LinuxInv
<1>1. /\ phase = "flying" /\ asked' = TRUE /\ todo' = 1 .. num_urbs
      /\ reap_action' \in {"ERROR", "CANCELLED"}
      /\ UNCHANGED <<L!rigid, phase, urbs, num_urbs, num_retired, reap_status,
                     iso_packet_offset, transferred, results, L!kernel, refused>>
  BY DEF L!Cancel
<1>2. /\ UNCHANGED <<kind, continuation, urb, queue, endpoint, sent, buffer>>
      /\ Flying' = Flying /\ Reapable' = Reapable
  BY <1>1 DEF L!kernel, L!rigid, Flying, Reapable, L!At
<1>3. LinuxTypes'
  BY <1>0, <1>1, <1>2 DEF LinuxTypes
<1>4. Queued' /\ Tickets' /\ Convex' /\ Counted' /\ Floor'
  BY <1>0, <1>1, <1>2 DEF Queued, Tickets, Convex, Counted, Floor
<1>5. Discarding'
  <2> SUFFICES ASSUME todo' # {}
               PROVE  \E lo, hi \in 1 .. num_urbs : lo =< hi /\ todo' = lo .. hi /\ \A i \in Flying : i =< hi
    BY <1>1, <1>2 DEF Discarding
  <2>1. num_urbs \in Nat
    BY <1>0, BackendsAssumption DEF LinuxTypes
  <2>2. todo' = 1 .. num_urbs /\ 1 =< num_urbs /\ 1 \in 1 .. num_urbs /\ num_urbs \in 1 .. num_urbs
    BY <1>1, <2>1
  <2>3. \A i \in Flying : i =< num_urbs
    BY <1>0 DEF Tickets, Flying, L!At
  <2> QED BY <2>2, <2>3
<1>6. /\ Brought' /\ Moved' /\ AfterBad'
      /\ L!FreedWhenReaped' /\ L!ErrorReported' /\ L!IsoInPlace'
  BY <1>1, <1>2, BackKept DEF L!Results
<1> QED BY <1>1, <1>3, <1>4, <1>5, <1>6
        DEF LinuxInv, Submitting, Orderly, Full, Stalled, Early, LinuxAsked

LEMMA SubmissionInv ==
  ASSUME LinuxInv, L!Submission
  PROVE  LinuxInv'
<1>1. CASE L!SubmitRefused \/ L!SubmitFails
  BY <1>1, SubmitEndsInv DEF L!SubmitRefused, L!SubmitFails
<1> QED BY <1>1, SubmitUrbInv, FirstFailsInv DEF L!Submission
-----------------------------------------------------------------------------
(* The reaping.                                                            *)
LEMMA ReapedBasics ==
  ASSUME LinuxInv, phase = "flying", queue # <<>>, L!Reaped
  PROVE  /\ Head(queue) = queue[1] /\ queue[1] \in L!Ids /\ queue[1] \in Reapable
         /\ Len(queue) \in Nat /\ Len(queue) > 0 /\ Len(queue') = Len(queue) - 1 /\ queue' \in Seq(L!Ids)
         /\ \A k \in 1 .. Len(queue) - 1 : queue'[k] = queue[k + 1]
         /\ Flying' = Flying /\ Reapable' = Reapable \ {queue[1]}
         /\ urb' \in [L!Ids -> Ticket]
         /\ urb'[queue[1]].at = "reaped"
         /\ \A i \in L!Ids : urb'[i].status = urb[i].status /\ urb'[i].len = urb[i].len
         /\ \A i \in L!Ids : i # queue[1] => urb'[i] = urb[i]
         /\ urb[queue[1]].len \in 0 .. Cap /\ urb[queue[1]].status \in Ended
<1>0. LinuxTypes /\ Queued
  BY DEF LinuxInv
<1>1. /\ Head(queue) = queue[1] /\ 1 \in 1 .. Len(queue) /\ queue[1] \in L!Ids
      /\ Len(queue) \in Nat /\ Len(queue') = Len(queue) - 1 /\ queue' \in Seq(L!Ids)
      /\ \A k \in 1 .. Len(queue') : queue'[k] = queue[k + 1]
  <2>1. queue \in Seq(L!Ids) /\ queue' = Tail(queue)
    BY <1>0 DEF LinuxTypes, L!Reaped
  <2> QED BY <2>1, SeqRest
<1>2. queue[1] \in Reapable /\ urb[queue[1]].at = "reapable"
  BY <1>0, <1>1 DEF Queued, Reapable, L!At
<1>3. urb' = [urb EXCEPT ![queue[1]].at = "reaped"]
  BY <1>1 DEF L!Reaped
<1>4. urb[queue[1]] \in Ticket
  BY <1>0, <1>1 DEF LinuxTypes
<1>5. /\ urb' \in [L!Ids -> Ticket] /\ urb'[queue[1]].at = "reaped"
      /\ \A i \in L!Ids : i # queue[1] => urb'[i] = urb[i]
      /\ urb'[queue[1]].status = urb[queue[1]].status /\ urb'[queue[1]].len = urb[queue[1]].len
  BY <1>0, <1>1, <1>3, <1>4 DEF LinuxTypes, Ticket
<1>6. \A i \in L!Ids : urb'[i].status = urb[i].status /\ urb'[i].len = urb[i].len
  BY <1>5
<1>7. Flying' = Flying /\ Reapable' = Reapable \ {queue[1]}
  BY <1>1, <1>2, <1>5 DEF Flying, Reapable, L!At
<1>8. urb[queue[1]].len \in 0 .. Cap /\ urb[queue[1]].status \in Ended
  BY <1>4 DEF Ticket
<1> QED BY <1>1, <1>2, <1>5, <1>6, <1>7, <1>8

LEMMA ReapedQueue ==
  ASSUME LinuxInv, phase = "flying", queue # <<>>, L!Reaped
  PROVE  /\ Queued' /\ Tickets' /\ Convex'
         /\ num_retired \in Nat /\ num_urbs \in Nat /\ num_retired + 1 \in 1 .. num_urbs
         /\ num_urbs =< MaxUrbs
         /\ num_retired + 1 + Cardinality(Flying' \cup Reapable') = num_urbs
         /\ num_retired + 1 = num_urbs => Flying' \cup Reapable' = {}
<1>0. LinuxTypes /\ Queued /\ Tickets /\ Convex /\ Counted
  BY DEF LinuxInv
<1>1. /\ queue[1] \in L!Ids /\ queue[1] \in Reapable
      /\ Len(queue) \in Nat /\ Len(queue) > 0 /\ Len(queue') = Len(queue) - 1
      /\ \A k \in 1 .. Len(queue) - 1 : queue'[k] = queue[k + 1]
      /\ Flying' = Flying /\ Reapable' = Reapable \ {queue[1]}
      /\ urb'[queue[1]].at = "reaped"
      /\ \A i \in L!Ids : urb'[i].status = urb[i].status /\ urb'[i].len = urb[i].len
      /\ \A i \in L!Ids : i # queue[1] => urb'[i] = urb[i]
  BY ReapedBasics
<1>2. Queued'
  <2>1. ASSUME NEW i \in Reapable' PROVE \E k \in 1 .. Len(queue') : queue'[k] = i
    <3>1. PICK k \in 1 .. Len(queue) : queue[k] = i
      BY <1>0, <1>1 DEF Queued
    <3>2. k # 1
      BY <1>1, <3>1
    <3>3. k - 1 \in 1 .. Len(queue') /\ k - 1 + 1 = k
      BY <1>1, <3>2
    <3> QED BY <1>1, <3>1, <3>3
  <2>2. ASSUME NEW k \in 1 .. Len(queue') PROVE queue'[k] \in Reapable'
    <3>1. k + 1 \in 1 .. Len(queue) /\ 1 \in 1 .. Len(queue) /\ k + 1 # 1
      BY <1>1
    <3> QED BY <1>0, <1>1, <3>1 DEF Queued
  <2>3. ASSUME NEW k \in 1 .. Len(queue'), NEW l \in 1 .. Len(queue'), k # l
        PROVE  queue'[k] # queue'[l]
    <3>1. k + 1 \in 1 .. Len(queue) /\ l + 1 \in 1 .. Len(queue) /\ k + 1 # l + 1
      BY <1>1, <2>3
    <3> QED BY <1>0, <1>1, <3>1 DEF Queued
  <2> QED BY <2>1, <2>2, <2>3 DEF Queued
<1>3. Tickets'
  <2>1. num_urbs' = num_urbs
    BY DEF L!Reaped
  <2>2. urb[queue[1]].at = "reapable"
    BY <1>1 DEF Reapable, L!At
  <2> QED BY <1>0, <1>1, <2>1, <2>2 DEF Tickets
<1>4. Convex'
  BY <1>0, <1>1 DEF Convex
<1>5. /\ num_retired \in Nat /\ num_urbs \in Nat /\ num_urbs =< MaxUrbs
      /\ num_retired + Cardinality(Flying \cup Reapable) = num_urbs
  BY <1>0, BackendsAssumption DEF LinuxTypes, Counted
<1>6. IsFiniteSet(Flying \cup Reapable)
  <2>1. Flying \cup Reapable \subseteq 1 .. MaxUrbs
    BY DEF Flying, Reapable, L!At, L!Ids
  <2>2. IsFiniteSet(1 .. MaxUrbs)
    <3>1. 1 \in Int /\ MaxUrbs \in Int
      BY BackendsAssumption
    <3> QED BY <3>1, FS_Interval
  <2>3. Flying \cup Reapable \in SUBSET (1 .. MaxUrbs)
    BY <2>1
  <2> QED BY <2>2, <2>3, FS_Subset
<1>7. Flying' \cup Reapable' = (Flying \cup Reapable) \ {queue[1]}
  BY <1>1 DEF Flying, Reapable, L!At
<1>8. /\ Cardinality(Flying' \cup Reapable') = Cardinality(Flying \cup Reapable) - 1
      /\ IsFiniteSet(Flying' \cup Reapable')
      /\ Cardinality(Flying \cup Reapable) \in Nat
  <2>1. queue[1] \in Flying \cup Reapable
    BY <1>1
  <2> QED BY <1>6, <1>7, <2>1, FS_RemoveElement, FS_CardinalityType, FS_Subset
<1>9. Cardinality(Flying' \cup Reapable') \in Nat
  BY <1>8, FS_CardinalityType
<1>10. num_retired + 1 + Cardinality(Flying' \cup Reapable') = num_urbs
  BY <1>5, <1>8
<1>11. num_retired + 1 = num_urbs => Flying' \cup Reapable' = {}
  <2> SUFFICES ASSUME num_retired + 1 = num_urbs PROVE Flying' \cup Reapable' = {}
    OBVIOUS
  <2>1. Cardinality(Flying' \cup Reapable') = 0
    BY <1>5, <1>9, <1>10
  <2> QED BY <1>8, <2>1, FS_EmptySet
<1> QED BY <1>2, <1>3, <1>4, <1>5, <1>9, <1>10, <1>11

LEMMA ReapedAfterBad ==
  ASSUME LinuxInv, phase = "flying", queue # <<>>, L!Reaped
  PROVE  AfterBad'
<1>0. Queued /\ AfterBad
  BY DEF LinuxInv
<1>1. /\ Len(queue) \in Nat /\ Len(queue') = Len(queue) - 1
      /\ \A k \in 1 .. Len(queue) - 1 : queue'[k] = queue[k + 1]
      /\ \A i \in L!Ids : urb'[i].status = urb[i].status /\ urb'[i].len = urb[i].len
      /\ UNCHANGED endpoint
  BY ReapedBasics DEF L!Reaped
<1>2. \A k \in 1 .. Len(queue) : queue[k] \in L!Ids
  BY <1>0 DEF Queued, Reapable, L!At
<1> SUFFICES ASSUME NEW k \in 1 .. Len(queue'), urb'[queue'[k]].status \in {"stall", "shutdown"}
             PROVE  endpoint' # "ok" /\ \A l \in k + 1 .. Len(queue') : urb'[queue'[l]].len = 0
  BY DEF AfterBad
<1>3. k + 1 \in 1 .. Len(queue) /\ k \in 1 .. Len(queue) - 1
  BY <1>1
<1>4. endpoint # "ok" /\ \A l \in k + 2 .. Len(queue) : urb[queue[l]].len = 0
  <2>1. urb[queue[k + 1]].status \in {"stall", "shutdown"}
    BY <1>1, <1>2, <1>3
  <2>2. k + 1 + 1 = k + 2
    BY <1>1
  <2> QED BY <1>0, <1>3, <2>1, <2>2 DEF AfterBad
<1>5. ASSUME NEW l \in k + 1 .. Len(queue') PROVE urb'[queue'[l]].len = 0
  <2>1. l + 1 \in k + 2 .. Len(queue) /\ l + 1 \in 1 .. Len(queue) /\ l \in 1 .. Len(queue) - 1
    BY <1>1
  <2> QED BY <1>1, <1>2, <1>4, <2>1
<1> QED BY <1>1, <1>4, <1>5

(* The next run of the queue is counted.                                   *)
LEMMA ReapedBrought ==
  ASSUME LinuxInv, phase = "flying", queue # <<>>, L!Reaped, kind # "iso",
         transferred' = transferred + urb[Head(queue)].len, NEW s, Runs(s),
         phase' # "submitting",
         \A k \in 2 .. Len(queue) : \A p \in 1 .. urb[queue[k]].len :
           buffer'[L!Offset(queue[k]) + p] = buffer[L!Offset(queue[k]) + p]
  PROVE  (\E r : Runs(r)') /\ Brought' /\ Floor' /\ AfterBad'
<1>0. LinuxTypes /\ Queued /\ Floor /\ AfterBad
  BY DEF LinuxInv
<1>1. /\ Head(queue) = queue[1] /\ queue[1] \in L!Ids
      /\ Len(queue) \in Nat /\ Len(queue) > 0 /\ Len(queue') = Len(queue) - 1
      /\ \A k \in 1 .. Len(queue) - 1 : queue'[k] = queue[k + 1]
      /\ Flying' = Flying
      /\ \A i \in L!Ids : urb'[i].status = urb[i].status /\ urb'[i].len = urb[i].len
      /\ UNCHANGED <<kind, num_urbs, endpoint, sent>>
  BY ReapedBasics DEF L!Reaped, L!rigid
<1>2. \A k \in 1 .. Len(queue) : queue[k] \in L!Ids
  BY <1>0 DEF Queued, Reapable, L!At
<1>3. /\ s \in [1 .. Len(queue) + 1 -> Nat] /\ s[1] = transferred /\ s[Len(queue) + 1] = sent
      /\ \A k, l \in 1 .. Len(queue) + 1 : k =< l => s[k] =< s[l]
      /\ \A k \in 1 .. Len(queue) :
           /\ s[k + 1] = s[k] + urb[queue[k]].len
           /\ urb[queue[k]].len > 0 => s[k] =< L!Offset(queue[k])
           /\ \A p \in 1 .. urb[queue[k]].len : buffer[L!Offset(queue[k]) + p] = s[k] + p
  BY DEF Runs
<1>4. transferred' = s[2] /\ s[2] =< sent /\ s[2] \in Nat /\ 2 \in 1 .. Len(queue) + 1
  <2>1. 1 \in 1 .. Len(queue) /\ 2 \in 1 .. Len(queue) + 1 /\ Len(queue) + 1 \in 1 .. Len(queue) + 1
    BY <1>1
  <2>2. s[2] = s[1] + urb[queue[1]].len
    BY <1>3, <2>1
  <2> QED BY <1>1, <1>3, <2>1, <2>2
<1> PICK r : r = [k \in 1 .. Len(queue) |-> s[k + 1]]
  OBVIOUS
<1>5. /\ \A k \in 1 .. Len(queue) : k + 1 \in 1 .. Len(queue) + 1 /\ r[k] = s[k + 1]
      /\ r \in [1 .. Len(queue) -> Nat]
  BY <1>1, <1>3
<1>6. ASSUME NEW k \in 1 .. Len(queue')
      PROVE  /\ r[k + 1] = r[k] + urb'[queue'[k]].len
             /\ urb'[queue'[k]].len > 0 => r[k] =< L!Offset(queue'[k])
             /\ \A p \in 1 .. urb'[queue'[k]].len : buffer'[L!Offset(queue'[k]) + p] = r[k] + p
  <2>1. k + 1 \in 2 .. Len(queue) /\ k + 1 \in 1 .. Len(queue) /\ k \in 1 .. Len(queue) /\ k \in 1 .. Len(queue) - 1
    BY <1>1
  <2>2. /\ queue'[k] = queue[k + 1] /\ urb'[queue[k + 1]].len = urb[queue[k + 1]].len
        /\ r[k] = s[k + 1] /\ r[k + 1] = s[k + 1 + 1]
    BY <1>1, <1>2, <1>5, <2>1
  <2>3. PICK l \in 1 .. Len(queue) : l = k + 1
    BY <2>1
  <2>4. /\ s[l + 1] = s[l] + urb[queue[l]].len
        /\ urb[queue[l]].len > 0 => s[l] =< L!Offset(queue[l])
        /\ \A p \in 1 .. urb[queue[l]].len : buffer[L!Offset(queue[l]) + p] = s[l] + p
    BY <1>3
  <2>5. /\ queue'[k] = queue[l] /\ urb'[queue'[k]].len = urb[queue[l]].len
        /\ r[k] = s[l] /\ r[k + 1] = s[l + 1]
    BY <2>2, <2>3
  <2>6. l \in 2 .. Len(queue)
    BY <2>1, <2>3
  <2>7. \A p \in 1 .. urb[queue[l]].len :
          buffer'[L!Offset(queue[l]) + p] = buffer[L!Offset(queue[l]) + p]
    BY <2>6
  <2>8. ASSUME NEW p \in 1 .. urb'[queue'[k]].len
        PROVE  buffer'[L!Offset(queue'[k]) + p] = r[k] + p
    <3>1. p \in 1 .. urb[queue[l]].len
      BY <2>5
    <3>2. buffer'[L!Offset(queue[l]) + p] = s[l] + p
      BY <2>4, <2>7, <3>1
    <3> QED BY <2>5, <3>2
  <2> QED BY <2>4, <2>5, <2>8
<1>7. /\ r \in [1 .. Len(queue') + 1 -> Nat] /\ r[1] = transferred' /\ r[Len(queue') + 1] = sent'
      /\ \A k, l \in 1 .. Len(queue') + 1 : k =< l => r[k] =< r[l]
  <2>1. Len(queue') + 1 = Len(queue) /\ 1 \in 1 .. Len(queue) /\ Len(queue) \in 1 .. Len(queue)
    BY <1>1
  <2>2. r \in [1 .. Len(queue') + 1 -> Nat]
    BY <1>5, <2>1
  <2>3. r[1] = transferred'
    <3>1. 1 + 1 = 2
      OBVIOUS
    <3> QED BY <1>4, <1>5, <2>1, <3>1
  <2>4. r[Len(queue') + 1] = sent'
    BY <1>1, <1>3, <1>5, <2>1
  <2>5. ASSUME NEW k \in 1 .. Len(queue') + 1, NEW l \in 1 .. Len(queue') + 1, k =< l
        PROVE  r[k] =< r[l]
    <3>1. k \in 1 .. Len(queue) /\ l \in 1 .. Len(queue) /\ k + 1 =< l + 1
      BY <1>1, <2>1, <2>5
    <3> QED BY <1>3, <1>5, <3>1
  <2> QED BY <2>2, <2>3, <2>4, <2>5
<1>8. Runs(r)'
  BY <1>6, <1>7 DEF Runs
<1>9. Floor'
  BY <1>0, <1>1, <1>4 DEF Floor
<1>10. AfterBad'
  BY ReapedAfterBad
<1> QED BY <1>8, <1>9, <1>10 DEF Brought

LEMMA InLineReaped ==
  ASSUME LinuxInv, phase = "flying", queue # <<>>, L!Reaped, NEW from, NEW to, InLine(from, to)
  PROVE  InLine(from + 1, to)' /\ queue[1] = from + 1
<1>1. /\ Len(queue) \in Nat /\ Len(queue) > 0 /\ Len(queue') = Len(queue) - 1
      /\ \A k \in 1 .. Len(queue) - 1 : queue'[k] = queue[k + 1]
      /\ Flying' = Flying
  BY ReapedBasics
<1>2. /\ from \in Nat /\ to \in Nat /\ from + Len(queue) =< to
      /\ \A k \in 1 .. Len(queue) : queue[k] = from + k
      /\ Flying = from + Len(queue) + 1 .. to
  BY DEF InLine
<1>3. from + 1 + Len(queue') = from + Len(queue)
  BY <1>1, <1>2
<1>4. ASSUME NEW k \in 1 .. Len(queue') PROVE queue'[k] = from + 1 + k
  <2>1. k + 1 \in 1 .. Len(queue) /\ k \in 1 .. Len(queue) - 1
    BY <1>1
  <2> QED BY <1>1, <1>2, <2>1
<1> QED BY <1>1, <1>2, <1>3, <1>4 DEF InLine

LEMMA ReapNormalInv ==
  ASSUME LinuxInv, L!ReapNormal
  PROVE  LinuxInv' /\ (phase' = phase \/ phase' \in L!Results \ {"CANCELLED"})
<1>0. LinuxTypes /\ Queued /\ Tickets /\ Orderly /\ Full /\ Stalled /\ AfterBad /\ Moved
  BY DEF LinuxInv
<1>1. /\ phase = "flying" /\ queue # <<>> /\ kind = "bulk" /\ todo = {} /\ reap_action = "NORMAL"
      /\ L!Reaped /\ num_retired' = num_retired + 1
  BY DEF L!ReapNormal, L!Reapable, L!Locked
<1> PICK i, status, len : i = queue[1] /\ status = urb[i].status /\ len = urb[i].len
  OBVIOUS
<1>2. /\ Head(queue) = i /\ i \in L!Ids /\ i \in Reapable
      /\ Len(queue) \in Nat /\ Len(queue) > 0 /\ Len(queue') = Len(queue) - 1 /\ queue' \in Seq(L!Ids)
      /\ \A k \in 1 .. Len(queue) - 1 : queue'[k] = queue[k + 1]
      /\ Flying' = Flying /\ Reapable' = Reapable \ {i}
      /\ urb' \in [L!Ids -> Ticket] /\ urb'[i].at = "reaped"
      /\ \A j \in L!Ids : urb'[j].status = urb[j].status /\ urb'[j].len = urb[j].len
      /\ \A j \in L!Ids : j # i => urb'[j] = urb[j]
      /\ len \in 0 .. Cap /\ status \in Ended
  BY <1>1, ReapedBasics
<1>3. /\ Queued' /\ Tickets' /\ Convex'
      /\ num_retired \in Nat /\ num_urbs \in Nat /\ num_retired + 1 \in 1 .. num_urbs
      /\ num_urbs =< MaxUrbs
      /\ num_retired + 1 + Cardinality(Flying' \cup Reapable') = num_urbs
      /\ num_retired + 1 = num_urbs => Flying' \cup Reapable' = {}
  BY <1>1, ReapedQueue
<1>4. UNCHANGED <<kind, continuation, asked, num_urbs, endpoint, sent, refused, iso_packet_offset,
                  results, buffer>>
  BY <1>1 DEF L!ReapNormal, L!Reaped, L!rigid
<1> DEFINE failed == status \in {"shutdown", "stall", "error"}
           last == status = "overflow" \/ (~failed /\ i = num_urbs)
                     \/ (failed /\ num_retired + 1 = num_urbs)
           early == failed \/ len < Cap
           over == last \/ (early /\ num_retired + 1 = num_urbs)
<1>5. /\ transferred' = transferred + len
      /\ reap_status' = CASE status = "shutdown" -> "NO_DEVICE"
                          [] reap_status # "COMPLETED" -> reap_status
                          [] status = "stall" -> "STALL"
                          [] status = "overflow" -> "OVERFLOW"
                          [] status = "error" -> "ERROR"
                          [] OTHER -> reap_status
      /\ reap_action' = CASE status = "error" -> "ERROR"
                          [] ~failed /\ ~last /\ early -> "COMPLETED_EARLY"
                          [] OTHER -> "NORMAL"
      /\ IF over THEN L!Report(reap_status') /\ UNCHANGED todo
                 ELSE /\ todo' = IF early THEN {j \in i + 1 .. num_urbs : ~L!Continued(j)} ELSE {}
                      /\ L!Wait
  BY <1>2 DEF L!ReapNormal
<1>6. /\ reap_status' \in L!Results \ {"CANCELLED"}
      /\ reap_action' \in {"NORMAL", "ERROR", "COMPLETED_EARLY"}
      /\ reap_status' = "COMPLETED" =>
           reap_status = "COMPLETED" /\ status \in {"ok", "short", "cancelled"}
      /\ reap_action' = "NORMAL" => status # "error" /\ (failed \/ last \/ ~early)
      /\ reap_action' = "COMPLETED_EARLY" => ~failed /\ ~last /\ early
      /\ reap_status' # "COMPLETED" =>
           reap_status # "COMPLETED" \/ status \in {"shutdown", "stall", "overflow", "error"}
  BY <1>0, <1>2, <1>5 DEF LinuxTypes, L!Results, Ended
<1>7. /\ over => urbs' = FALSE /\ phase' = reap_status' /\ todo' = {}
      /\ ~over => urbs' = urbs /\ phase' = "flying"
                  /\ todo' = IF early THEN {j \in i + 1 .. num_urbs : ~L!Continued(j)} ELSE {}
  BY <1>1, <1>5 DEF L!Report, L!Wait
<1>8. /\ status = "ok" => len = Cap
      /\ len = Cap => status \in {"ok", "overflow"}
      /\ status = "overflow" => i = num_urbs
      /\ i =< num_urbs
      /\ Cap \in Nat /\ i \in Nat \ {0}
      /\ urb[i].at = "reapable"
  <2>1. urb[i].at = "reapable"
    BY <1>2 DEF Reapable, L!At
  <2> QED BY <1>0, <1>2, <2>1, BackendsAssumption DEF Tickets, L!Ids
<1>9. phase' # "submitting" /\ phase' # "idle" /\ phase' \in {"flying"} \cup L!Results
  BY <1>6, <1>7 DEF L!Results
<1> HIDE DEF over
<1>10. reap_status = "COMPLETED" \/ continuation =>
         i = num_retired + 1 /\ InLine(num_retired, num_urbs)'
  <2> SUFFICES ASSUME reap_status = "COMPLETED" \/ continuation
               PROVE  i = num_retired + 1 /\ InLine(num_retired, num_urbs)'
    OBVIOUS
  <2>1. InLine(num_retired, num_urbs)
    BY <1>0, <1>1 DEF Orderly
  <2>2. PICK from, to : from = num_retired /\ to = num_urbs
    OBVIOUS
  <2>3. InLine(from + 1, to)' /\ queue[1] = from + 1
    BY <1>1, <2>1, <2>2, InLineReaped
  <2>4. from + 1 = num_retired' /\ to = num_urbs'
    BY <1>1, <1>4, <2>2
  <2> QED BY <1>4, <2>2, <2>3, <2>4 DEF InLine

<1>11. reap_status = "COMPLETED" =>
         /\ \A j \in 1 .. num_retired : urb[j].at = "reaped" /\ urb[j].status = "ok"
         /\ transferred = L!Offset(i) /\ i = num_retired + 1
  BY <1>0, <1>1, <1>10 DEF Full
<1>12. LinuxTypes'
  <2>1. todo' \subseteq 1 .. num_urbs
    BY <1>2, <1>7, <1>8
  <2>2. num_retired' \in 0 .. num_urbs /\ iso_packet_offset' \in 0 .. num_retired'
    BY <1>0, <1>1, <1>3, <1>4 DEF LinuxTypes
  <2>3. urbs' \in BOOLEAN
    BY <1>0, <1>7 DEF LinuxTypes
  <2> QED BY <1>0, <1>1, <1>2, <1>4, <1>6, <1>9, <2>1, <2>2, <2>3 DEF LinuxTypes
<1>13. PICK s : Runs(s)
  BY <1>1 DEF LinuxInv, Brought
<1>14. Brought' /\ Floor' /\ AfterBad'
  BY <1>1, <1>2, <1>4, <1>5, <1>9, <1>13, ReapedBrought
<1>15. Moved'
  <2> SUFFICES ASSUME NEW p \in 1 .. transferred' PROVE buffer[p] = p
    BY <1>4 DEF Moved
  <2>1. transferred \in Nat
    BY DEF LinuxInv, Floor
  <2>2. CASE p =< transferred
    BY <1>0, <1>1, <2>1, <2>2 DEF Moved
  <2>3. CASE p > transferred
    <3>1. p - transferred \in 1 .. len /\ len > 0
      BY <1>2, <1>5, <2>1, <2>3
    <3>2. reap_status = "COMPLETED"
      BY <1>0, <1>1, <1>2, <3>1 DEF Stalled
    <3>3. 1 \in 1 .. Len(queue) /\ s[1] = transferred
      BY <1>2, <1>13 DEF Runs
    <3>4. buffer[L!Offset(i) + (p - transferred)] = transferred + (p - transferred)
      BY <1>13, <3>1, <3>3 DEF Runs
    <3>5. L!Offset(i) + (p - transferred) = p /\ transferred + (p - transferred) = p
      BY <1>11, <2>1, <3>2
    <3> QED BY <3>4, <3>5
  <2> QED BY <2>1, <2>2, <2>3
<1>16. L!FreedWhenReaped'
  <2> SUFFICES ASSUME continuation, phase' \in L!Results PROVE Flying' \cup Reapable' = {}
    BY <1>4 DEF L!FreedWhenReaped, L!AllReaped, Flying, Reapable
  <2>1. over
    BY <1>7 DEF L!Results
  <2>2. i = num_retired + 1
    BY <1>10
  <2> QED BY <1>3, <1>8, <2>1, <2>2 DEF over
<1>17. L!ErrorReported'
  <2> SUFFICES ASSUME phase' = "COMPLETED", NEW b \in L!FirstBad'
               PROVE  urb'[b].status \in {"short", "cancelled"}
    BY DEF L!ErrorReported
  <2>1. over /\ reap_status' = "COMPLETED"
    BY <1>7
  <2>2. reap_status = "COMPLETED" /\ status \in {"ok", "short", "cancelled"}
    BY <1>6, <2>1
  <2>3. i = num_urbs /\ i = num_retired + 1
    BY <1>11, <2>1, <2>2 DEF over
  <2>4. b \in L!Ids /\ urb'[b].status # "ok" /\ urb'[b].status = urb[b].status
    BY <1>2 DEF L!FirstBad
  <2>5. urb[b].at \in {"none", "flying", "reapable", "reaped"}
    BY <1>0, <2>4 DEF LinuxTypes, Ticket
  <2>6. urb[b].at # "none"
    BY <1>0, <2>4, <2>5 DEF Tickets
  <2>7. b =< num_urbs /\ b \in Nat \ {0}
    BY <1>0, <2>4, <2>6, BackendsAssumption DEF Tickets, L!Ids
  <2>8. CASE b = i
    BY <2>2, <2>4, <2>8
  <2>9. CASE b # i
    <3>1. b \in 1 .. num_retired
      BY <1>3, <2>3, <2>7, <2>9
    <3> QED BY <1>11, <2>2, <2>4, <3>1
  <2> QED BY <2>8, <2>9
<1>18. Full'
  <2> SUFFICES ASSUME phase' = "flying", reap_action' = "NORMAL", reap_status' = "COMPLETED"
               PROVE  /\ \A j \in 1 .. num_retired' : urb'[j].at = "reaped"
                      /\ \A j \in 1 .. num_retired' : urb'[j].status = "ok"
                      /\ transferred' = L!Offset(num_retired' + 1)
    BY <1>1, <1>4 DEF Full
  <2>1. ~over /\ reap_status = "COMPLETED" /\ status \in {"ok", "short", "cancelled"}
    BY <1>6, <1>7 DEF L!Results
  <2>2. ~early /\ ~failed
    BY <1>6, <2>1 DEF over
  <2>3. len = Cap /\ status = "ok"
    BY <1>2, <1>8, <2>1, <2>2
  <2>4. i = num_retired + 1 /\ transferred = L!Offset(i)
    BY <1>11, <2>1
  <2>5. transferred' = L!Offset(num_retired' + 1)
    BY <1>1, <1>5, <1>8, <2>3, <2>4, Offsets
  <2>6. ASSUME NEW j \in 1 .. num_retired' PROVE urb'[j].at = "reaped" /\ urb'[j].status = "ok"
    <3>1. j \in L!Ids
      BY <1>1, <1>3, BackendsAssumption DEF L!Ids
    <3>2. CASE j = i
      BY <1>2, <2>3, <3>1, <3>2
    <3>3. CASE j # i
      <4>1. j \in 1 .. num_retired
        BY <1>1, <1>3, <2>4, <3>3
      <4> QED BY <1>2, <1>11, <2>1, <3>1, <3>3, <4>1
    <3> QED BY <3>2, <3>3
  <2> QED BY <2>5, <2>6
<1>19. Orderly'
  <2> SUFFICES ASSUME phase' = "flying", reap_action' = "NORMAL",
                      reap_status' = "COMPLETED" \/ continuation
               PROVE  todo' = {} /\ InLine(num_retired, num_urbs)'
    BY <1>4 DEF Orderly
  <2>1. ~over
    BY <1>6, <1>7 DEF L!Results
  <2>2. CASE continuation
    <3>1. \A j \in i + 1 .. num_urbs : L!Continued(j)
      BY <1>1, <1>3, <1>8, <2>2 DEF L!Continued
    <3> QED BY <1>7, <1>10, <2>1, <2>2, <3>1
  <2>3. CASE reap_status' = "COMPLETED"
    <3>1. reap_status = "COMPLETED" /\ ~early
      BY <1>6, <2>1, <2>3 DEF over
    <3> QED BY <1>7, <1>10, <2>1, <3>1
  <2> QED BY <2>2, <2>3
<1>20. Stalled'
  <2> SUFFICES ASSUME phase' = "flying", reap_action' = "NORMAL", reap_status' # "COMPLETED"
               PROVE  endpoint # "ok" /\ \A j \in Reapable' : urb'[j].len = 0
    BY <1>4 DEF Stalled
  <2>1. Reapable' \subseteq Reapable /\ Reapable' \subseteq L!Ids
    BY <1>2 DEF Reapable, L!At
  <2>2. CASE reap_status # "COMPLETED"
    BY <1>0, <1>1, <1>2, <2>1, <2>2 DEF Stalled
  <2>3. CASE reap_status = "COMPLETED"
    <3>1. ~over
      BY <1>6, <1>7 DEF L!Results
    <3>2. status \in {"stall", "shutdown"}
      BY <1>6, <2>3, <3>1 DEF over
    <3>3. 1 \in 1 .. Len(queue)
      BY <1>2
    <3>4. endpoint # "ok" /\ \A l \in 1 + 1 .. Len(queue) : urb[queue[l]].len = 0
      BY <1>0, <3>2, <3>3 DEF AfterBad
    <3>5. ASSUME NEW j \in Reapable' PROVE urb'[j].len = 0
      <4>1. PICK k \in 1 .. Len(queue) : queue[k] = j
        BY <1>0, <2>1 DEF Queued
      <4>2. k # 1
        BY <1>2, <4>1
      <4>3. k \in 1 + 1 .. Len(queue)
        BY <1>2, <4>2
      <4> QED BY <1>2, <2>1, <3>4, <4>1, <4>3
    <3> QED BY <3>4, <3>5
  <2> QED BY <2>2, <2>3
<1>21. Early'
  <2> SUFFICES ASSUME phase' = "flying", reap_action' = "COMPLETED_EARLY", reap_status' = "COMPLETED"
               PROVE  /\ i \in L!Ids /\ urb'[i].at = "reaped" /\ urb'[i].status \in {"short", "cancelled"}
                      /\ \A j \in 1 .. i - 1 : urb'[j].at = "reaped" /\ urb'[j].status = "ok"
    BY DEF Early
  <2>1. reap_status = "COMPLETED" /\ status \in {"ok", "short", "cancelled"} /\ ~failed /\ ~last /\ early
    BY <1>6
  <2>2. status \in {"short", "cancelled"}
    BY <1>2, <1>8, <2>1
  <2>3. ASSUME NEW j \in 1 .. i - 1 PROVE urb'[j].at = "reaped" /\ urb'[j].status = "ok"
    <3>1. j \in 1 .. num_retired /\ j # i /\ j \in L!Ids
      BY <1>2, <1>3, <1>8, <1>11, <2>1, BackendsAssumption DEF L!Ids
    <3> QED BY <1>2, <1>11, <2>1, <3>1
  <2> QED BY <1>2, <2>2, <2>3
<1>22. Discarding'
  <2> SUFFICES ASSUME todo' # {}
               PROVE  /\ phase' = "flying"
                      /\ \E lo, hi \in 1 .. num_urbs :
                           lo =< hi /\ todo' = lo .. hi /\ \A j \in Flying' : j =< hi
    BY <1>4 DEF Discarding
  <2>1. ~over /\ phase' = "flying" /\ todo' = {j \in i + 1 .. num_urbs : ~L!Continued(j)}
    BY <1>7
  <2>2. ~continuation
    BY <1>1, <1>8, <2>1 DEF L!Continued
  <2>3. todo' = i + 1 .. num_urbs
    BY <2>1, <2>2 DEF L!Continued
  <2>4. i + 1 \in 1 .. num_urbs /\ num_urbs \in 1 .. num_urbs
    BY <1>3, <1>8, <2>3
  <2>5. ASSUME NEW j \in Flying' PROVE j =< num_urbs
    <3>1. j \in L!Ids /\ urb[j].at = "flying"
      BY <1>2 DEF Flying, L!At
    <3> QED BY <1>0, <3>1 DEF Tickets
  <2> QED BY <1>3, <1>8, <2>1, <2>3, <2>4, <2>5
<1>23. Submitting' /\ Counted' /\ LinuxAsked' /\ L!IsoInPlace'
  <2>1. Counted'
    BY <1>1, <1>3, <1>4 DEF Counted
  <2>2. reap_action' # "CANCELLED"
    BY <1>6
  <2> QED BY <1>1, <1>4, <1>9, <2>1, <2>2 DEF Submitting, LinuxAsked, L!IsoInPlace
<1>24. phase' = phase \/ phase' \in L!Results \ {"CANCELLED"}
  BY <1>1, <1>6, <1>7
<1> QED BY <1>3, <1>12, <1>14, <1>15, <1>16, <1>17, <1>18, <1>19, <1>20, <1>21, <1>22, <1>23, <1>24
        DEF LinuxInv

(* Places of the buffer.                                                   *)
LEMMA Places ==
  ASSUME NEW i \in L!Ids, NEW p \in 1 .. Cap
  PROVE  L!Offset(i) \in Nat /\ L!Offset(i) + p \in 1 .. L!Offset(MaxUrbs + 1)
<1>1. /\ i \in Nat \ {0} /\ i + 1 \in Nat \ {0} /\ i < MaxUrbs + 1
      /\ MaxUrbs + 1 \in Nat \ {0} /\ Cap \in Nat
  BY BackendsAssumption DEF L!Ids
<1>2. L!Offset(i) \in Nat /\ L!Offset(MaxUrbs + 1) \in Nat
      /\ L!Offset(i) + Cap =< L!Offset(MaxUrbs + 1)
  BY <1>1, Offsets
<1> HIDE DEF L!Offset
<1> QED BY <1>1, <1>2

(* What is moved up comes to the end of what was counted, and nothing that *)
(* is still to be counted is overwritten.                                  *)
LEMMA MovedUp ==
  ASSUME LinuxInv, phase = "flying", queue # <<>>, kind = "bulk", NEW s, Runs(s), L!Reaped,
         transferred' = transferred + urb[Head(queue)].len, L!MoveUp(queue[1])
  PROVE  /\ buffer' \in [1 .. L!Offset(MaxUrbs + 1) -> Nat]
         /\ Moved'
         /\ \A k \in 2 .. Len(queue) : \A p \in 1 .. urb[queue[k]].len :
              buffer'[L!Offset(queue[k]) + p] = buffer[L!Offset(queue[k]) + p]
<1>0. LinuxTypes /\ Queued /\ Floor /\ Moved
  BY DEF LinuxInv
<1> PICK i, len : i = queue[1] /\ len = urb[i].len
  OBVIOUS
<1>1. /\ Head(queue) = i /\ i \in L!Ids /\ Len(queue) \in Nat /\ Len(queue) > 0 /\ len \in 0 .. Cap
      /\ 1 \in 1 .. Len(queue) /\ 1 \in 1 .. Len(queue) + 1 /\ 2 \in 1 .. Len(queue) + 1
      /\ Len(queue) + 1 \in 1 .. Len(queue) + 1
  <2>1. /\ Head(queue) = i /\ i \in L!Ids /\ Len(queue) \in Nat /\ Len(queue) > 0 /\ len \in 0 .. Cap
    BY ReapedBasics
  <2> QED BY <2>1
<1>2. \A k \in 1 .. Len(queue) : queue[k] \in L!Ids /\ urb[queue[k]].len \in 0 .. Cap
  BY <1>0 DEF Queued, Reapable, L!At, LinuxTypes, Ticket
<1>3. /\ s \in [1 .. Len(queue) + 1 -> Nat] /\ s[1] = transferred /\ s[Len(queue) + 1] = sent
      /\ \A k, l \in 1 .. Len(queue) + 1 : k =< l => s[k] =< s[l]
      /\ \A k \in 1 .. Len(queue) :
           /\ s[k + 1] = s[k] + urb[queue[k]].len
           /\ urb[queue[k]].len > 0 => s[k] =< L!Offset(queue[k])
           /\ \A p \in 1 .. urb[queue[k]].len : buffer[L!Offset(queue[k]) + p] = s[k] + p
  BY DEF Runs
<1>4. /\ transferred \in Nat /\ transferred' = transferred + len /\ s[2] = transferred + len
      /\ s[2] =< sent /\ sent \in Nat /\ (len > 0 => transferred =< L!Offset(i))
      /\ \A p \in 1 .. len : buffer[L!Offset(i) + p] = transferred + p
  <2>1. s[1 + 1] = s[1] + len
    BY <1>1, <1>3
  <2> QED BY <1>0, <1>1, <1>3, <2>1 DEF Floor
<1>5. Cap \in Nat
  BY BackendsAssumption
<1> DEFINE B == 1 .. L!Offset(MaxUrbs + 1)
           M == transferred + 1 .. transferred + len
<1>6. /\ buffer \in [B -> Nat] /\ L!Offset(i) \in Nat
      /\ \A p \in 1 .. len : L!Offset(i) + p \in B
  <2>1. \A p \in 1 .. Cap : L!Offset(i) \in Nat /\ L!Offset(i) + p \in B
    BY <1>1, Places
  <2>2. 1 \in 1 .. Cap
    BY BackendsAssumption
  <2>3. \A p \in 1 .. len : p \in 1 .. Cap
    BY <1>1, <1>5
  <2>4. buffer \in [B -> Nat]
    BY <1>0 DEF LinuxTypes
  <2> HIDE DEF B
  <2> QED BY <2>1, <2>2, <2>3, <2>4
<1>7. \A p \in B : buffer'[p] = IF p \in M THEN buffer[L!Offset(i) + p - transferred] ELSE buffer[p]
  BY <1>6 DEF L!MoveUp
<1>8. DOMAIN buffer' = B /\ buffer' = [p \in B |-> buffer'[p]]
  BY <1>6 DEF L!MoveUp
<1> HIDE DEF B
<1>9. ASSUME NEW p \in M PROVE buffer[L!Offset(i) + p - transferred] = p
  <2>1. p - transferred \in 1 .. len
    BY <1>1, <1>4, <1>5
  <2>2. L!Offset(i) + p - transferred = L!Offset(i) + (p - transferred)
        /\ transferred + (p - transferred) = p
    BY <1>4, <1>6
  <2> QED BY <1>4, <2>1, <2>2
<1>10. buffer' \in [B -> Nat]
  <2>1. ASSUME NEW p \in B PROVE buffer'[p] \in Nat
    <3>1. CASE p \in M
      <4>1. p \in Nat
        BY <1>1, <1>4, <3>1
      <4> QED BY <1>7, <1>9, <3>1, <4>1
    <3>2. CASE p \notin M
      BY <1>6, <1>7, <3>2
    <3> QED BY <3>1, <3>2
  <2> QED BY <1>8, <2>1
<1>11. Moved'
  <2> SUFFICES ASSUME NEW p \in 1 .. transferred' PROVE buffer'[p] = p
    BY DEF Moved
  <2>1. p \in B
    <3>1. num_urbs \in Nat /\ num_urbs =< MaxUrbs /\ MaxUrbs \in Nat
      BY <1>0, BackendsAssumption DEF LinuxTypes
    <3>2. L!Offset(num_urbs + 1) =< L!Offset(MaxUrbs + 1)
          /\ L!Offset(num_urbs + 1) \in Nat /\ L!Offset(MaxUrbs + 1) \in Nat
      <4>1. L!Offset(num_urbs + 1) \in Nat /\ L!Offset(MaxUrbs + 1) \in Nat
        BY <3>1, Offsets
      <4>2. CASE num_urbs = MaxUrbs
        BY <4>1, <4>2
      <4>3. CASE num_urbs # MaxUrbs
        <5>1. num_urbs + 1 \in Nat \ {0} /\ MaxUrbs + 1 \in Nat \ {0} /\ num_urbs + 1 < MaxUrbs + 1
          BY <3>1, <4>3
        <5>2. L!Offset(num_urbs + 1) + Cap =< L!Offset(MaxUrbs + 1)
          BY <5>1, Offsets
        <5> QED BY <1>5, <4>1, <5>2
      <4> QED BY <4>2, <4>3
    <3>3. sent =< L!Offset(num_urbs + 1)
      BY <1>0 DEF Floor
    <3> QED BY <1>4, <3>2, <3>3 DEF B
  <2>2. CASE p \in M
    BY <1>7, <1>9, <2>1, <2>2
  <2>3. CASE p \notin M
    <3>1. p \in 1 .. transferred
      BY <1>1, <1>4, <1>5, <2>3
    <3> QED BY <1>0, <1>7, <2>1, <2>3, <3>1 DEF Moved
  <2> QED BY <2>2, <2>3
<1>12. ASSUME NEW k \in 2 .. Len(queue), NEW p \in 1 .. urb[queue[k]].len
       PROVE  buffer'[L!Offset(queue[k]) + p] = buffer[L!Offset(queue[k]) + p]
  <2>1. k \in 1 .. Len(queue) /\ k \in 1 .. Len(queue) + 1
    BY <1>1
  <2>2. queue[k] \in L!Ids /\ p \in 1 .. Cap /\ urb[queue[k]].len > 0
    BY <1>2, <1>5, <2>1
  <2>3. L!Offset(queue[k]) \in Nat /\ L!Offset(queue[k]) + p \in B
    BY <2>2, Places DEF B
  <2>4. s[k] =< L!Offset(queue[k])
    BY <1>3, <2>1, <2>2
  <2>5. s[2] =< s[k] /\ s[2] \in Nat /\ s[k] \in Nat
    <3>1. 2 =< k
      OBVIOUS
    <3> QED BY <1>1, <1>3, <2>1, <3>1
  <2>6. p \in Nat /\ p > 0
    BY <1>5, <2>2
  <2>7. L!Offset(queue[k]) + p > transferred + len
    <3> PICK a, b, c : a = s[2] /\ b = s[k] /\ c = L!Offset(queue[k])
      OBVIOUS
    <3>1. a \in Nat /\ b \in Nat /\ c \in Nat /\ a =< b /\ b =< c
      BY <2>3, <2>4, <2>5
    <3>2. c + p > a
      BY <2>6, <3>1
    <3> QED BY <1>4, <3>2
  <2>8. L!Offset(queue[k]) + p \notin M
    BY <1>1, <1>4, <1>5, <2>3, <2>6, <2>7
  <2> QED BY <1>7, <2>3, <2>8
<1> QED BY <1>10, <1>11, <1>12 DEF B

LEMMA ReapAbnormalInv ==
  ASSUME LinuxInv, L!ReapAbnormal
  PROVE  /\ LinuxInv'
         /\ \/ phase' = phase
            \/ phase' \in L!Results /\ (phase' = "CANCELLED" => asked)
<1>0. LinuxTypes /\ Queued /\ Early /\ LinuxAsked
  BY DEF LinuxInv
<1>1. /\ phase = "flying" /\ queue # <<>> /\ kind = "bulk" /\ todo = {} /\ reap_action # "NORMAL"
      /\ L!Reaped /\ num_retired' = num_retired + 1
  BY DEF L!ReapAbnormal, L!Reapable, L!Locked
<1> PICK i : i = queue[1]
  OBVIOUS
<1>2. /\ Head(queue) = i /\ i \in L!Ids /\ i \in Reapable
      /\ Len(queue) \in Nat /\ queue' \in Seq(L!Ids)
      /\ Flying' = Flying
      /\ urb' \in [L!Ids -> Ticket] /\ urb'[i].at = "reaped" /\ urb[i].at = "reapable"
      /\ \A j \in L!Ids : urb'[j].status = urb[j].status /\ urb'[j].len = urb[j].len
      /\ \A j \in L!Ids : j # i => urb'[j] = urb[j]
  BY <1>1, ReapedBasics DEF Reapable, L!At
<1>3. /\ Queued' /\ Tickets' /\ Convex'
      /\ num_retired \in Nat /\ num_urbs \in Nat /\ num_retired + 1 \in 1 .. num_urbs
      /\ num_urbs =< MaxUrbs
      /\ num_retired + 1 + Cardinality(Flying' \cup Reapable') = num_urbs
      /\ num_retired + 1 = num_urbs => Flying' \cup Reapable' = {}
  BY <1>1, ReapedQueue
<1>4. /\ UNCHANGED <<kind, continuation, asked, num_urbs, endpoint, sent, refused, iso_packet_offset,
                     results, reap_action, todo>>
      /\ transferred' = transferred + urb[Head(queue)].len /\ L!MoveUp(i)
  BY <1>1, <1>2 DEF L!ReapAbnormal, L!Reaped, L!rigid
<1>5. IF num_retired + 1 = num_urbs
      THEN /\ reap_status' = IF reap_action # "COMPLETED_EARLY" /\ reap_status = "COMPLETED"
                             THEN "ERROR" ELSE reap_status
           /\ urbs' = FALSE
           /\ phase' = IF reap_action = "CANCELLED" THEN "CANCELLED" ELSE reap_status'
      ELSE UNCHANGED <<urbs, phase, reap_status>>
  BY DEF L!ReapAbnormal, L!Report, L!Wait
<1>6. /\ reap_status' \in L!Results \ {"CANCELLED"} /\ urbs' \in BOOLEAN
      /\ phase' \in {"flying"} \cup L!Results
      /\ phase' # "submitting" /\ phase' # "idle"
      /\ phase' \in L!Results => num_retired + 1 = num_urbs
      /\ phase' = "CANCELLED" => reap_action = "CANCELLED"
      /\ phase' = "COMPLETED" => reap_action = "COMPLETED_EARLY" /\ reap_status = "COMPLETED"
      /\ phase' = "flying" => reap_status' = reap_status
  BY <1>0, <1>1, <1>5 DEF LinuxTypes, L!Results
<1>7. PICK s : Runs(s)
  BY <1>1 DEF LinuxInv, Brought
<1>8. /\ buffer' \in [1 .. L!Offset(MaxUrbs + 1) -> Nat]
      /\ Moved'
      /\ \A k \in 2 .. Len(queue) : \A p \in 1 .. urb[queue[k]].len :
           buffer'[L!Offset(queue[k]) + p] = buffer[L!Offset(queue[k]) + p]
  BY <1>1, <1>4, <1>7, MovedUp
<1>9. Brought' /\ Floor' /\ AfterBad'
  BY <1>1, <1>4, <1>6, <1>7, <1>8, ReapedBrought
<1>10. LinuxTypes'
  <2>1. num_retired' \in 0 .. num_urbs /\ iso_packet_offset' \in 0 .. num_retired'
    BY <1>0, <1>1, <1>3, <1>4 DEF LinuxTypes
  <2> QED BY <1>0, <1>1, <1>2, <1>4, <1>6, <1>8, <2>1 DEF LinuxTypes
<1>11. L!FreedWhenReaped'
  BY <1>3, <1>6 DEF L!FreedWhenReaped, L!AllReaped, Flying, Reapable
<1>12. L!ErrorReported'
  <2> SUFFICES ASSUME phase' = "COMPLETED", ~refused, NEW b \in L!FirstBad'
               PROVE  urb'[b].status \in {"short", "cancelled"}
    BY <1>4 DEF L!ErrorReported
  <2>1. PICK e \in L!Ids : /\ urb[e].at = "reaped" /\ urb[e].status \in {"short", "cancelled"}
                           /\ \A j \in 1 .. e - 1 : urb[j].at = "reaped" /\ urb[j].status = "ok"
    BY <1>0, <1>1, <1>6 DEF Early
  <2>2. b \in L!Ids /\ urb'[b].status # "ok" /\ \A j \in 1 .. b - 1 : urb'[j].status = "ok"
    BY DEF L!FirstBad
  <2>3. b \in Nat \ {0} /\ e \in Nat \ {0} /\ b =< MaxUrbs /\ MaxUrbs \in Nat
    BY <2>1, <2>2, BackendsAssumption DEF L!Ids
  <2>4. CASE b < e
    <3>1. b \in 1 .. e - 1
      BY <2>3, <2>4
    <3> QED BY <1>2, <2>1, <2>2, <3>1
  <2>5. CASE b > e
    <3>1. e \in 1 .. b - 1
      BY <2>3, <2>5
    <3>2. urb'[e].status = "ok"
      BY <2>2, <3>1
    <3>3. urb[e].status = "ok"
      BY <1>2, <2>1, <3>2
    <3> QED BY <2>1, <3>3
  <2>6. CASE b = e
    BY <1>2, <2>1, <2>6
  <2> QED BY <2>3, <2>4, <2>5, <2>6
<1>13. Early'
  <2> SUFFICES ASSUME phase' = "flying", reap_action = "COMPLETED_EARLY", reap_status = "COMPLETED",
                      ~refused
               PROVE  \E e \in L!Ids :
                        /\ urb'[e].at = "reaped" /\ urb'[e].status \in {"short", "cancelled"}
                        /\ \A j \in 1 .. e - 1 : urb'[j].at = "reaped" /\ urb'[j].status = "ok"
    BY <1>4, <1>6 DEF Early
  <2>1. PICK e \in L!Ids : /\ urb[e].at = "reaped" /\ urb[e].status \in {"short", "cancelled"}
                           /\ \A j \in 1 .. e - 1 : urb[j].at = "reaped" /\ urb[j].status = "ok"
    BY <1>0, <1>1 DEF Early
  <2>2. urb'[e] = urb[e]
    BY <1>2, <2>1
  <2>3. ASSUME NEW j \in 1 .. e - 1 PROVE urb'[j].at = "reaped" /\ urb'[j].status = "ok"
    <3>1. j \in L!Ids
      BY <2>1, BackendsAssumption DEF L!Ids
    <3> QED BY <1>2, <2>1, <3>1
  <2> QED BY <2>1, <2>2, <2>3
<1>14. Submitting' /\ Counted' /\ Discarding' /\ Orderly' /\ Full' /\ Stalled'
  <2>1. Counted'
    BY <1>1, <1>3, <1>4 DEF Counted
  <2>2. todo' = {} /\ reap_action' # "NORMAL"
    BY <1>1, <1>4
  <2> QED BY <1>6, <2>1, <2>2 DEF Submitting, Discarding, Orderly, Full, Stalled
<1>15. LinuxAsked' /\ L!IsoInPlace'
  BY <1>0, <1>1, <1>4, <1>6 DEF LinuxAsked, L!IsoInPlace
<1>16. phase' = phase \/ (phase' \in L!Results /\ (phase' = "CANCELLED" => asked))
  BY <1>0, <1>1, <1>6 DEF LinuxAsked
<1> QED BY <1>3, <1>8, <1>9, <1>10, <1>11, <1>12, <1>13, <1>14, <1>15, <1>16 DEF LinuxInv

LEMMA ReapIsoInv ==
  ASSUME LinuxInv, L!ReapIso
  PROVE  /\ LinuxInv'
         /\ \/ phase' = phase
            \/ phase' \in L!Results /\ (phase' = "CANCELLED" => asked)
<1>0. LinuxTypes /\ Queued /\ Tickets /\ Orderly /\ Full /\ Floor /\ LinuxAsked
  BY DEF LinuxInv
<1>1. /\ phase = "flying" /\ queue # <<>> /\ kind = "iso" /\ todo = {} /\ reap_status = "COMPLETED"
      /\ L!Reaped /\ num_retired' = num_retired + 1
  BY <1>0 DEF L!ReapIso, L!Reapable, L!Locked, LinuxTypes
<1> PICK i : i = queue[1]
  OBVIOUS
<1>2. /\ Head(queue) = i /\ i \in L!Ids /\ i \in Reapable
      /\ Len(queue) \in Nat /\ Len(queue) > 0 /\ queue' \in Seq(L!Ids)
      /\ Flying' = Flying
      /\ urb' \in [L!Ids -> Ticket] /\ urb'[i].at = "reaped"
      /\ \A j \in L!Ids : j # i => urb'[j] = urb[j]
  BY <1>1, ReapedBasics
<1>3. /\ Queued' /\ Tickets' /\ Convex'
      /\ num_retired \in Nat /\ num_urbs \in Nat /\ num_retired + 1 \in 1 .. num_urbs
      /\ num_urbs =< MaxUrbs
      /\ num_retired + 1 + Cardinality(Flying' \cup Reapable') = num_urbs
      /\ num_retired + 1 = num_urbs => Flying' \cup Reapable' = {}
  BY <1>1, ReapedQueue
<1>4. /\ UNCHANGED <<kind, continuation, asked, num_urbs, endpoint, sent, refused, reap_action,
                     reap_status, transferred, todo, buffer>>
      /\ iso_packet_offset' = iso_packet_offset + 1
      /\ results' = [results EXCEPT ![iso_packet_offset + 1] = i]
  BY <1>1, <1>2 DEF L!ReapIso, L!Reaped, L!rigid
<1>5. /\ phase' \in {"flying"} \cup L!Results
      /\ phase' # "submitting" /\ phase' # "idle" /\ urbs' \in BOOLEAN
      /\ phase' \in L!Results =>
           num_retired + 1 = num_urbs \/ (reap_action = "NORMAL" /\ i = num_urbs)
      /\ phase' = "CANCELLED" => reap_action = "CANCELLED"
      /\ phase' = "COMPLETED" => reap_action = "NORMAL" /\ i = num_urbs
  <2>1. CASE reap_action # "NORMAL" /\ num_retired + 1 = num_urbs
    <3>1. /\ urbs' = FALSE
          /\ phase' = IF reap_action = "CANCELLED" THEN "CANCELLED" ELSE "ERROR"
      BY <2>1 DEF L!ReapIso, L!Report
    <3> QED BY <2>1, <3>1 DEF L!Results
  <2>2. CASE reap_action = "NORMAL" /\ i = num_urbs
    <3>1. urbs' = FALSE /\ phase' \in {"NO_DEVICE", "COMPLETED"}
      BY <1>2, <2>2 DEF L!ReapIso, L!Report
    <3> QED BY <2>2, <3>1 DEF L!Results
  <2>3. CASE ~(reap_action # "NORMAL" /\ num_retired + 1 = num_urbs)
             /\ ~(reap_action = "NORMAL" /\ i = num_urbs)
    <3>1. UNCHANGED <<urbs, phase>>
      BY <1>2, <2>3 DEF L!ReapIso, L!Wait
    <3> QED BY <1>0, <1>1, <3>1 DEF L!Results, LinuxTypes
  <2> QED BY <2>1, <2>2, <2>3
<1>6. reap_action = "NORMAL" =>
         /\ i = num_retired + 1 /\ InLine(num_retired, num_urbs)'
         /\ iso_packet_offset = num_retired
         /\ \A j \in 1 .. num_retired : urb[j].at = "reaped" /\ results[j] = j
  <2> SUFFICES ASSUME reap_action = "NORMAL"
               PROVE  i = num_retired + 1 /\ InLine(num_retired, num_urbs)'
    BY <1>0, <1>1 DEF Full
  <2>1. InLine(num_retired, num_urbs)
    BY <1>0, <1>1 DEF Orderly
  <2>2. PICK from, to : from = num_retired /\ to = num_urbs
    OBVIOUS
  <2>3. InLine(from + 1, to)' /\ queue[1] = from + 1
    BY <1>1, <2>1, <2>2, InLineReaped
  <2>4. from + 1 = num_retired' /\ to = num_urbs'
    BY <1>1, <1>4, <2>2
  <2> QED BY <2>2, <2>3, <2>4 DEF InLine
<1>7. /\ iso_packet_offset \in Nat /\ iso_packet_offset =< num_retired
      /\ iso_packet_offset + 1 \in L!Ids /\ i \in 0 .. MaxUrbs
      /\ results \in [L!Ids -> 0 .. MaxUrbs]
  <2>1. iso_packet_offset \in 0 .. num_retired /\ results \in [L!Ids -> 0 .. MaxUrbs]
    BY <1>0 DEF LinuxTypes
  <2>2. i \in 0 .. MaxUrbs
    BY <1>2, BackendsAssumption DEF L!Ids
  <2>3. iso_packet_offset \in Nat /\ iso_packet_offset =< num_retired
    BY <1>3, <2>1
  <2>4. iso_packet_offset + 1 \in L!Ids
    BY <1>3, <2>3, BackendsAssumption DEF L!Ids
  <2> QED BY <2>1, <2>2, <2>3, <2>4
<1>8. /\ results' \in [L!Ids -> 0 .. MaxUrbs] /\ results'[iso_packet_offset + 1] = i
      /\ \A j \in L!Ids : j # iso_packet_offset + 1 => results'[j] = results[j]
  BY <1>4, <1>7
<1>9. LinuxTypes'
  <2>1. num_retired' \in 0 .. num_urbs /\ iso_packet_offset' \in 0 .. num_retired'
    BY <1>1, <1>3, <1>4, <1>7
  <2> QED BY <1>0, <1>1, <1>2, <1>4, <1>5, <1>8, <2>1 DEF LinuxTypes
<1>10. reap_action = "NORMAL" =>
         \A j \in 1 .. num_retired + 1 : urb'[j].at = "reaped" /\ results'[j] = j
  <2> SUFFICES ASSUME reap_action = "NORMAL", NEW j \in 1 .. num_retired + 1
               PROVE  urb'[j].at = "reaped" /\ results'[j] = j
    OBVIOUS
  <2>1. j \in L!Ids
    BY <1>3, BackendsAssumption DEF L!Ids
  <2>2. CASE j = num_retired + 1
    BY <1>2, <1>6, <1>8, <2>2
  <2>3. CASE j # num_retired + 1
    <3>1. j \in 1 .. num_retired
      BY <1>3, <2>3
    <3> QED BY <1>2, <1>6, <1>8, <2>1, <2>3, <3>1
  <2> QED BY <2>2, <2>3
<1>11. L!FreedWhenReaped'
  BY <1>3, <1>5, <1>6 DEF L!FreedWhenReaped, L!AllReaped, Flying, Reapable
<1>12. L!IsoInPlace'
  <2> SUFFICES ASSUME phase' = "COMPLETED", NEW j \in 1 .. num_urbs PROVE results'[j] = j
    BY <1>4 DEF L!IsoInPlace
  <2>1. reap_action = "NORMAL" /\ num_urbs = num_retired + 1
    BY <1>5, <1>6
  <2> QED BY <1>10, <2>1
<1>13. Full'
  BY <1>1, <1>4, <1>6, <1>10 DEF Full
<1>14. Orderly'
  BY <1>1, <1>4, <1>6 DEF Orderly
<1>15. Floor' /\ AfterBad'
  <2>1. AfterBad'
    BY <1>1, ReapedAfterBad
  <2> QED BY <1>0, <1>2, <1>4, <1>5, <2>1 DEF Floor
<1>16. Counted'
  BY <1>1, <1>3, <1>4 DEF Counted
<1>17. Submitting' /\ Discarding' /\ Brought' /\ Moved' /\ Stalled' /\ Early' /\ LinuxAsked'
  BY <1>0, <1>1, <1>4, <1>5
     DEF Submitting, Discarding, Brought, Moved, Stalled, Early, LinuxAsked
<1>18. L!ErrorReported'
  BY <1>1, <1>4 DEF L!ErrorReported
<1>19. phase' = phase \/ (phase' \in L!Results /\ (phase' = "CANCELLED" => asked))
  BY <1>0, <1>1, <1>5 DEF LinuxAsked
<1> QED BY <1>3, <1>9, <1>11, <1>12, <1>13, <1>14, <1>15, <1>16, <1>17, <1>18, <1>19 DEF LinuxInv

LEMMA ReapControlInv ==
  ASSUME LinuxInv, L!ReapControl
  PROVE  LinuxInv' /\ phase' \in L!Results /\ (phase' = "CANCELLED" => asked)
<1>0. LinuxTypes /\ Tickets /\ LinuxAsked
  BY DEF LinuxInv
<1>1. /\ phase = "flying" /\ queue # <<>> /\ kind = "control" /\ todo = {} /\ L!Reaped
  BY DEF L!ReapControl, L!Reapable, L!Locked
<1>2. /\ Head(queue) = queue[1] /\ queue[1] \in L!Ids /\ queue[1] \in Reapable
      /\ queue' \in Seq(L!Ids) /\ Flying' = Flying /\ urb' \in [L!Ids -> Ticket]
  BY <1>1, ReapedBasics
<1>3. /\ Queued' /\ Tickets' /\ Convex'
      /\ num_retired \in Nat /\ num_urbs \in Nat /\ num_retired + 1 \in 1 .. num_urbs
      /\ num_retired + 1 = num_urbs => Flying' \cup Reapable' = {}
  BY <1>1, ReapedQueue
<1>4. num_retired + 1 = num_urbs /\ queue[1] = 1
  <2>1. num_urbs = 1 /\ num_retired = 0
    BY <1>0, <1>1, <1>3 DEF LinuxTypes
  <2>2. urb[queue[1]].at = "reapable"
    BY <1>2 DEF Reapable, L!At
  <2> QED BY <1>0, <1>2, <2>1, <2>2, BackendsAssumption DEF Tickets, L!Ids
<1>5. /\ UNCHANGED <<kind, continuation, asked, num_urbs, num_retired, endpoint, sent, refused,
                     reap_action, reap_status, iso_packet_offset, results, todo, buffer>>
      /\ transferred' = transferred + urb[Head(queue)].len
      /\ urbs' = FALSE
      /\ phase' = IF reap_action = "CANCELLED" THEN "CANCELLED"
                  ELSE CASE urb[1].status = "ok" -> "COMPLETED"
                         [] urb[1].status = "shutdown" -> "NO_DEVICE"
                         [] urb[1].status = "stall" -> "STALL"
                         [] OTHER -> "ERROR"
  BY <1>2, <1>4 DEF L!ReapControl, L!Report, L!Reaped, L!rigid
<1>6. /\ phase' \in L!Results /\ phase' \notin {"idle", "submitting", "flying"}
      /\ phase' = "CANCELLED" => reap_action = "CANCELLED"
  BY <1>5 DEF L!Results
<1>7. PICK s : Runs(s)
  BY <1>1 DEF LinuxInv, Brought
<1>8. Brought' /\ Floor' /\ AfterBad'
  <2>1. \A k \in 2 .. Len(queue) : \A p \in 1 .. urb[queue[k]].len :
           buffer'[L!Offset(queue[k]) + p] = buffer[L!Offset(queue[k]) + p]
    BY <1>5
  <2> QED BY <1>1, <1>5, <1>6, <1>7, <2>1, ReapedBrought
<1>9. LinuxTypes'
  BY <1>0, <1>2, <1>5, <1>6 DEF LinuxTypes
<1>10. /\ Submitting' /\ Counted' /\ Orderly' /\ Full' /\ Stalled' /\ Early'
       /\ Discarding' /\ Moved' /\ LinuxAsked'
  BY <1>0, <1>1, <1>5, <1>6
     DEF Submitting, Counted, Orderly, Full, Stalled, Early, Discarding, Moved, LinuxAsked
<1>11. L!FreedWhenReaped' /\ L!ErrorReported' /\ L!IsoInPlace'
  BY <1>1, <1>3, <1>4, <1>5
     DEF L!FreedWhenReaped, L!AllReaped, L!ErrorReported, L!IsoInPlace, Flying, Reapable
<1>12. phase' = "CANCELLED" => asked
  BY <1>0, <1>1, <1>6 DEF LinuxAsked
<1> QED BY <1>3, <1>6, <1>8, <1>9, <1>10, <1>11, <1>12 DEF LinuxInv

LEMMA DisconnectInv ==
  ASSUME LinuxInv, L!HandleDisconnect
  PROVE  LinuxInv' /\ phase = "flying" /\ phase' = "NO_DEVICE"
<1>0. LinuxTypes /\ Floor /\ Moved /\ LinuxAsked
  BY DEF LinuxInv
<1>1. /\ phase = "flying" /\ todo = {} /\ endpoint = "gone" /\ urbs' = FALSE /\ phase' = "NO_DEVICE"
      /\ urb' = L!NoUrbs /\ queue' = <<>>
      /\ UNCHANGED <<kind, continuation, asked, num_urbs, num_retired, reap_action, reap_status,
                     iso_packet_offset, transferred, results, todo, endpoint, sent, buffer, refused>>
  BY DEF L!HandleDisconnect, L!Locked, L!Report, L!rigid
<1>2. \A i \in L!Ids : urb'[i] = [at |-> "none", status |-> "ok", len |-> 0]
  BY <1>1 DEF L!NoUrbs
<1>3. Flying' = {} /\ Reapable' = {}
  BY <1>2 DEF Flying, Reapable, L!At
<1>4. LinuxTypes'
  <2>1. urb' \in [L!Ids -> Ticket]
    BY <1>1, BackendsAssumption DEF L!NoUrbs, Ticket, Ended
  <2>2. queue' \in Seq(L!Ids)
    BY <1>1
  <2>3. urbs' \in BOOLEAN /\ phase' \in L!Results
    BY <1>1 DEF L!Results
  <2> QED BY <1>0, <1>1, <2>1, <2>2, <2>3 DEF LinuxTypes
<1>5. Queued' /\ Tickets' /\ Convex' /\ AfterBad' /\ Floor' /\ Moved' /\ Brought'
  BY <1>0, <1>1, <1>2, <1>3 DEF Queued, Tickets, Convex, AfterBad, Floor, Moved, Brought
<1>6. /\ Submitting' /\ Counted' /\ Orderly' /\ Full' /\ Stalled' /\ Early' /\ Discarding'
      /\ LinuxAsked' /\ L!FreedWhenReaped' /\ L!ErrorReported' /\ L!IsoInPlace'
  BY <1>0, <1>1, <1>3
     DEF Submitting, Counted, Orderly, Full, Stalled, Early, Discarding, LinuxAsked,
         L!FreedWhenReaped, L!AllReaped, L!ErrorReported, L!IsoInPlace, Flying, Reapable
<1> QED BY <1>1, <1>4, <1>5, <1>6 DEF LinuxInv
-----------------------------------------------------------------------------
(* All the steps.                                                          *)
LEMMA ReapInv ==
  ASSUME LinuxInv, L!Reap \/ L!HandleDisconnect
  PROVE  /\ LinuxInv' /\ phase = "flying" /\ UNCHANGED asked
         /\ \/ phase' = phase
            \/ phase' \in L!Results /\ (phase' = "CANCELLED" => asked)
<1>1. CASE L!ReapNormal
  BY <1>1, ReapNormalInv DEF L!ReapNormal, L!Reapable, L!Reaped
<1>2. CASE L!ReapAbnormal
  BY <1>2, ReapAbnormalInv DEF L!ReapAbnormal, L!Reapable, L!Reaped
<1>3. CASE L!ReapIso
  BY <1>3, ReapIsoInv DEF L!ReapIso, L!Reapable, L!Reaped
<1>4. CASE L!ReapControl
  BY <1>4, ReapControlInv DEF L!ReapControl, L!Reapable, L!Reaped
<1>5. CASE L!HandleDisconnect
  BY <1>5, DisconnectInv DEF L!HandleDisconnect, L!Results
<1> QED BY <1>1, <1>2, <1>3, <1>4, <1>5 DEF L!Reap

LEMMA LinuxStutter ==
  ASSUME LinuxInv, UNCHANGED L!vars
  PROVE  LinuxInv'
<1>1. UNCHANGED <<kind, continuation, phase, asked, urbs, num_urbs, num_retired, reap_action,
                  reap_status, iso_packet_offset, transferred, buffer, results, todo, urb, queue,
                  endpoint, sent, refused>>
  BY DEF L!vars, L!rigid, L!tpriv, L!kernel
<1>2. Flying' = Flying /\ Reapable' = Reapable
  BY <1>1 DEF Flying, Reapable, L!At
<1>3. \A from, to : InLine(from, to) => InLine(from, to)'
  BY <1>1, <1>2 DEF InLine
<1>4. \A s : Runs(s) => Runs(s)'
  BY <1>1 DEF Runs
<1>5. LinuxTypes' /\ Queued' /\ Tickets' /\ Counted' /\ Convex' /\ Discarding' /\ Floor'
  BY <1>1, <1>2
     DEF LinuxInv, LinuxTypes, Queued, Tickets, Counted, Convex, Discarding, Floor
<1>6. Submitting'
  BY <1>1, <1>3 DEF LinuxInv, Submitting
<1>7. Brought'
  BY <1>1, <1>4 DEF LinuxInv, Brought
<1>8. Orderly'
  <2> SUFFICES ASSUME phase = "flying", reap_action = "NORMAL", reap_status = "COMPLETED" \/ continuation
               PROVE  todo = {} /\ InLine(num_retired, num_urbs)'
    BY <1>1 DEF Orderly
  <2>1. todo = {} /\ InLine(num_retired, num_urbs)
    BY DEF LinuxInv, Orderly
  <2> QED BY <1>1, <1>2, <2>1 DEF InLine
<1>9. Moved' /\ Full' /\ AfterBad' /\ Stalled' /\ Early' /\ LinuxAsked'
  BY <1>1, <1>2 DEF LinuxInv, Moved, Full, AfterBad, Stalled, Early, LinuxAsked
<1>10. L!FreedWhenReaped' /\ L!ErrorReported' /\ L!IsoInPlace'
  BY <1>1, <1>2
     DEF LinuxInv, L!FreedWhenReaped, L!AllReaped, L!ErrorReported, L!FirstBad, L!IsoInPlace,
         Flying, Reapable
<1> QED BY <1>5, <1>6, <1>7, <1>8, <1>9, <1>10 DEF LinuxInv

LEMMA LinuxNext == LinuxInv /\ [L!Next]_L!vars => LinuxInv'
<1> SUFFICES ASSUME LinuxInv, [L!Next]_L!vars PROVE LinuxInv'
  OBVIOUS
<1>1. CASE L!Device
  BY <1>1, DeviceInv
<1>2. CASE L!Submit
  BY <1>2, SubmitInv
<1>3. CASE L!Submission
  BY <1>3, SubmissionInv
<1>4. CASE L!Cancel
  BY <1>4, CancelInv
<1>5. CASE L!Discard
  BY <1>5, DiscardInv
<1>6. CASE L!Reap \/ L!HandleDisconnect
  BY <1>6, ReapInv
<1>7. CASE UNCHANGED L!vars
  BY <1>7, LinuxStutter
<1> QED BY <1>1, <1>2, <1>3, <1>4, <1>5, <1>6, <1>7 DEF L!Next

LEMMA LinuxRefines == LinuxInv /\ [L!Next]_L!vars => [TL!Next]_TL!vars
<1> SUFFICES ASSUME LinuxInv, [L!Next]_L!vars PROVE [TL!Next]_TL!vars
  OBVIOUS
<1>0. LinuxAsked /\ asked \in BOOLEAN /\ phase \in {"idle", "submitting", "flying"} \cup L!Results
  BY DEF LinuxInv, LinuxTypes
<1>1. \A result \in L!Results :
        result \in TL!Results /\ result \notin {"idle", "submitting", "flying"}
  BY DEF L!Results, TL!Results
<1>2. CASE UNCHANGED <<phase, asked>>
  BY <1>2 DEF TL!vars, L!AbstractPhase
<1>3. CASE L!Submit
  <2>1. phase \notin {"submitting", "flying"} /\ phase' = "submitting" /\ asked' = FALSE
    BY <1>3 DEF L!Submit
  <2>2. CASE phase = "idle"
    BY <1>0, <2>1, <2>2 DEF LinuxAsked, TL!vars, L!AbstractPhase
  <2>3. CASE phase # "idle"
    BY <1>0, <1>1, <2>1, <2>3 DEF TL!Next, TL!Renew, L!AbstractPhase
  <2> QED BY <2>2, <2>3
<1>4. CASE L!Submission
  <2>1. phase = "submitting" /\ phase' \in {"submitting", "flying", "idle"} /\ UNCHANGED asked
    BY <1>4 DEF L!Submission, L!SubmitUrb, L!SubmitFirstFails, L!SubmitRefused, L!SubmitFails
  <2>2. CASE phase' = "flying"
    BY <2>1, <2>2 DEF TL!Next, TL!Submit, L!AbstractPhase
  <2>3. CASE phase' # "flying"
    BY <2>1, <2>3 DEF TL!vars, L!AbstractPhase
  <2> QED BY <2>2, <2>3
<1>5. CASE L!Cancel
  <2>1. phase = "flying" /\ phase' = "flying" /\ asked' = TRUE
    BY <1>5 DEF L!Cancel
  <2> QED BY <2>1 DEF TL!Next, TL!Ask, L!AbstractPhase
<1>6. CASE (L!Reap \/ L!HandleDisconnect) /\ ~UNCHANGED <<phase, asked>>
  <2>1. phase = "flying" /\ UNCHANGED asked /\ phase' \in L!Results /\ (phase' = "CANCELLED" => asked)
    BY <1>6, ReapInv
  <2>2. TL!Finish(phase')
    BY <1>1, <2>1 DEF TL!Finish, L!AbstractPhase
  <2> QED BY <1>1, <2>1, <2>2 DEF TL!Next
<1>7. CASE L!Device \/ L!Discard \/ UNCHANGED L!vars
  <2>1. UNCHANGED <<phase, asked>>
    BY <1>7, DeviceInv, DiscardInv DEF L!vars
  <2> QED BY <1>2, <2>1
<1> QED BY <1>2, <1>3, <1>4, <1>5, <1>6, <1>7 DEF L!Next

LEMMA LinuxHeld ==
  LinuxInv => /\ L!TypeOK /\ L!FreedWhenReaped
              /\ L!Contiguous /\ L!ErrorReported /\ L!IsoInPlace
<1> SUFFICES ASSUME LinuxInv PROVE L!TypeOK /\ L!Contiguous
  BY DEF LinuxInv
<1>0. LinuxTypes /\ Queued /\ Floor /\ Moved
  BY DEF LinuxInv
<1>1. num_urbs \in Nat /\ num_urbs =< MaxUrbs /\ Cap \in Nat
  BY <1>0, BackendsAssumption DEF LinuxTypes
<1>2. transferred \in 0 .. num_urbs * Cap /\ sent \in 0 .. num_urbs * Cap
  <2>1. L!Offset(num_urbs + 1) = num_urbs * Cap /\ L!Offset(num_urbs + 1) \in Nat
    BY <1>1, Offsets
  <2> QED BY <1>0, <2>1 DEF Floor
<1>3. L!ToSet(queue) = L!At("reapable")
  <2>1. queue \in Seq(L!Ids)
    BY <1>0 DEF LinuxTypes
  <2>2. DOMAIN queue = 1 .. Len(queue)
    BY <2>1
  <2> QED BY <1>0, <2>2 DEF L!ToSet, Queued, Reapable
<1>4. L!TypeOK
  BY <1>0, <1>1, <1>2, <1>3 DEF L!TypeOK, LinuxTypes
<1>5. L!Contiguous
  <2> SUFFICES ASSUME L!Whole PROVE transferred = sent /\ \A p \in 1 .. transferred : buffer[p] = p
    BY DEF L!Contiguous
  <2>1. kind = "bulk" /\ endpoint # "gone" /\ Reapable = {}
    BY DEF L!Whole, L!AllReaped, Reapable
  <2>2. Len(queue) = 0
    <3>1. queue \in Seq(L!Ids) /\ Len(queue) \in Nat
      BY <1>0 DEF LinuxTypes
    <3>2. ~(1 \in 1 .. Len(queue))
      BY <1>0, <2>1 DEF Queued
    <3> QED BY <3>1, <3>2
  <2>3. PICK s : Runs(s)
    BY <2>1 DEF LinuxInv, Brought
  <2>4. s[1] = transferred /\ s[0 + 1] = sent
    BY <2>2, <2>3 DEF Runs
  <2> QED BY <1>0, <2>1, <2>4 DEF Moved
<1> QED BY <1>4, <1>5
-----------------------------------------------------------------------------
(* The backend that there is.                                              *)

BackendsInv ==
  /\ os \in {"linux", "darwin", "windows"}
  /\ os = "linux" => LinuxInv
  /\ os = "darwin" => DarwinInv
  /\ os = "windows" => WindowsInv

LEMMA BackendsInit == Init => BackendsInv
  BY LinuxInit, DarwinInit, WindowsInit DEF Init, BackendsInv

(* Every backend does a step of its own, or none.                          *)
LEMMA OneBackend ==
  ASSUME BackendsInv, [Next]_vars
  PROVE  /\ os' = os
         /\ os = "linux" => [L!Next]_L!vars
         /\ os = "darwin" => [D!Next]_D!vars
         /\ os = "windows" => [W!Next]_W!vars
<1>1. CASE OnLinux /\ L!Next
  BY <1>1 DEF OnLinux
<1>2. CASE OnDarwin /\ D!Next
  BY <1>2 DEF OnDarwin
<1>3. CASE OnWindows /\ W!Next
  BY <1>3 DEF OnWindows
<1>4. CASE UNCHANGED vars
  <2>1. os' = os /\ UNCHANGED L!vars
    BY <1>4 DEF vars, linux, L!vars, L!rigid, L!tpriv, L!kernel
  <2>2. UNCHANGED D!vars
    BY <1>4 DEF vars, darwin, D!vars, D!flags, D!link
  <2>3. UNCHANGED W!vars
    BY <1>4 DEF vars, windows, W!vars, W!rigid, W!claims, W!request
  <2> QED BY <2>1, <2>2, <2>3
<1> QED BY <1>1, <1>2, <1>3, <1>4 DEF Next

LEMMA BackendsNext == BackendsInv /\ [Next]_vars => BackendsInv'
<1> SUFFICES ASSUME BackendsInv, [Next]_vars PROVE BackendsInv'
  OBVIOUS
<1>1. /\ os' = os
      /\ os = "linux" => [L!Next]_L!vars
      /\ os = "darwin" => [D!Next]_D!vars
      /\ os = "windows" => [W!Next]_W!vars
  BY OneBackend
<1>2. os = "linux" => LinuxInv'
  BY <1>1, LinuxNext DEF BackendsInv
<1>3. os = "darwin" => DarwinInv'
  BY <1>1, DarwinNext DEF BackendsInv
<1>4. os = "windows" => WindowsInv'
  BY <1>1, WindowsNext DEF BackendsInv
<1> QED BY <1>1, <1>2, <1>3, <1>4 DEF BackendsInv

LEMMA BackendsHold == Spec => []BackendsInv
<1>1. Init => BackendsInv
  BY BackendsInit
<1>2. BackendsInv /\ [Next]_vars => BackendsInv'
  BY BackendsNext
<1> QED BY <1>1, <1>2, PTL DEF Spec

(* What the transfer t is for Transfer, backend by backend.                *)
LEMMA AbstractStep ==
  ASSUME BackendsInv, t \in Transfers, [Next]_vars
  PROVE  [T!Next]_T!vars
<1>1. /\ os \in {"linux", "darwin", "windows"} /\ os' = os
      /\ os = "linux" => [L!Next]_L!vars
      /\ os = "darwin" => [D!Next]_D!vars
      /\ os = "windows" => [W!Next]_W!vars
  BY OneBackend DEF BackendsInv
<1>2. CASE os = "linux"
  <2>1. /\ Phase(t) = L!AbstractPhase /\ Asked(t) = asked /\ Reset = FALSE
        /\ Phase(t)' = L!AbstractPhase' /\ Asked(t)' = asked' /\ Reset' = FALSE
    BY <1>1, <1>2 DEF Phase, Asked, Reset, L!AbstractPhase
  <2>2. [TL!Next]_TL!vars
    BY <1>1, <1>2, LinuxRefines DEF BackendsInv
  <2> QED BY <2>1, <2>2
          DEF TL!Next, TL!vars, TL!Submit, TL!Ask, TL!Finish, TL!Renew, TL!Reset, TL!Results,
              T!Next, T!vars, T!Submit, T!Ask, T!Finish, T!Renew, T!Reset, T!Results
<1>3. CASE os = "darwin"
  <2>1. /\ Phase(t) = phase[t] /\ Asked(t) = asked[t] /\ Reset = FALSE
        /\ Phase(t)' = phase'[t] /\ Asked(t)' = asked'[t] /\ Reset' = FALSE
    BY <1>1, <1>3 DEF Phase, Asked, Reset
  <2>2. [TD!Next]_TD!vars
    BY <1>1, <1>3, DarwinRefines DEF BackendsInv, DarwinStep
  <2> QED BY <2>1, <2>2
          DEF TD!Next, TD!vars, TD!Submit, TD!Ask, TD!Finish, TD!Renew, TD!Reset, TD!Results,
              T!Next, T!vars, T!Submit, T!Ask, T!Finish, T!Renew, T!Reset, T!Results
<1>4. CASE os = "windows"
  <2> DEFINE idle(value) == IF value \in {"unclaimed", "ready"} THEN "idle" ELSE value
  <2>1. /\ Phase(t) = idle(phase[t]) /\ Asked(t) = asked[t] /\ Reset = reset
        /\ Phase(t)' = idle(phase'[t]) /\ Asked(t)' = asked'[t] /\ Reset' = reset'
    <3>1. reset \in BOOLEAN /\ reset' \in BOOLEAN
      BY <1>1, <1>4, WindowsNext DEF BackendsInv, WindowsInv, WindowsTypes
    <3> QED BY <1>1, <1>4, <3>1 DEF Phase, Asked, Reset
  <2>2. [TW!Next]_TW!vars
    BY <1>1, <1>4, WindowsNext DEF BackendsInv, WindowsStep
  <2> QED BY <2>1, <2>2
          DEF TW!Next, TW!vars, TW!Submit, TW!Ask, TW!Finish, TW!Renew, TW!Reset, TW!Results,
              T!Next, T!vars, T!Submit, T!Ask, T!Finish, T!Renew, T!Reset, T!Results
<1> QED BY <1>1, <1>2, <1>3, <1>4

LEMMA AbstractInit == ASSUME t \in Transfers PROVE Init => T!Init
<1> SUFFICES ASSUME Init PROVE T!Init
  OBVIOUS
<1>1. CASE os = "linux" /\ L!Init
  BY <1>1 DEF L!Init, T!Init, Phase, Asked, Reset
<1>2. CASE os = "darwin" /\ D!Init
  BY <1>2 DEF D!Init, T!Init, Phase, Asked, Reset
<1>3. CASE os = "windows" /\ W!Init
  BY <1>3 DEF W!Init, W!All, T!Init, Phase, Asked, Reset
<1> QED BY <1>1, <1>2, <1>3 DEF Init
-----------------------------------------------------------------------------
(* The states of each backend have their types.                            *)
THEOREM TypeCorrect == Spec => []TypeOK
<1>1. BackendsInv => TypeOK
  BY LinuxHeld, DarwinHeld, WindowsHeld DEF BackendsInv, TypeOK
<1> QED BY <1>1, BackendsHold, PTL

(* No transfer is finished, and none of its memory given back, while the   *)
(* system still has a part of it: the URBs of a bulk transfer with         *)
(* continuation, what IOKit has or a message says is done, the overlapped  *)
(* request.                                                                *)
THEOREM LentIsHeld == Spec => []Held
<1>1. BackendsInv => Held
  BY LinuxHeld, DarwinHeld, WindowsHeld DEF BackendsInv, Held
<1> QED BY <1>1, BackendsHold, PTL

(* However the URBs of a transfer of usbfs end, are discarded and reaped:  *)
(* the data that the device has sent are in the buffer without holes, an   *)
(* error of the first URB that failed is not reported as completion, and   *)
(* the results of isochronous packets are in their places.                 *)
THEOREM DataAreWhole == Spec => []Whole
<1>1. BackendsInv => Whole
  BY LinuxHeld DEF BackendsInv, Whole
<1> QED BY <1>1, BackendsHold, PTL

(* Each transfer of each backend does what Transfer says: it is finished   *)
(* once, with one result, after a submission that succeeded; with          *)
(* CANCELLED only if that was asked for; and is forgotten only after a     *)
(* reset.                                                                  *)
THEOREM BackendsImplementTransfer ==
  ASSUME t \in Transfers
  PROVE  Spec => T!Init /\ [][T!Next]_T!vars
<1>1. Init => T!Init
  BY AbstractInit
<1>2. BackendsInv /\ [Next]_vars => [T!Next]_T!vars
  BY AbstractStep
<1> QED BY <1>1, <1>2, BackendsHold, PTL DEF Spec
=============================================================================
