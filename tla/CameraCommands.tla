--------------------------- MODULE CameraCommands ----------------------------
(***************************************************************************)
(* Commands to the camera of a Kinect (send_cmd and write_register of      *)
(* cameras.c): one transfer with the command, and as many as it takes for  *)
(* the reply.  Transfers handle events, so that a callback may send other  *)
(* commands meanwhile.  The camera answers in order, and keeps answers     *)
(* that nobody fetches.                                                    *)
(***************************************************************************)
EXTENDS Integers, SequencesExt, FiniteSets

CONSTANTS MaxCommands, TagMod   (* bound; 2^16 in the code                   *)

VARIABLES
  cam_tag,
  calls,                     (* commands under way, the last being inside    *)
                             (* those before: number, tag, where, and how    *)
                             (* many have been inside                        *)
  replies,                   (* of the camera, not fetched yet               *)
  sent,                      (* commands so far                              *)
  result,                    (* of the last that ended: its number, and that *)
                             (* of the command it got the answer of, or 0    *)
  failed, repeated           (* a transfer has failed; a command has had two *)
                             (* inside                                       *)

vars == <<cam_tag, calls, replies, sent, result, failed, repeated>>

Init ==
  /\ cam_tag \in 0 .. TagMod - 1 /\ calls = <<>> /\ replies = <<>> /\ sent = 0
  /\ result = [of |-> 0, by |-> 0] /\ failed = FALSE /\ repeated = FALSE

Top == Last(calls)
Ends(by) == calls' = Front(calls) /\ result' = [of |-> Top.of, by |-> by]

(* At most one is inside another.                                          *)
Send ==
  /\ Len(calls) < 2 /\ sent < MaxCommands /\ sent' = sent + 1
  /\ calls' = [c \in DOMAIN calls |-> [calls[c] EXCEPT !.inside = @ + 1]]
              \o <<[of |-> sent', tag |-> cam_tag, at |-> "out", inside |-> 0]>>
  /\ repeated' = (repeated \/ \E c \in DOMAIN calls : calls'[c].inside > 1)
  /\ UNCHANGED <<cam_tag, replies, result, failed>>

OutDone ==
  /\ calls # <<>> /\ Top.at = "out"
  /\ calls' = Front(calls) \o <<[Top EXCEPT !.at = "in"]>>
  /\ replies' = Append(replies, [of |-> Top.of, tag |-> Top.tag])
  /\ UNCHANGED <<cam_tag, sent, result, failed, repeated>>

(* The camera may have got it.                                             *)
OutFails ==
  /\ calls # <<>> /\ Top.at = "out" /\ Ends(0) /\ failed' = TRUE
  /\ \E got \in BOOLEAN :
       replies' = IF got THEN Append(replies, [of |-> Top.of, tag |-> Top.tag]) ELSE replies
  /\ UNCHANGED <<cam_tag, sent, repeated>>

(* A reply that has another tag is lost, and cam_tag stays as it is.       *)
Matches(reply) == reply.tag = Top.tag
Reply ==
  /\ calls # <<>> /\ Top.at = "in" /\ replies # <<>>
  /\ replies' = Tail(replies)
  /\ IF Matches(Head(replies))
     THEN Ends(Head(replies).of) /\ cam_tag' = (cam_tag + 1) % TagMod
     ELSE Ends(0) /\ UNCHANGED cam_tag
  /\ UNCHANGED <<sent, failed, repeated>>

(* The transfer fails, or the reply is too short or not one.  (If it fails *)
(* the length is compared as unsigned, and the reply that the code then    *)
(* goes on with is what the stack holds; its length is never right.)       *)
InFails ==
  /\ calls # <<>> /\ Top.at = "in" /\ Ends(0) /\ failed' = TRUE
  /\ replies' \in {replies} \cup {Tail(r) : r \in {replies} \ {<<>>}}
  /\ UNCHANGED <<cam_tag, sent, repeated>>

Next == Send \/ OutDone \/ OutFails \/ Reply \/ InFails
-----------------------------------------------------------------------------
TypeOK ==
  /\ cam_tag \in 0 .. TagMod - 1 /\ Len(calls) =< 2 /\ sent \in 0 .. MaxCommands
  /\ result.of \in 0 .. sent /\ result.by \in 0 .. sent

(* As long as no transfer fails, every command is answered, although one   *)
(* that a callback sends inside another has the same tag, and takes the    *)
(* answer of the other; by the time none is under way, all are answered.   *)
(* A second inside the same would find the answer of the first.            *)
Answered ==
  ~failed /\ ~repeated =>
    /\ result.of # 0 => result.by # 0
    /\ Len(replies) = Cardinality({c \in DOMAIN calls : calls[c].at = "in"})
    /\ calls = <<>> \/ (\A r \in DOMAIN replies : replies[r].tag = Top.tag) \/ Top.at = "out"
=============================================================================
