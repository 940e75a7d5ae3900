----------------------------- MODULE Descriptors ----------------------------
(***************************************************************************)
(* descriptor.c of libusb: what follows a configuration descriptor is cut  *)
(* into interfaces with alternate settings, endpoints, and descriptors of  *)
(* a class or a vendor, extra, which belong to what they follow.           *)
(*                                                                         *)
(* The buffer is a sequence of descriptors: "I" is one of an interface,    *)
(* with its bAlternateSetting and bNumEndpoints, "E" of an endpoint, and   *)
(* "X" any other, with a number that tells it from the others.             *)
(***************************************************************************)
EXTENDS Integers, SequencesExt

VARIABLES configuration,   (* as the device means it                         *)
          bNumInterfaces,  (* as it says                                     *)
          parsed           (* what libusb makes of it, or <<>>               *)
vars == <<configuration, bNumInterfaces, parsed>>

(* The X that s begins with, and the others.                               *)
Proper(s) == {i \in DOMAIN s : s[i].t # "X"}
Skipped(s) == IF Proper(s) = {} THEN Len(s) ELSE Min(Proper(s)) - 1
Extra(s) == [i \in 1 .. Skipped(s) |-> s[i].id]
Rest(s) == SubSeq(s, Skipped(s) + 1, Len(s))

Zero == [extra |-> <<>>, of |-> 0]

(* parse_endpoint: if there is none, it stays zero and nothing is consumed *)
ParseEndpoint_LeavesExtra(s) ==
  IF s[1].t # "E" THEN [endpoint |-> Zero, rest |-> s]
  ELSE [endpoint |-> [extra |-> Extra(Tail(s)), of |-> s[1].of], rest |-> Tail(s)]

ParseEndpoint(s) ==
  IF s[1].t # "E" THEN [endpoint |-> Zero, rest |-> s]
  ELSE [endpoint |-> [extra |-> Extra(Tail(s)), of |-> s[1].of], rest |-> Rest(Tail(s))]

(* n of them, one after the other                                          *)
ParseEndpoints(s, n) ==
  LET after[k \in 0 .. n] ==
        IF k = 0 THEN [endpoints |-> <<>>, rest |-> s]
        ELSE LET before == after[k - 1]
                 next == ParseEndpoint(before.rest)
             IN [endpoints |-> Append(before.endpoints, next.endpoint), rest |-> next.rest]
  IN after[n]

(* parse_interface: settings up to the next one that is not an alternate   *)
ParseSetting(s) ==
  LET eps == ParseEndpoints(Rest(Tail(s)), s[1].eps)
  IN [setting |-> [alt |-> s[1].alt, extra |-> Extra(Tail(s)), endpoints |-> eps.endpoints],
      rest |-> eps.rest]

ParseInterface(s) ==
  LET after[k \in 0 .. Len(s)] ==
        IF k = 0 THEN [settings |-> <<>>, rest |-> s]
        ELSE LET before == after[k - 1]
                 alternate == /\ before.rest # <<>>
                              /\ k > 1 => before.rest[1].t = "I" /\ before.rest[1].alt # 0
                 next == ParseSetting(before.rest)
             IN IF alternate
                THEN [settings |-> Append(before.settings, next.setting), rest |-> next.rest]
                ELSE before
  IN after[Len(s)]

(* parse_configuration; extra descriptors of the configuration are those   *)
(* before the first interface that has some before it.                     *)
ParseInterfaces(s, n) ==
  LET after[k \in 0 .. n] ==
        IF k = 0 THEN [interfaces |-> <<>>, extra |-> <<>>, rest |-> s]
        ELSE LET before == after[k - 1]
                 next == ParseInterface(Rest(before.rest))
             IN [interfaces |-> Append(before.interfaces, next.settings), rest |-> next.rest,
                 extra |-> IF before.extra # <<>> THEN before.extra ELSE Extra(before.rest)]
  IN after[n]
-----------------------------------------------------------------------------
(* Configurations with up to two interfaces, of up to two settings, of up  *)
(* to two endpoints, each with an extra descriptor or not.                 *)
Extras == {<<>>, <<0>>}
Settings == [extra : Extras, endpoints : {<<>>} \cup {<<x>> : x \in Extras} \cup {<< <<0>>, <<>> >>}]
Interfaces == {<<s>> : s \in Settings} \cup (Settings \X Settings)
Configurations == [extra : Extras,
                   interfaces : {<<>>} \cup {<<i>> : i \in Interfaces} \cup (Interfaces \X Interfaces)]

(* The descriptors of a configuration, X and E numbered by their place.    *)
X(extra) == [i \in DOMAIN extra |-> [t |-> "X"]]
SettingSeq(s, alt) ==
  <<[t |-> "I", alt |-> alt, eps |-> Len(s.endpoints)]>> \o X(s.extra)
  \o FlattenSeq([e \in DOMAIN s.endpoints |-> <<[t |-> "E"]>> \o X(s.endpoints[e])])
Buffer(c) ==
  LET all == X(c.extra)
             \o FlattenSeq([i \in DOMAIN c.interfaces |->
                  FlattenSeq([j \in DOMAIN c.interfaces[i] |->
                                SettingSeq(c.interfaces[i][j], j - 1)])])
  IN [k \in DOMAIN all |->
        CASE all[k].t = "X" -> [t |-> "X", id |-> k]
          [] all[k].t = "E" -> [t |-> "E", of |-> k]
          [] OTHER -> all[k]]

Init ==
  /\ configuration \in Configurations
  /\ bNumInterfaces \in {n \in Len(configuration.interfaces) - 1
                               .. Len(configuration.interfaces) + 1 : n >= 0}
  /\ parsed = <<>>

Next ==
  /\ parsed = <<>>
  /\ parsed' = <<ParseInterfaces(Buffer(configuration), bNumInterfaces)>>
  /\ UNCHANGED <<configuration, bNumInterfaces>>
-----------------------------------------------------------------------------
TypeOK == bNumInterfaces \in 0 .. 3 /\ Len(parsed) \in {0, 1}

(* The result has the shape of the configuration, as far as the number of  *)
(* interfaces says; one too many has no settings.                          *)
SameShape(p) ==
  \A i \in 1 .. bNumInterfaces :
    LET settings == p.interfaces[i] IN
      IF i > Len(configuration.interfaces) THEN settings = <<>>
      ELSE /\ Len(settings) = Len(configuration.interfaces[i])
           /\ \A j \in DOMAIN settings :
                LET meant == configuration.interfaces[i][j] IN
                  /\ settings[j].alt = j - 1
                  /\ Len(settings[j].extra) = Len(meant.extra)
                  /\ Len(settings[j].endpoints) = Len(meant.endpoints)
                  /\ \A e \in DOMAIN meant.endpoints :
                       Len(settings[j].endpoints[e].extra) = Len(meant.endpoints[e])

(* What it consists of, with what is left over, is the buffer in order.    *)
Order(p) ==
  p.extra \o FlattenSeq([i \in DOMAIN p.interfaces |->
    FlattenSeq([j \in DOMAIN p.interfaces[i] |->
      LET s == p.interfaces[i][j]
      IN s.extra \o FlattenSeq([e \in DOMAIN s.endpoints |->
                                  <<s.endpoints[e].of>> \o s.endpoints[e].extra])])])
Parses ==
  parsed # <<>> =>
    LET p == parsed[1]
        buffer == Buffer(configuration)
    IN /\ SameShape(p)
       /\ bNumInterfaces > 0 =>
            Order(p) = SelectSeq([k \in 1 .. Len(buffer) - Len(p.rest) |-> k],
                                 LAMBDA k : buffer[k].t # "I")
=============================================================================
