------------------------------ MODULE Gameinfo ------------------------------
(***************************************************************************)
(* The parser of a GAMEINFO packet (war3.rs): the name of the room, and    *)
(* the path of the map out of the stat string, in which the game encodes   *)
(* its settings so that no byte of it is zero.  The packet comes by UDP    *)
(* into a buffer of a fixed size (packet.rs), which may cut off its end.   *)
(*                                                                         *)
(* A byte has a bit more than there are bytes in a group.                  *)
(***************************************************************************)
EXTENDS Integers, Sequences, FiniteSetsExt

CONSTANTS
  Group,                  \* 7, the bytes that share a mask
  HeaderLen, SettingsLen, \* 20 and 13, the bytes before the name and before the path
  Magic,                  \* the first two bytes, 0xF7 and 0x30
  NoFields,               \* None
  Fields                  \* what games may announce: settings, and texts without a zero

\* 1 << b
Bit[b \in Nat] == IF b = 0 THEN 1 ELSE 2 * Bit[b - 1]

Byte == 0..(2 * Bit[Group] - 1)
Text == Byte \ {0}

ASSUME GameinfoAssumption ==
  /\ Group \in Nat \ {0} /\ HeaderLen \in Nat \ {0, 1} /\ SettingsLen \in Nat
  /\ Magic \in Byte \X Byte
  /\ Fields \subseteq [name : Seq(Text), settings : [1..SettingsLen -> Byte],
                       path : Seq(Text), creator : Seq(Text)]

VARIABLES
  fields,  \* what the game announces
  packet   \* what is left of its packet

gameinfoVars == <<fields, packet>>

(***************************************************************************)
(* The game (external): an even byte is sent as the next number, and the   *)
(* mask, sent before every Group bytes, tells which were odd.              *)
(***************************************************************************)
Odd(n) == n % 2 = 1

\* Bit 0 is always set, so that the mask is no zero either.
Mask(s, first) ==
  CHOOSE m \in Byte :
    /\ Odd(m)
    /\ \A b \in 1..Group :
         Odd(m \div Bit[b]) <=> first + b - 1 \in DOMAIN s /\ Odd(s[first + b - 1])

Groups(n, size) == (n + size - 1) \div size

Encode(s) ==
  [k \in 1..(Len(s) + Groups(Len(s), Group)) |->
     LET g == (k - 1) \div (Group + 1)
         b == (k - 1) % (Group + 1)
         i == g * Group + b
     IN IF b = 0 THEN Mask(s, i + 1) ELSE IF Odd(s[i]) THEN s[i] ELSE s[i] + 1]

Announce(f) ==
  [k \in 1..HeaderLen |-> IF k \in DOMAIN Magic THEN Magic[k] ELSE 0]
    \o f.name \o <<0, 0>>
    \o Encode(f.settings \o f.path \o <<0>> \o f.creator \o <<0>>) \o <<0>>

(***************************************************************************)
(* The parser.                                                             *)
(***************************************************************************)
Zeros(s, from) == {k \in from..Len(s) : s[k] = 0}

\* Mutant of Decode: the bits of the mask are read from the lowest one.
DecodeLowBits(s) ==
  [i \in 1..(Len(s) - Groups(Len(s), Group + 1)) |->
     LET g == (i - 1) \div Group
         b == ((i - 1) % Group) + 1
         mask == s[g * (Group + 1) + 1]
         byte == s[g * (Group + 1) + 1 + b]
     IN IF Odd(mask \div Bit[b - 1]) THEN byte ELSE byte - 1]

\* The bytes but the masks, each as it was before it was encoded.
Decode(s) ==
  [i \in 1..(Len(s) - Groups(Len(s), Group + 1)) |->
     LET g == (i - 1) \div Group
         b == ((i - 1) % Group) + 1
         mask == s[g * (Group + 1) + 1]
         byte == s[g * (Group + 1) + 1 + b]
     IN IF Odd(mask \div Bit[b]) THEN byte ELSE byte - 1]

\* decode_stat_string, up to the whole path
MapPath(d, start) ==
  LET ends == Zeros(d, start)
      raw == Decode(SubSeq(d, start, Min(ends) - 1))
      stops == Zeros(raw, SettingsLen + 1)
  IN IF ends = {} \/ Len(raw) <= SettingsLen THEN NoFields
     ELSE SubSeq(raw, SettingsLen + 1, IF stops = {} THEN Len(raw) ELSE Min(stops) - 1)

\* parse_gameinfo
Parse(d) ==
  LET ends == Zeros(d, HeaderLen + 1)
  IN IF Len(d) <= HeaderLen \/ SubSeq(d, 1, 2) # Magic \/ ends = {} THEN NoFields
     ELSE [name |-> SubSeq(d, HeaderLen + 1, Min(ends) - 1), path |-> MapPath(d, Min(ends) + 2)]

GameinfoInit ==
  /\ fields \in Fields
  /\ packet = Announce(fields)

\* The buffer of check_room is too short for the last byte.
Truncate ==
  /\ packet # <<>>
  /\ packet' = SubSeq(packet, 1, Len(packet) - 1)
  /\ UNCHANGED fields

GameinfoSpec == GameinfoInit /\ [][Truncate]_gameinfoVars

\* A packet gives the name and the path that the game announces.  One that is cut off
\* gives no fields, or no path, but never a part of one.
ReadsWhatWasAnnounced ==
  LET whole == packet = Announce(fields)
      read == Parse(packet)
  IN /\ whole => read = [name |-> fields.name, path |-> fields.path]
     /\ read # NoFields => read.name = fields.name /\ read.path \in {NoFields, fields.path}
=============================================================================
