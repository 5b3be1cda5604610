------------------------------ MODULE MCParts ------------------------------
(***************************************************************************)
(* Instances for TLC of the small parts that stand on their own: the slots  *)
(* per IP address and the rate limiter of the server, the GAMEINFO parser   *)
(* and the log panel of the client.  A behaviour is one of one part; the   *)
(* other parts rest in their initial states.                               *)
(***************************************************************************)
EXTENDS ConnSlots, RateLimit, Gameinfo, LogPanel

VARIABLE part

allVars == <<part, slotVars, rateVars, gameinfoVars, logVars>>

SomeMagic == <<7, 3>>

\* Settings and texts over the boundary between two masks, with odd and even bytes.
SomeTexts == UNION {[1..n -> {1, 2, 7}] : n \in 0..3}
SomeFields ==
  [name : {<<>>, <<5>>}, settings : [1..2 -> {0, 1, 6, 7}], path : SomeTexts, creator : {<<>>, <<4>>}]

PartsInit ==
  /\ part \in {"slots", "rate", "gameinfo", "log"}
  /\ SlotsInit /\ RateInit /\ LogInit
  /\ IF part = "gameinfo" THEN GameinfoInit
     ELSE fields = (CHOOSE f \in Fields : TRUE) /\ packet = Announce(fields)

SlotsStep == part = "slots" /\ SlotsNext /\ UNCHANGED <<part, rateVars, gameinfoVars, logVars>>
RateStep == part = "rate" /\ RateNext /\ UNCHANGED <<part, slotVars, gameinfoVars, logVars>>
GameinfoStep == part = "gameinfo" /\ Truncate /\ UNCHANGED <<part, slotVars, rateVars, logVars>>
LogStep == part = "log" /\ LogNext /\ UNCHANGED <<part, slotVars, rateVars, gameinfoVars>>

PartsNext == SlotsStep \/ RateStep \/ GameinfoStep \/ LogStep

PartsSpec == PartsInit /\ [][PartsNext]_allVars
=============================================================================
