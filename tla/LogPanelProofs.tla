--------------------------- MODULE LogPanelProofs ---------------------------
(***************************************************************************)
(* The cached indices of the log panel are right for every capacity and    *)
(* every set of search texts.                                              *)
(***************************************************************************)
EXTENDS LogPanel, TLAPS

LogInv == LogTypeOK /\ ShowsWhatPasses

\* LOG_BUFFER_MIN is positive, and so is what the size is brought to.
LEMMA CapacityPositive == Capacity \in Nat \ {0}
<1>1. /\ MaxEntries \in Nat /\ MinEntries \in Nat \ {0} /\ LargestEntries \in Nat
      /\ MinEntries <= LargestEntries
  BY LogAssumption
<1>2. CASE MaxEntries < MinEntries
  BY <1>1, <1>2 DEF Capacity
<1>3. CASE ~(MaxEntries < MinEntries) /\ MaxEntries > LargestEntries
  BY <1>1, <1>3 DEF Capacity
<1>4. CASE ~(MaxEntries < MinEntries) /\ ~(MaxEntries > LargestEntries)
  BY <1>1, <1>4 DEF Capacity
<1> QED
  BY <1>2, <1>3, <1>4

\* An empty buffer shows nothing.
LEMMA NothingToShow ==
  ASSUME NEW v, NEW q
  PROVE  <<>> \in Seq(Entry) /\ Len(<<>>) = 0 /\ Rebuilt(<<>>, v, q) = {}
<1>1. DOMAIN <<>> = {}
  OBVIOUS
<1>2. Rebuilt(<<>>, v, q) = {}
  BY <1>1 DEF Rebuilt
<1> QED
  BY <1>2

\* An entry at the end adds its own index to those that pass, or none.
LEMMA AppendExtends ==
  ASSUME NEW s \in Seq(Entry), NEW e \in Entry, NEW v, NEW q
  PROVE  Rebuilt(Append(s, e), v, q) =
           IF Passes(e, v, q) THEN Rebuilt(s, v, q) \cup {Len(s) + 1} ELSE Rebuilt(s, v, q)
<1>1. DOMAIN Append(s, e) = DOMAIN s \cup {Len(s) + 1} /\ Len(s) + 1 \notin DOMAIN s
  OBVIOUS
<1>2. \A i \in DOMAIN s : Append(s, e)[i] = s[i]
  OBVIOUS
<1>3. Append(s, e)[Len(s) + 1] = e
  OBVIOUS
<1> QED
  BY <1>1, <1>2, <1>3 DEF Rebuilt

\* A new entry, and the oldest one that has to go.
LEMMA PushKeeps ==
  ASSUME LogInv, NEW e \in Entry, Push(e)
  PROVE  LogInv'
<1> DEFINE longer == Append(entries, e)
<1>1. entries \in Seq(Entry) /\ Len(entries) <= Capacity /\ filtered = Rebuilt(entries, verbosity, query)
  BY DEF LogInv, LogTypeOK, ShowsWhatPasses
<1>2. longer \in Seq(Entry) /\ Len(longer) = Len(entries) + 1 /\ longer # <<>>
  BY <1>1
<1>3. entries' \in Seq(Entry) /\ Len(entries') <= Capacity /\ filtered' = Rebuilt(entries', verbosity, query)
  <2>1. CASE Len(longer) > Capacity
    <3>1. entries' = Tail(longer) /\ filtered' = Rebuilt(entries', verbosity, query)
      BY <2>1 DEF Push
    <3> HIDE DEF longer
    <3>2. Tail(longer) \in Seq(Entry) /\ Len(Tail(longer)) = Len(longer) - 1
      BY <1>2
    <3> QED
      BY <1>1, <1>2, <3>1, <3>2, CapacityPositive
  <2>2. CASE ~(Len(longer) > Capacity)
    <3>1. /\ entries' = longer
          /\ filtered' = IF Passes(e, verbosity, query) THEN filtered \cup {Len(longer)} ELSE filtered
      BY <2>2 DEF Push
    <3>2. filtered' = Rebuilt(longer, verbosity, query)
      BY <1>1, <1>2, <3>1, AppendExtends
    <3> QED
      BY <1>1, <1>2, <2>2, <3>1, <3>2, CapacityPositive
  <2> QED
    BY <2>1, <2>2
<1>4. UNCHANGED <<verbosity, query, searching>>
  BY DEF Push
<1>5. filtered' \subseteq DOMAIN entries'
  BY <1>3 DEF Rebuilt
<1> QED
  BY <1>3, <1>4, <1>5 DEF LogInv, LogTypeOK, ShowsWhatPasses

\* An empty panel.
LEMMA ClearKeeps ==
  ASSUME LogInv, Clear
  PROVE  LogInv'
<1>1. entries' = <<>> /\ filtered' = {} /\ UNCHANGED <<verbosity, query, searching>>
  BY DEF Clear
<1>2. entries' \in Seq(Entry) /\ Len(entries') = 0 /\ filtered' = Rebuilt(entries', verbosity, query)
  BY <1>1, NothingToShow
<1>3. Len(entries') <= Capacity
  BY <1>2, CapacityPositive
<1>4. filtered' \subseteq DOMAIN entries'
  BY <1>1
<1> QED
  BY <1>1, <1>2, <1>3, <1>4 DEF LogInv, LogTypeOK, ShowsWhatPasses

\* Everything else leaves the entries alone.
LEMMA LogStepKeeps ==
  ASSUME LogInv, [LogNext]_logVars
  PROVE  LogInv'
<1> USE DEF LogInv, LogTypeOK, ShowsWhatPasses
<1>1. ASSUME NEW e \in Entry, Push(e)
      PROVE  LogInv'
  BY <1>1, PushKeeps
<1>2. CASE Clear
  BY <1>2, ClearKeeps
<1>3. ASSUME NEW v \in Verbosity, SetVerbosity(v)
      PROVE  LogInv'
  BY <1>3 DEF SetVerbosity, Rebuilt
<1>4. CASE OpenSearch
  BY <1>4 DEF OpenSearch
<1>5. CASE CloseSearch
  BY <1>5 DEF CloseSearch, Rebuilt
<1>6. ASSUME NEW q \in Query \cup {""}, Type(q)
      PROVE  LogInv'
  BY <1>6 DEF Type, Rebuilt
<1>7. CASE UNCHANGED logVars
  BY <1>7 DEF logVars
<1> QED
  BY <1>1, <1>2, <1>3, <1>4, <1>5, <1>6, <1>7 DEF LogNext

\* The invariant holds at the start.
LEMMA LogStart ==
  ASSUME LogInit
  PROVE  LogInv
<1>1. entries \in Seq(Entry) /\ Len(entries) = 0 /\ filtered = Rebuilt(entries, verbosity, query)
  BY NothingToShow DEF LogInit
<1>2. Len(entries) <= Capacity
  BY <1>1, CapacityPositive
<1>3. filtered \subseteq DOMAIN entries
  BY DEF LogInit
<1>4. verbosity \in Verbosity
  <2>1. verbosity = 1
    BY DEF LogInit
  <2> QED
    BY <2>1 DEF Verbosity
<1>5. query = "" /\ searching = FALSE
  BY DEF LogInit
<1> QED
  BY <1>1, <1>2, <1>3, <1>4, <1>5 DEF LogInv, LogTypeOK, ShowsWhatPasses

\* The panel shows exactly the entries of the buffer that pass the filter, whatever was
\* pushed, evicted, searched for or cleared (ui/log_panel.rs, rebuild_filtered_indices).
THEOREM PanelShowsWhatPasses == LogSpec => []ShowsWhatPasses
<1>1. LogInit => LogInv
  BY LogStart
<1>2. LogInv /\ [LogNext]_logVars => LogInv'
  BY LogStepKeeps
<1>3. LogInv => ShowsWhatPasses
  BY DEF LogInv
<1> QED
  BY <1>1, <1>2, <1>3, PTL DEF LogSpec
=============================================================================
