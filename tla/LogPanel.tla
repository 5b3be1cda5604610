------------------------------ MODULE LogPanel ------------------------------
(***************************************************************************)
(* The log panel of the client (ui/log_panel.rs): a ring buffer of log     *)
(* entries and, so that a frame need not look at all of them, the indices  *)
(* of those that pass the filter, kept up to date as entries come and go   *)
(* and the filter changes.                                                 *)
(*                                                                         *)
(* The text of an entry is the set of the search queries it contains.      *)
(***************************************************************************)
EXTENDS Integers, Sequences, FiniteSets

CONSTANTS
  Query,       \* search texts
  MaxEntries,  \* max_entries
  MinEntries, LargestEntries  \* LOG_BUFFER_MIN, LOG_BUFFER_MAX

Verbosity == 1..3   \* Concise, Detailed, Full

ASSUME LogAssumption ==
  /\ "" \notin Query
  /\ MaxEntries \in Nat /\ MinEntries \in Nat \ {0} /\ LargestEntries \in Nat
  /\ MinEntries <= LargestEntries

VARIABLES
  entries,   \* the ring buffer
  filtered,  \* filtered_indices, in ascending order, as a set
  verbosity, \* verbosity_filter
  query, searching

logVars == <<entries, filtered, verbosity, query, searching>>

Entry == [verbosity : Verbosity, text : SUBSET Query]

LogTypeOK ==
  /\ entries \in Seq(Entry)
  /\ filtered \subseteq DOMAIN entries
  /\ verbosity \in Verbosity /\ query \in Query \cup {""} /\ searching \in BOOLEAN

\* new, and AppConfig::normalize: the size is brought into its range.
Capacity == IF MaxEntries < MinEntries THEN MinEntries
            ELSE IF MaxEntries > LargestEntries THEN LargestEntries ELSE MaxEntries

LogInit ==
  /\ entries = <<>> /\ filtered = {}
  /\ verbosity = 1 /\ query = "" /\ searching = FALSE

\* entry_passes_filter
Passes(e, v, q) == e.verbosity <= v /\ (q = "" \/ q \in e.text)

\* rebuild_filtered_indices
Rebuilt(s, v, q) == {i \in DOMAIN s : Passes(s[i], v, q)}

\* Mutant of Push: the indices are only appended to.
PushAppends(e) ==
  LET longer == Append(entries, e)
      full == Len(longer) > Capacity
  IN /\ entries' = IF full THEN Tail(longer) ELSE longer
     /\ filtered' = IF Passes(e, verbosity, query) THEN filtered \cup {Len(entries')} ELSE filtered
     /\ UNCHANGED <<verbosity, query, searching>>

\* A full buffer loses its oldest entry, which changes all indices.
Push(e) ==
  LET longer == Append(entries, e)
      full == Len(longer) > Capacity
  IN /\ entries' = IF full THEN Tail(longer) ELSE longer
     /\ filtered' = IF full THEN Rebuilt(entries', verbosity, query)
                    ELSE IF Passes(e, verbosity, query) THEN filtered \cup {Len(longer)}
                    ELSE filtered
     /\ UNCHANGED <<verbosity, query, searching>>

Clear ==
  /\ entries' = <<>> /\ filtered' = {}
  /\ UNCHANGED <<verbosity, query, searching>>

SetVerbosity(v) ==
  /\ v # verbosity
  /\ verbosity' = v
  /\ filtered' = Rebuilt(entries, v, query)
  /\ UNCHANGED <<entries, query, searching>>

OpenSearch ==
  /\ ~searching
  /\ searching' = TRUE
  /\ UNCHANGED <<entries, filtered, verbosity, query>>

Type(q) ==
  /\ searching /\ q # query
  /\ query' = q
  /\ filtered' = Rebuilt(entries, verbosity, q)
  /\ UNCHANGED <<entries, verbosity, searching>>

CloseSearch ==
  /\ searching
  /\ searching' = FALSE /\ query' = ""
  /\ filtered' = Rebuilt(entries, verbosity, "")
  /\ UNCHANGED <<entries, verbosity>>

LogNext ==
  \/ \E e \in Entry : Push(e)
  \/ Clear
  \/ \E v \in Verbosity : SetVerbosity(v)
  \/ OpenSearch \/ CloseSearch
  \/ \E q \in Query \cup {""} : Type(q)

LogSpec == LogInit /\ [][LogNext]_logVars

\* What the panel shows is what passes the filter, no entry that has left the buffer and
\* none that another has replaced, and nothing is hidden by a search that is closed.
ShowsWhatPasses ==
  /\ filtered = Rebuilt(entries, verbosity, query)
  /\ ~searching => query = ""
  /\ Len(entries) <= Capacity
=============================================================================
