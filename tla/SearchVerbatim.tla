---------------------------- MODULE SearchVerbatim ----------------------------
(***************************************************************************)
(* The query of an address (router/searchVerbatim.ts).  The router parses  *)
(* every query into a record and writes the address back from the record;  *)
(* parameters of the app in the page must come through byte for byte.  The *)
(* module remembers the text each record was last parsed from, for all     *)
(* routers of the tab, the least recently parsed dropped first.            *)
(***************************************************************************)
EXTENDS Naturals, SequencesExt

CONSTANTS Raws,           \* texts of queries
          EntriesOf,      \* the record each one parses to
          BuiltFrom,      \* what URLSearchParams writes for a record
          MaxRemembered

Searches == { EntriesOf[r] : r \in Raws }

\* rawByEntries in its order of insertion, newest last.
Remembered(search, raw) == [search |-> search, raw |-> raw]

remember(memory, search, raw) ==
  LET others == SelectSeq(memory, LAMBDA m : m.search # search)
      all == Append(others, Remembered(search, raw))
  IN IF Len(all) > MaxRemembered THEN Tail(all) ELSE all

parseSearchVerbatim(memory, raw) == remember(memory, EntriesOf[raw], raw)

stringifySearchVerbatim(memory, search) ==
  IF \E i \in DOMAIN memory : memory[i].search = search
  THEN memory[CHOOSE i \in DOMAIN memory : memory[i].search = search].raw
  ELSE BuiltFrom[search]

\* The memory after queries were parsed, in this order.
After(raws) == FoldLeft(parseSearchVerbatim, <<>>, raws)

Histories(n) == UNION { [1 .. m -> Raws] : m \in 0 .. n }

(***************************************************************************)
(* After any queries the memory is within its bound, a record is written   *)
(* as a text that means the same, and the one parsed last as it was, byte  *)
(* for byte (searchVerbatim.ts:1-5).                                       *)
(***************************************************************************)
ComesBackVerbatim(n) ==
  \A raws \in Histories(n) :
    LET memory == After(raws) IN
      /\ Len(memory) <= MaxRemembered
      /\ \A s \in Searches : EntriesOf[stringifySearchVerbatim(memory, s)] = s
      /\ raws # <<>> => stringifySearchVerbatim(memory, EntriesOf[Last(raws)]) = Last(raws)

(***************************************************************************)
(* Parsing a query again keeps it: one in use is not dropped for one that  *)
(* was parsed once, as long as fewer others came between than the memory   *)
(* holds (searchVerbatim.ts:16-22).                                        *)
(***************************************************************************)
RecentIsKept(n) ==
  \A raws \in Histories(n) : \A i \in DOMAIN raws :
    LET later == { EntriesOf[raws[j]] : j \in i + 1 .. Len(raws) }
    IN EntriesOf[raws[i]] \notin later /\ Cardinality(later) < MaxRemembered =>
         stringifySearchVerbatim(After(raws), EntriesOf[raws[i]]) = raws[i]
===============================================================================
