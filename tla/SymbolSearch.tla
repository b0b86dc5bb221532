---------------------------- MODULE SymbolSearch ----------------------------
(***************************************************************************)
(* services/symbol_search.py: suggestions for one asset class, from the    *)
(* broker's list of assets where one is configured and from curated lists. *)
(* What matches a query is a set of symbols here.                          *)
(***************************************************************************)
EXTENDS Integers, Sequences, FiniteSets, SequencesExt, Rankings

CONSTANTS Majors,      \* Majors[a]: the curated list of a class, in its order
          Templates,   \* the futures that have a template
          BrokerLists, \* what the broker may answer, <<>> also if it raises
          IsEtf,       \* what the broker takes for a fund
          MaxLimit

VARIABLES class,       \* the class that is searched, or "none"
          matching,    \* the symbols that match the query
          most,        \* limit
          broker,      \* the broker's list
          suggested       \* the suggestions

searchVars == <<class, matching, most, broker, suggested>>

Curated == UNION {{Majors[a][i] : i \in DOMAIN Majors[a]} : a \in DOMAIN Majors}
           \cup {Templates[i] : i \in DOMAIN Templates}

\* The classes there are; a curated list names nothing twice.
ASSUME SearchAssumption ==
    /\ MaxLimit \in Nat \ {0}
    /\ DOMAIN Majors = {"equity", "etf", "forex", "crypto", "futures"}
    /\ Templates \in Seq(Curated)
    /\ \A a \in DOMAIN Majors :
          /\ Majors[a] \in Seq(Curated)
          /\ \A i, j \in DOMAIN Majors[a] : Majors[a][i] = Majors[a][j] => i = j
    /\ <<>> \in BrokerLists
    /\ BrokerLists \subseteq Seq(UNION {Range(b) : b \in BrokerLists})

SearchTypeOK ==
    /\ class \in {"none"} \cup DOMAIN Majors
    /\ matching \subseteq Curated
    /\ most \in 1 .. MaxLimit
    /\ broker \in BrokerLists
    /\ suggested \in Seq(Curated \cup UNION {Range(b) : b \in BrokerLists})

SearchInit ==
    /\ class = "none"
    /\ matching = {}
    /\ most = 1
    /\ broker = <<>>
    /\ suggested = <<>>

\* Each once, the first time.
Once(symbols) == Picked(symbols, Firsts(symbols))

Matching(symbols) == Among(symbols, matching')

\* _alpaca_hits: the broker's assets that are funds, or that are not.
BrokerHits ==
    Picked(broker', {i \in DOMAIN broker' : (class' = "etf") = (broker'[i] \in IsEtf)})

\* Mutant: what the broker has answered is suggested again.
CuratedHitsAgain(limit, seen) == UpTo(limit, Matching(Majors[class']))

\* _curated_equity_etf, which stops after the limit is reached, not before.
CuratedHits(limit, seen) ==
    UpTo(limit, Among(Majors[class'], matching' \ Range(seen)))

ListedHits ==
    LET hits == Once(BrokerHits)
    IN  hits \o CuratedHits(most' - Len(hits), hits)

\* Templates, whatever the limit, and then the other futures.
FuturesHits ==
    LET templates == Once(Matching(Templates))
        others == Among(Majors["futures"], matching' \ Range(templates))
    IN  templates \o UpTo(most' - Len(templates), others)

\* search.
Hits ==
    LET all == CASE class' \in {"equity", "etf"} -> ListedHits
                 [] class' \in {"forex", "crypto"} -> UpTo(most', Matching(Majors[class']))
                 [] class' = "futures" -> FuturesHits
    IN  SubSeq(all, 1, IF most' < Len(all) THEN most' ELSE Len(all))

Search ==
    /\ class = "none"
    /\ class' \in DOMAIN Majors
    /\ most' \in 1 .. MaxLimit
    /\ matching' \in SUBSET (Range(Majors[class']) \cup IF class' = "futures" THEN Range(Templates) ELSE {})
    /\ broker' \in IF class' \in {"equity", "etf"} THEN {b \in BrokerLists : Len(b) <= most'} ELSE {<<>>}
    /\ suggested' = Hits

SendSuggestions ==
    /\ class # "none"
    /\ class' = "none"
    /\ matching' = {}
    /\ most' = 1
    /\ broker' = <<>>
    /\ suggested' = <<>>

SearchNext == Search \/ SendSuggestions
=============================================================================
