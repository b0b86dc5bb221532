------------------------------ MODULE NewsFeed ------------------------------
(***************************************************************************)
(* services/news.py: the feed of the world wire, or without a key for it   *)
(* and after its failure the news of every tracked instrument, fetched in  *)
(* parallel and merged: a story that several wires carry is shown once,    *)
(* with the tags of all its instruments.                                   *)
(*                                                                         *)
(* Of a story are kept its key (URL or title), its date and the instru-    *)
(* ments its text mentions; the tag "macro" depends on the text alone and  *)
(* is left out.                                                            *)
(***************************************************************************)
EXTENDS Views, SequencesExt

CONSTANTS Stories, Key, Date, Mentions,
          NoKey,         \* no URL and no title
          WorldKey,      \* a key for the world wire is configured
          NewsCapable,   \* instruments that have a news symbol
          Wires,         \* the lists of stories that a wire may answer
          FeedLimit      \* limit

\* Wires carry stories, which are dated by numbers, and fn of the feed returns them.
ASSUME StoriesAssumption ==
    /\ Wires \subseteq Seq(Stories)
    /\ \A n \in Stories : Date[n] \in Int /\ Mentions[n] \subseteq Instruments
    /\ FeedLimit \in Int
ASSUME FetchedAssumption ==
    \A x \in Instruments, ok \in BOOLEAN, raw \in Wires \cup {<<>>} :
        [of |-> x, ok |-> ok, raw |-> raw] \in ResultsOf[x]

VARIABLES stage,      \* where the feed is
          wire,       \* stories of the world wire that are not tagged yet
          merged,     \* how many targets' stories have been merged
          headlines,  \* the list so far
          errors      \* the targets without an answer

feedVars == <<stage, wire, merged, headlines, errors>>

Stages == {"none", "wire", "tagging", "fetching"}

Headline == [story : Stories, tags : SUBSET Instruments]
Fetched == [of : Instruments, ok : BOOLEAN, raw : Seq(Stories)]

FeedTypeOK ==
    /\ stage \in Stages
    /\ stage = "none" <=> view # "news"
    /\ wire \in Seq(Stories)
    /\ merged \in 0 .. Len(got)
    /\ headlines \in Seq(Headline)
    /\ errors \subseteq Instruments

FeedInit ==
    /\ stage = "none"
    /\ wire = <<>>
    /\ merged = 0
    /\ headlines = <<>>
    /\ errors = {}

-----------------------------------------------------------------------------

\* news_wire_targets.
Targets == Among(tracked, NewsCapable)

FetchFor(targets) == Begin(targets, MaxWorkers) /\ stage' = "fetching"

\* feed() for one instrument, and for all: the world wire comes first.
AskNews ==
    /\ view = "none"
    /\ view' = "news"
    /\ \/ \E x \in Instruments : IsTracked(x) /\ FetchFor(<<x>>)
       \/ ~ WorldKey /\ FetchFor(Targets)
       \/ WorldKey /\ stage' = "wire" /\ UNCHANGED fanVars
    /\ UNCHANGED <<tracked, about, saw, wire, merged, headlines, errors>>

\* The wire raises: the instruments' own news instead.
WireRaises ==
    /\ stage = "wire"
    /\ FetchFor(Targets)
    /\ UNCHANGED <<tracked, view, about, saw, wire, merged, headlines, errors>>

WireAnswers ==
    /\ stage = "wire"
    /\ stage' = "tagging"
    /\ wire' \in Wires
    /\ UNCHANGED <<viewVars, merged, headlines, errors>>

Shown(hs, n) == \E i \in DOMAIN hs : Key[hs[i].story] = Key[n]

\* _world_headline reads the registry again for every story; _dedupe_sorted
\* keeps the first story of a key.
TagStory ==
    LET n == Head(wire)
        tags == {x \in Mentions[n] : IsTracked(x)}
    IN  /\ stage = "tagging"
        /\ wire # <<>>
        /\ headlines' = IF Key[n] = NoKey \/ Shown(headlines, n) THEN headlines
                        ELSE Append(headlines, [story |-> n, tags |-> tags])
        /\ wire' = Tail(wire)
        /\ UNCHANGED <<viewVars, stage, merged, errors>>

-----------------------------------------------------------------------------
(* The instruments' own news.                                              *)

TakeTarget(i) ==
    /\ stage = "fetching"
    /\ Take(i)
    /\ UNCHANGED <<tracked, view, about, saw, feedVars>>

\* _fetch: without a news symbol no call is made; company_news may raise.
FetchEnds(i) ==
    /\ stage = "fetching"
    /\ \/ Finish(i, [of |-> batch[i], ok |-> FALSE, raw |-> <<>>])
       \/ /\ batch[i] \in NewsCapable
          /\ \E raw \in Wires : Finish(i, [of |-> batch[i], ok |-> TRUE, raw |-> raw])
    /\ UNCHANGED <<tracked, view, about, saw, feedVars>>

\* What the world wire has of a crypto coin without news of its own: nothing if
\* it raises, has no key, or the coin is no longer tracked.
Fallbacks(x) ==
    {<<>>} \cup IF WorldKey /\ IsTracked(x)
                  THEN {Picked(raw, {j \in DOMAIN raw : x \in Mentions[raw[j]]}) : raw \in Wires}
                  ELSE {}

\* Mutant: a story that is there already is passed over.
NoFurtherTag(h, x, raw) == h

\* A headline that the wire of x carries too gets a further tag.
FurtherTag(h, x, raw) ==
    IF \E j \in DOMAIN raw : Key[raw[j]] = Key[h.story]
      THEN [h EXCEPT !.tags = @ \cup {x}] ELSE h

\* The stories of raw that are not shown yet, of those with one key the first.
NewStories(raw) ==
    Picked(raw, {j \in DOMAIN raw : /\ Key[raw[j]] # NoKey
                                    /\ ~ Shown(headlines, raw[j])
                                    /\ \A k \in 1 .. j - 1 : Key[raw[k]] # Key[raw[j]]})

\* The loop over the stories of x.
Merge(x, raw) ==
    LET new == NewStories(raw)
    IN  headlines' = [i \in DOMAIN headlines |-> FurtherTag(headlines[i], x, raw)]
                     \o [p \in DOMAIN new |-> [story |-> new[p], tags |-> {x}]]

MergeTarget ==
    LET r == got[merged + 1]
    IN  /\ stage = "fetching"
        /\ phase = "returned"
        /\ merged < Len(got)
        /\ IF ~ r.ok
             THEN errors' = errors \cup {r.of} /\ UNCHANGED headlines
             ELSE /\ IF r.raw = <<>> /\ r.of \in Crypto
                       THEN \E raw \in Fallbacks(r.of) : Merge(r.of, raw)
                       ELSE Merge(r.of, r.raw)
                  /\ UNCHANGED errors
        /\ merged' = merged + 1
        /\ UNCHANGED <<viewVars, stage, wire>>

-----------------------------------------------------------------------------
(* The answer.                                                             *)

FeedEnds ==
    \/ stage = "tagging" /\ wire = <<>>
    \/ stage = "fetching" /\ phase = "returned" /\ merged = Len(got)

\* "all news fetches failed".
FeedRaises ==
    /\ stage = "fetching"
    /\ headlines = <<>>
    /\ errors # {}
    /\ Cardinality(errors) = Len(batch)

\* Newest first.
FeedAnswer == UpTo(FeedLimit, RankDesc(headlines, LAMBDA h : <<Date[h.story], 0>>))

SendFeed ==
    /\ FeedEnds
    /\ IF phase = "returned" THEN Leave ELSE UNCHANGED fanVars
    /\ view' = "none"
    /\ stage' = "none"
    /\ wire' = <<>>
    /\ merged' = 0
    /\ headlines' = <<>>
    /\ errors' = {}
    /\ UNCHANGED <<tracked, about, saw>>

FeedProgress ==
    \/ WireRaises \/ WireAnswers \/ TagStory \/ MergeTarget
    \/ \E i \in DOMAIN batch : TakeTarget(i) \/ FetchEnds(i)

\* The views of Views, of which Iterate also serves the feed.
FeedNext ==
    \/ ViewsNext /\ UNCHANGED feedVars
    \/ AskNews \/ FeedProgress \/ SendFeed
=============================================================================
