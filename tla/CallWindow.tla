---------------------------- MODULE CallWindow ----------------------------
(***************************************************************************)
(* phraseguard/matcher.py's CallWindow and BScorer: the words heard on one *)
(* call in the last WindowS, what of them was already reported, and the    *)
(* score of the weaker signals among them.  Operators on a window record.  *)
(* Places in tokens are relative to the window, places in reported are     *)
(* absolute: dropped is the difference.                                    *)
(***************************************************************************)
EXTENDS Matcher, Recency

CONSTANTS
    WindowS,      \* PHRASEGUARD_B_WINDOW_S
    MaxTokens,    \* CallWindow.max_tokens
    BThreshold, C1Weight, C2Weight, MaxSuppress  \* BScorer, in halves

ASSUME WindowNat ==
    {WindowS, MaxTokens, BThreshold, C1Weight, C2Weight, MaxSuppress} \subseteq Nat

NewWindow == [tokens |-> <<>>, times |-> <<>>, dropped |-> 0, hits |-> <<>>,
              reported |-> {}, fired |-> {}, bEvents |-> 0]

Hits(w) == {w.hits[i] : i \in DOMAIN w.hits}

\* What the hits of a window are still evidence of.
LiveCategories(hits) ==
    {h.category : h \in hits}
        \cup (IF \E h \in hits : h.tier = "A-near" THEN {"A-near"} ELSE {})

\* Mutant: everything reported is forgotten whenever words leave.
EvictForgets(w, now) ==
    LET fresh == Cardinality({i \in DOMAIN w.times : w.times[i] >= now - WindowS})
        size == Len(w.tokens)
        keep == Min2(fresh, MaxTokens)
        gone == w.dropped + size - keep
        hits == Since(w.hits, now - WindowS)
    IN [w EXCEPT !.tokens = SubSeq(@, size - keep + 1, size),
                 !.times = SubSeq(@, size - keep + 1, size),
                 !.dropped = gone,
                 !.reported = IF keep < size THEN {} ELSE @,
                 !.hits = hits,
                 !.fired = @ \cap LiveCategories({hits[i] : i \in DOMAIN hits})]

\* _evict: words and hits leave by age, words by number too; what was reported
\* of words that are gone is forgotten, and so is what fired on them.
Evict(w, now) ==
    LET fresh == Cardinality({i \in DOMAIN w.times : w.times[i] >= now - WindowS})
        size == Len(w.tokens)
        keep == Min2(fresh, MaxTokens)
        gone == w.dropped + size - keep
        hits == Since(w.hits, now - WindowS)
    IN [w EXCEPT !.tokens = SubSeq(@, size - keep + 1, size),
                 !.times = SubSeq(@, size - keep + 1, size),
                 !.dropped = gone,
                 !.reported = {r \in @ : r.to > gone},
                 !.hits = hits,
                 !.fired = @ \cap LiveCategories({hits[i] : i \in DOMAIN hits})]

\* add: the new words, and the place of the first of them that is left.
Add(w, new, now) ==
    IF new = <<>> THEN [win |-> w, since |-> Len(w.tokens)]
    ELSE LET grown == [w EXCEPT !.tokens = @ \o new,
                                !.times = @ \o [i \in DOMAIN new |-> now]]
             left == Evict(grown, now)
         IN [win |-> left,
             since |-> Max2(0, Len(w.tokens) - (left.dropped - w.dropped))]

Absolute(w, m) == [row |-> m.phrase.row, from |-> w.dropped + m.from,
                   to |-> w.dropped + m.to]

\* accept: a match is new unless a reported span of its row overlaps it.
IsNew(w, m) ==
    ~\E r \in w.reported : r.row = m.phrase.row /\ Overlap(r, Absolute(w, m))

\* record, and accept's note of the span.
Record(w, m, now) ==
    [w EXCEPT !.reported = @ \cup {Absolute(w, m)},
              !.hits = Append(@, [at |-> now, tier |-> m.tier,
                                  category |-> m.phrase.category])]

\* BScorer.score: distinct B categories, the near misses as one more, less the
\* weight of the suppressors.
Contributing(w) ==
    {h.category : h \in {x \in Hits(w) : x.tier = "B"}}
        \cup (IF \E x \in Hits(w) : x.tier = "A-near" THEN {"A-near"} ELSE {})
Suppressing(w) == {h.category : h \in {x \in Hits(w) : x.tier = "C"}}

BScore(w) ==
    LET others == Cardinality(Suppressing(w) \ {"C1"})
        weight == others * C2Weight + (IF "C1" \in Suppressing(w) THEN C1Weight ELSE 0)
    IN Max2(0, 2 * Cardinality(Contributing(w)) - Min2(weight, MaxSuppress))

\* Mutant: anything that fired before keeps the window quiet.
CrossesOnce(w) == BScore(w) >= BThreshold /\ Contributing(w) \cap w.fired = {}

\* should_fire: over the threshold, with a category that has not fired yet.
Crosses(w) == BScore(w) >= BThreshold /\ ~(Contributing(w) \subseteq w.fired)

Fire(w) == [w EXCEPT !.fired = @ \cup Contributing(w), !.bEvents = @ + 1]
=============================================================================
