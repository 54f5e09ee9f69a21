------------------------------ MODULE Matcher ------------------------------
(***************************************************************************)
(* The corpus and the matcher of phraseguard/matcher.py, as operators: a   *)
(* phrase list is parsed and indexed, and the words heard on one call are  *)
(* scored against it.  Nothing here has state.                             *)
(*                                                                         *)
(* A word is what normalize() returns: lower case, no punctuation, number  *)
(* words folded.  Its letters (Spelling) decide edit distances; its        *)
(* phonetic key (Sound) stands for metaphone.py, the key of several words  *)
(* being their keys put together.  Scores are in thousandths.              *)
(***************************************************************************)
EXTENDS Integers, Sequences, FiniteSets, SequencesExt

CONSTANTS
    Words,        \* the words of the corpus and of the speakers
    Spelling,     \* Words -> sequence of letters
    Sound,        \* Words -> sequence of phonetic codes
    Common,       \* COMMON_WORDS
    Stopwords,    \* _STOPWORDS
    Files,        \* contents phrases.csv may have: name -> sequence of lines
    Langs,        \* PHRASEGUARD_LANGS
    Vocabularies, \* bound of this model: what one speaker draws words from
    TriggerDfMax, \* _TRIGGER_DF_MAX
    BrandSpan,    \* Thresholds.brand_span
    EditRatio,    \* letters per edit allowed, the inverse of edit_ratio
    Kill, Review, PairKill, PairReview,
    DistanceBound \* bound of this model: the words edit distances are tried on

ASSUME PhrasesGiven ==
    \A n \in DOMAIN Files :
        Files[n] \in Seq([comment : BOOLEAN, tier : STRING, category : STRING, lang : STRING,
                          anchor : STRING, tokens : Seq(Words)])
ASSUME WordsSpelled == \A w \in Words : Spelling[w] \in Seq(ToSet(Spelling[w])) \ {<<>>}
ASSUME ThresholdsNat ==
    /\ {TriggerDfMax, Kill, Review, PairKill, PairReview, DistanceBound} \subseteq Nat
    /\ {BrandSpan, EditRatio} \subseteq Nat \ {0}

Max2(a, b) == IF a > b THEN a ELSE b
Min2(a, b) == IF a < b THEN a ELSE b
FileNames == DOMAIN Files

-----------------------------------------------------------------------------
(* Corpus.load: one bad line refuses the whole file.                       *)

Rows(f) == {i \in DOMAIN f : ~f[i].comment}
Spoken(f) == {i \in Rows(f) : f[i].lang \in Langs}

BadRow(line) ==
    \/ line.tier \notin {"A", "B", "C", "X"}
    \/ line.anchor \notin {"brand", "pair", "seq"}
    \/ line.tokens = <<>>

Loads(f) ==
    /\ \A i \in Rows(f) : ~BadRow(f[i])
    /\ \A i, j \in Spoken(f) :
           f[i].lang = f[j].lang /\ f[i].tokens = f[j].tokens => i = j
    /\ Spoken(f) # {}

\* The phrases of a file that loads, each with the line it stands on.
PhrasesOf == [n \in FileNames |->
    {[tier |-> Files[n][i].tier, category |-> Files[n][i].category,
      anchor |-> Files[n][i].anchor, tokens |-> Files[n][i].tokens,
      row |-> i] : i \in Spoken(Files[n])}]

AllPhrases == UNION {PhrasesOf[n] : n \in FileNames}
TokensOf(p) == {p.tokens[i] : i \in DOMAIN p.tokens}

\* Corpus.max_span: how far back a span may reach.
MaxSpan == [n \in FileNames |->
    LET spans == {4} \cup {Len(p.tokens) + 1 : p \in PhrasesOf[n]}
    IN CHOOSE m \in spans : \A k \in spans : k <= m]

\* _build_index: a phrase is woken by its distinctive words, or by its rarest
\* word when it has none; min() breaks a tie between equally rare words.
Frequency(n, w) == Cardinality({p \in PhrasesOf[n] : w \in TokensOf(p)})

Triggers(n, p) ==
    LET distinctive == {w \in TokensOf(p) :
                          w \notin Stopwords /\ Frequency(n, w) <= TriggerDfMax}
    IN IF distinctive # {} THEN distinctive
       ELSE {CHOOSE w \in TokensOf(p) :
               \A x \in TokensOf(p) : Frequency(n, w) <= Frequency(n, x)}

\* The phrases a word wakes: spelled like a trigger, or sounding like one.
Index == [n \in FileNames |-> [w \in Words |->
    {p \in PhrasesOf[n] : \E t \in Triggers(n, p) :
        t = w \/ (Sound[w] # <<>> /\ Sound[w] = Sound[t])}]]

-----------------------------------------------------------------------------
(* levenshtein(a, b, cap): only the diagonal band of width cap is computed, *)
(* in two rows used in turn, with cap + 1 written at the band's two edges.  *)

\* Mutant: the buffer is not closed right of the band, so the next row reads
\* there what was left two rows ago.
BandRowOpen(a, b, cap, i, prev, old) ==
    LET lo == Max2(1, i - cap)
        hi == Min2(Len(b), i + cap)
        Cell(j, before) ==
            CASE j = 0 -> i
              [] j > 0 /\ j = lo - 1 -> cap + 1
              [] j \in lo .. hi ->
                   Min2(prev[j] + (IF a[i] = b[j] THEN 0 ELSE 1),
                        Min2(prev[j + 1], before[j]) + 1)
              [] OTHER -> old[j + 1]
        row[j \in 0 .. Len(b)] ==
            LET before == IF j = 0 THEN <<>> ELSE row[j - 1]
            IN Append(before, Cell(j, before))
    IN row[Len(b)]

\* Row i of the table as a sequence, column j in place j + 1.  Outside the
\* band the buffer keeps what row i - 2 left in it.
BandRow(a, b, cap, i, prev, old) ==
    LET lo == Max2(1, i - cap)
        hi == Min2(Len(b), i + cap)
        Cell(j, before) ==
            CASE j = 0 -> i
              [] j > 0 /\ j \in {lo - 1, hi + 1} -> cap + 1
              [] j \in lo .. hi ->
                   Min2(prev[j] + (IF a[i] = b[j] THEN 0 ELSE 1),
                        Min2(prev[j + 1], before[j]) + 1)
              [] OTHER -> old[j + 1]
        row[j \in 0 .. Len(b)] ==
            LET before == IF j = 0 THEN <<>> ELSE row[j - 1]
            IN Append(before, Cell(j, before))
    IN row[Len(b)]

Far(n) == n + 1

\* The whole function: Far(cap) says "further apart than cap".
Levenshtein(a, b, cap) ==
    LET width == Len(b) + 1
        start == [prev |-> [j \in 1 .. width |-> j - 1], old |-> [j \in 1 .. width |-> 0],
                  near |-> TRUE]
        Near(i, row) == \E j \in Max2(1, i - cap) .. Min2(Len(b), i + cap) : row[j + 1] <= cap
        rows[i \in 0 .. Len(a)] ==
            IF i = 0 THEN start
            ELSE LET r == rows[i - 1] IN
                 IF ~r.near THEN r
                 ELSE LET row == BandRow(a, b, cap, i, r.prev, r.old)
                      IN [prev |-> row, old |-> r.prev, near |-> Near(i, row)]
    IN CASE a = b -> 0
         [] a # b /\ (Len(a) - Len(b) > cap \/ Len(b) - Len(a) > cap) -> Far(cap)
         [] OTHER -> IF a = <<>> \/ b = <<>> THEN Max2(Len(a), Len(b))
                     ELSE LET last == rows[Len(a)]
                          IN IF last.near THEN Min2(last.prev[width], Far(cap)) ELSE Far(cap)

\* What it computes: the least number of insertions, deletions and
\* substitutions, written over prefixes.
EditDistance(a, b) ==
    LET d[x \in (0 .. Len(a)) \X (0 .. Len(b))] ==
            LET i == x[1]
                j == x[2]
            IN IF i = 0 \/ j = 0 THEN i + j
               ELSE Min2(d[<<i - 1, j - 1>>] + (IF a[i] = b[j] THEN 0 ELSE 1),
                         Min2(d[<<i - 1, j>>] + 1, d[<<i, j - 1>>] + 1))
    IN d[<<Len(a), Len(b)>>]

\* Where the two differ, over the words of two letters that are no longer than
\* DistanceBound.
DistanceErrors ==
    LET Spelt == UNION {[1 .. n -> {"x", "y"}] : n \in 0 .. DistanceBound}
    IN {x \in Spelt \X Spelt \X (0 .. DistanceBound - 1) :
          Levenshtein(x[1], x[2], x[3]) # Min2(EditDistance(x[1], x[2]), Far(x[3]))}

-----------------------------------------------------------------------------
(* Matcher._score_seq and _score_brand: one span against one phrase.       *)

\* " ".join(tokens)
Joined(tokens) ==
    LET join[n \in 0 .. Len(tokens)] ==
            IF n = 0 THEN <<>>
            ELSE join[n - 1] \o (IF n = 1 THEN <<>> ELSE <<" ">>) \o Spelling[tokens[n]]
    IN join[Len(tokens)]

\* phonetic_key of several words: spaces do not count.
SoundOf(tokens) ==
    LET key[n \in 0 .. Len(tokens)] ==
            IF n = 0 THEN <<>> ELSE key[n - 1] \o Sound[tokens[n]]
    IN key[Len(tokens)]

AllCommon(tokens) == \A i \in DOMAIN tokens : tokens[i] \in Common

KillFor(p) == IF p.anchor = "pair" THEN PairKill ELSE Kill
ReviewFor(p) == IF p.anchor = "pair" THEN PairReview ELSE Review

Exact == 1000

\* 0 when the span is further from the phrase than the budget, one edit for
\* every EditRatio letters begun.
ScoreSeq(p, span) ==
    LET target == Joined(p.tokens)
        size == Len(target)
        budget == (size + EditRatio - 1) \div EditRatio
        d == Levenshtein(target, Joined(span), budget)
    IN IF d > budget THEN 0 ELSE (Exact * (size - d)) \div size

\* A brand is killed on its spelling or its sound, never on likeness; words
\* that are all common are no brand.
ScoreBrand(p, span) ==
    CASE span = p.tokens -> Exact
      [] span # p.tokens /\ AllCommon(span) -> 0
      [] span # p.tokens /\ ~AllCommon(span) ->
           IF SoundOf(span) # <<>> /\ SoundOf(span) = SoundOf(p.tokens) THEN Exact
           ELSE Min2(ScoreSeq(p, span), ReviewFor(p))

Widths(p) ==
    IF p.anchor = "brand" THEN 1 .. BrandSpan
    ELSE Max2(1, Len(p.tokens) - 1) .. Len(p.tokens) + 1

\* Every score a run can need, computed once.
Spans(p) == UNION {[1 .. w -> V] : w \in Widths(p), V \in Vocabularies}
Score == [p \in AllPhrases |-> [span \in Spans(p) |->
            IF p.anchor = "brand" THEN ScoreBrand(p, span) ELSE ScoreSeq(p, span)]]

-----------------------------------------------------------------------------
(* Matcher.match.  Spans are [from, to) over words counted from 0.         *)

Overlap(m, o) == m.from < o.to /\ o.from < m.to

\* Mutant: the scan starts at the last word before the new ones.
WokenFromLast(n, tokens, since) ==
    UNION {Index[n][tokens[i]] : i \in {j \in DOMAIN tokens : j >= since}}

\* The phrases woken by the words a span ending at or after since may cover.
Woken(n, tokens, since) ==
    UNION {Index[n][tokens[i]] : i \in {j \in DOMAIN tokens : j > since - MaxSpan[n]}}

\* Where p may be read: spans that end at or after since.
Readings(p, tokens, since) ==
    UNION {{[from |-> s, to |-> s + w, score |-> Score[p][SubSeq(tokens, s + 1, s + w)]] :
                s \in Max2(0, since - w + 1) .. Len(tokens) - w} : w \in Widths(p)}

\* The best of them; the first tried, narrow before wide, when several are.
Better(r, q) ==
    \/ r.score > q.score
    \/ r.score = q.score /\ r.to - r.from < q.to - q.from
    \/ r.score = q.score /\ r.to - r.from = q.to - q.from /\ r.from <= q.from

\* The tier a phrase is reported at; only A has a near band.
Tier(p, score) ==
    CASE score >= KillFor(p) -> p.tier
      [] score < KillFor(p) /\ p.tier = "A" -> "A-near"
      [] OTHER -> "none"

\* At most one match of a phrase: its best reading, if good enough.
MatchesOf(p, tokens, since) ==
    LET readings == {r \in Readings(p, tokens, since) : r.score > 0}
        best == {r \in readings : \A q \in readings : Better(r, q)}
    IN {[phrase |-> p, tier |-> Tier(p, r.score), score |-> r.score,
         from |-> r.from, to |-> r.to] :
            r \in {b \in best : b.score >= ReviewFor(p) /\ Tier(p, b.score) # "none"}}

Raw(n, tokens, since) ==
    UNION {MatchesOf(p, tokens, since) : p \in Woken(n, tokens, since)}

\* The Tier X veto: an exclusion deletes what it overlaps and is not reported.
Kept(raw) ==
    {m \in raw : m.tier # "X" /\ ~\E v \in raw : v.tier = "X" /\ Overlap(v, m)}

\* A sorted list: the members of a set, each after those that precede it.
InOrder(S, Precedes(_, _)) ==
    [i \in 1 .. Cardinality(S) |->
        CHOOSE x \in S : i = 1 + Cardinality({y \in S : Precedes(y, x)})]

\* Overlap suppression: the better score, the longer span, the earlier one.
Outranks(m, o) ==
    LET key(x) == <<0 - x.score, x.from - x.to, x.from, x.phrase.row>>
    IN \E i \in 1 .. 4 : /\ key(m)[i] < key(o)[i]
                         /\ \A j \in 1 .. i - 1 : key(m)[j] = key(o)[j]

Chosen(kept) ==
    LET ranked == InOrder(kept, Outranks)
        pick[k \in 0 .. Len(ranked)] ==
            IF k = 0 THEN {}
            ELSE IF \E o \in pick[k - 1] :
                        /\ Overlap(o, ranked[k])
                        /\ o.phrase.category = ranked[k].phrase.category
                 THEN pick[k - 1]
                 ELSE pick[k - 1] \cup {ranked[k]}
    IN pick[Len(ranked)]

\* Reported in the order they were said.
Before(m, o) == m.from < o.from \/ (m.from = o.from /\ Outranks(m, o))

\* The matches of phrase list n in spans that end at or after since.
Match(n, tokens, since) ==
    InOrder(Chosen(Kept(Raw(n, tokens, since))), Before)
=============================================================================
