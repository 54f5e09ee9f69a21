----------------------------- MODULE MCDaemon -----------------------------
(* A small instance of Daemon for TLC. *)
EXTENDS Daemon

\* Two words of one Tier A phrase, "refund" and "a"; "refuns", a letter off;
\* "get", which starts a longer phrase of the category.  Three words that are
\* phrases of their own.  A brand, what it sounds like, and two common words
\* that sound like it together.
MCSpelling == [
    refund |-> <<"r", "e", "f", "u", "n", "d">>, a |-> <<"a">>,
    refuns |-> <<"r", "e", "f", "u", "n", "s">>, get |-> <<"g", "e", "t">>,
    badge |-> <<"b", "a", "d", "g", "e">>, bail |-> <<"b", "a", "i", "l">>,
    licensed |-> <<"l", "i", "c", "e", "n", "s", "e", "d">>,
    anydesk |-> <<"a", "n", "y", "d", "e", "s", "k">>,
    antask |-> <<"a", "n", "t", "a", "s", "k">>,
    and |-> <<"a", "n", "d">>, ask |-> <<"a", "s", "k">>]
MCWords == DOMAIN MCSpelling
MCSound == [
    refund |-> <<"R", "F", "N", "T">>, a |-> <<"A">>, refuns |-> <<"R", "F", "N", "S">>,
    get |-> <<"K", "T">>, badge |-> <<"P", "J">>, bail |-> <<"P", "L">>,
    licensed |-> <<"L", "S", "N", "S", "T">>, anydesk |-> <<"A", "N", "T", "S", "K">>,
    antask |-> <<"A", "N", "T", "S", "K">>, and |-> <<"A", "N", "T">>,
    ask |-> <<"S", "K">>]

Line(tier, category, anchor, tokens) ==
    [comment |-> FALSE, tier |-> tier, category |-> category, lang |-> "en",
     anchor |-> anchor, tokens |-> tokens]
Comment == [Line("", "", "", <<>>) EXCEPT !.comment = TRUE]

MCLines == <<
    Line("A", "A2", "seq", <<"refund", "a">>),
    Line("A", "A2", "seq", <<"get", "a", "refund">>),
    Line("X", "X1", "seq", <<"refuns", "a">>),
    Line("B", "B1", "seq", <<"badge">>),
    Line("B", "B5", "seq", <<"bail">>),
    Line("C", "C1", "seq", <<"licensed">>),
    Line("A", "A1", "brand", <<"anydesk">>),
    Line("C", "C2", "seq", <<"and", "ask", "antask">>)>>

\* The list; the list with a comment on top, so that every row moves, and a
\* phrase less; a list with a row of no known tier.
MCFiles == [
    full |-> MCLines,
    moved |-> <<Comment>> \o SubSeq(MCLines, 1, 6),
    broken |-> <<Line("Z", "A2", "seq", <<"refund">>)>>]

Speech == {"refund", "a", "refuns", "get"}
Signals == {"badge", "bail", "licensed", "refund"}
Brands == {"anydesk", "antask", "and", "ask"}
MCVocabularies == {Speech, Signals, Brands}

Plan == [vocabulary |-> {"anydesk"}, file |-> "full", model |-> TRUE,
         enforce |-> FALSE, say |-> 0, know |-> 0, tick |-> 0, edit |-> 0,
         hup |-> 0, ends |-> 0, stop |-> 0, start |-> 0, crash |-> 0, eof |-> 0,
         hand |-> 0, disk |-> 0]

\* What is heard; what is heard while the window rolls; the phrase list edited
\* meanwhile; the life of the service and of a second copy; writes that fail.
MCPlans == {
    [Plan EXCEPT !.say = 5, !.vocabulary = Speech],
    [Plan EXCEPT !.say = 4, !.vocabulary = Brands],
    [Plan EXCEPT !.say = 4, !.tick = 2, !.vocabulary = Signals],
    [Plan EXCEPT !.say = 2, !.edit = 2, !.hup = 1, !.vocabulary = {"refund", "a"}],
    [Plan EXCEPT !.say = 2, !.know = 2, !.tick = 3, !.ends = 1],
    [Plan EXCEPT !.say = 2, !.crash = 1, !.model = FALSE],
    [Plan EXCEPT !.crash = 1, !.model = FALSE, !.enforce = TRUE],
    [Plan EXCEPT !.say = 1, !.know = 1, !.edit = 2, !.crash = 3],
    [Plan EXCEPT !.say = 2, !.know = 1, !.stop = 1, !.start = 1, !.crash = 1, !.eof = 1,
                 !.hand = 1],
    [Plan EXCEPT !.say = 1, !.know = 1, !.stop = 1, !.hand = 1, !.disk = 1],
    [Plan EXCEPT !.say = 2, !.know = 1, !.tick = 1, !.stop = 1, !.start = 1, !.disk = 2]}
=============================================================================
