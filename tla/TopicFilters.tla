---------------------------- MODULE TopicFilters ----------------------------
(* Whether a topic name matches a topic filter: the walk over both strings of   *)
(* myqtt_reader_topic_filter_match and the filters myqtt_reader_is_wrong_topic   *)
(* refuses (lib/myqtt-reader.c), against the rule by levels of MQTT 3.1.1 (4.7). *)
(* A string is a sequence of characters; "nul" is what follows the last.        *)
EXTENDS Integers, Sequences, SequencesExt, FiniteSetsExt

CONSTANTS Letters,    \* characters that mean nothing; "$", "/", "+", "#" do
          MaxTopic, MaxFilter  \* the longest of each

ASSUME TopicAssumption ==
  MaxTopic \in Nat /\ MaxFilter \in Nat /\ Letters \intersect {"$", "/", "+", "#", "nul"} = {}

VARIABLES topic_name, topic_filter,
          iterator, iterator2,  \* where the walk is in each
          match                 \* "walking" until it returns
topicVars == <<topic_name, topic_filter, iterator, iterator2, match>>

CharAt(s, n) == IF n \in 1 .. Len(s) THEN s[n] ELSE "nul"

\* myqtt_reader_is_wrong_topic: a wildcard that does not fill its level, or levels after "#"
IsWrongTopic(f) ==
  \/ f = <<>>
  \/ \E n \in 1 .. Len(f) :
       \/ f[n] = "/" /\ \E k \in 1 .. n - 1 : f[k] = "#"
       \/ f[n] \in {"+", "#"} /\ (CharAt(f, n + 1) \notin {"nul", "/"} \/ CharAt(f, n - 1) \notin {"nul", "/"})

Topics == UNION {[1 .. n -> Letters \union {"$", "/"}] : n \in 1 .. MaxTopic}
Filters == {f \in UNION {[1 .. n -> Letters \union {"$", "/", "+", "#"}] : n \in 1 .. MaxFilter} :
              ~IsWrongTopic(f)}

TopicInit == /\ topic_name \in Topics /\ topic_filter \in Filters
             /\ iterator = 1 /\ iterator2 = 1 /\ match = "start"

TopicChar == CharAt(topic_name, iterator)
FilterChar == CharAt(topic_filter, iterator2)
FilterRest == SubSeq(topic_filter, iterator2, Len(topic_filter))
Walk(i, j) == /\ iterator' = i /\ iterator2' = j
              /\ UNCHANGED <<topic_name, topic_filter, match>>
Return(b) == /\ match' = IF b THEN "yes" ELSE "no"
             /\ UNCHANGED <<topic_name, topic_filter, iterator, iterator2>>

\* "#" matches all but the topics of the server, and a topic matches itself
Shortcut ==
  /\ match = "start"
  /\ IF (topic_filter = <<"#">> /\ topic_name[1] # "$") \/ topic_name = topic_filter
     THEN Return(TRUE)
     ELSE match' = "walking" /\ UNCHANGED <<topic_name, topic_filter, iterator, iterator2>>

InBoth == match = "walking" /\ TopicChar # "nul" /\ FilterChar # "nul"

Separator ==
  /\ InBoth /\ FilterChar = "/"
  /\ IF TopicChar = "/" THEN Walk(iterator + 1, iterator2 + 1) ELSE Return(FALSE)

\* Mutant: all the levels that follow.
NameEnd == Len(topic_name) + 1
LevelEnd == Min({n \in iterator .. Len(topic_name) + 1 : CharAt(topic_name, n) \in {"/", "nul"}})

\* "+" takes the rest of the level and the separator after it, if there is one
SingleLevel ==
  /\ InBoth /\ FilterChar = "+" /\ TopicChar # "$"
  /\ Walk(IF CharAt(topic_name, LevelEnd) = "nul" THEN LevelEnd ELSE LevelEnd + 1,
          IF CharAt(topic_filter, iterator2 + 1) = "nul" THEN iterator2 + 1 ELSE iterator2 + 2)

MultiLevel == InBoth /\ FilterChar = "#" /\ TopicChar # "$" /\ Return(TRUE)

\* characters up to the end of the level, its separator included
Literal ==
  /\ InBoth /\ FilterChar # "/" /\ (FilterChar \in {"+", "#"} => TopicChar = "$")
  /\ LET same(n) == CharAt(topic_name, iterator + n) = CharAt(topic_filter, iterator2 + n)
         ends(n) == \/ CharAt(topic_name, iterator + n - 1) = "/"
                    \/ CharAt(topic_name, iterator + n) = "nul"
                    \/ CharAt(topic_filter, iterator2 + n) = "nul"
         n == Min({k \in 1 .. Len(topic_name) + Len(topic_filter) : ~same(k - 1) \/ ends(k)})
     IN  IF same(n - 1) THEN Walk(iterator + n, iterator2 + n) ELSE Return(FALSE)

AtEnd ==
  /\ match = "walking" /\ (TopicChar = "nul" \/ FilterChar = "nul")
  /\ Return(\/ TopicChar = "nul" /\ FilterRest \in {<<"+">>, <<"#">>, <<"/", "#">>}
            \/ TopicChar = FilterChar)

TopicNext == Shortcut \/ Separator \/ SingleLevel \/ MultiLevel \/ Literal \/ AtEnd
TopicSpec == TopicInit /\ [][TopicNext]_topicVars /\ WF_topicVars(TopicNext)

TopicTypeOK ==
  /\ topic_name \in Topics /\ topic_filter \in Filters
  /\ iterator \in 1 .. Len(topic_name) + 1 /\ iterator2 \in 1 .. Len(topic_filter) + 1
  /\ match \in {"start", "walking", "yes", "no"}

(* ------------------------- the rule, by levels -------------------------- *)
\* a string of n separators has n + 1 levels
Cuts(s) == {0, Len(s) + 1} \union {n \in 1 .. Len(s) : s[n] = "/"}
CutsBefore(s, n) == Cardinality({c \in Cuts(s) : c < n})
Levels(s) ==
  LET cut(k) == CHOOSE c \in Cuts(s) : CutsBefore(s, c) = k
  IN  [k \in 1 .. CutsBefore(s, Len(s) + 1) |-> SubSeq(s, cut(k - 1) + 1, cut(k) - 1)]

Matches(t, f) ==
  LET tl == Levels(t)  fl == Levels(f)
      multi == fl[Len(fl)] = <<"#">>
      fixed == IF multi THEN Len(fl) - 1 ELSE Len(fl)
  IN  /\ IF multi THEN Len(tl) >= fixed ELSE Len(tl) = fixed
      /\ \A k \in 1 .. fixed : fl[k] \in {<<"+">>, tl[k]}
      /\ t[1] = "$" => fl[1] \notin {<<"+">>, <<"#">>}

(* ------------------------------ properties ------------------------------ *)
\* strings the code is known to treat otherwise: an empty last level of either, "+"
\* before the last level of the filter (the separator after it is skipped even when the
\* topic has ended), and "$" at the start of a level that is not the first
Excepted(t, f) ==
  \/ t[Len(t)] = "/" \/ f[Len(f)] = "/"
  \/ IsSuffix(<<"+", "/", "+">>, f) \/ IsSuffix(<<"+", "/", "/", "#">>, f)
  \/ \E k \in 2 .. Len(Levels(t)) : CharAt(Levels(t)[k], 1) = "$"

\* The walk decides what the rule by levels says, for every topic and every filter that
\* is accepted, empty levels inside and "$" inside included: wildcards never leak over a
\* separator, "#" takes its parent too and the topics of the server stay hidden.
FiltersAgree ==
  match \in {"yes", "no"} /\ ~Excepted(topic_name, topic_filter) =>
    ((match = "yes") <=> Matches(topic_name, topic_filter))

\* ... for the excepted ones too
FiltersAgreeAlways ==
  match \in {"yes", "no"} => ((match = "yes") <=> Matches(topic_name, topic_filter))
=============================================================================
