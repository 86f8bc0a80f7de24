----------------------------- MODULE MCRecommend -----------------------------
(***************************************************************************)
(* Instances of Recommend for TLC: up to 16 movies, with the limits of     *)
(* 10, 20 and 40 matches scaled to 4, 8 and 16.                            *)
(***************************************************************************)
EXTENDS Recommend

MCFilm == 1 .. 16
MCRequest == 1 .. 4
\* Titles out of order, and some that movies share.
MCTitle == <<3, 1, 2, 2, 5, 4, 7, 6, 9, 3, 8, 11, 10, 2, 12, 9>>

Req(n, score) == [match |-> 1 .. n,
                  score |-> [f \in MCFilm |-> IF f \in DOMAIN score THEN score[f] ELSE 0]]

\* One request, every score for up to four matches, two scores for five.
AllSmall == {<<Req(4, s)>> : s \in [1 .. 4 -> 0 .. 2]}
       \cup {<<Req(5, s)>> : s \in [1 .. 5 -> 0 .. 1]}
       \cup UNION {{<<Req(n, s)>> : s \in [1 .. n -> 0 .. 2]} : n \in 0 .. 3}
\* Requests with eight matches: all alike, and a mixture.
Alike == Req(8, [f \in MCFilm |-> 0])
Mixed == Req(8, <<0, 3, 1, 1, 2, 3, 0, 2>>)
\* Several requests at once, more than there is room for, and one without a
\* match beside others.
Together == {<<Mixed, Req(1, <<1>>), Req(3, <<1, 2, 2>>)>>,
             <<Req(5, <<1, 0, 2, 0, 1>>), Req(4, <<2, 1, 1, 2>>)>>,
             <<Req(5, <<0, 1, 1, 0, 2>>), Req(0, <<>>)>>,
             <<Mixed, Req(0, <<>>)>>,
             <<Req(4, <<0>>), Req(1, <<1>>), Req(1, <<1>>), Req(1, <<1>>)>>,
             <<>>}
Narrow == AllSmall \cup {<<Alike>>} \cup Together
\* The most matches for a tree of three layers and the fewest for one of four.
Wide == {<<Req(n, [f \in MCFilm |-> f % 4])>> : n \in {15, 16}}

MCCases == [THREAD |-> Narrow, PROCESS |-> Narrow \cup Wide]
MCDirty == {{}, {0, 2}}
MCCasesFew == [PROCESS |-> {<<Req(n, s)>> : n \in 1 .. 5, s \in [1 .. 5 -> 0 .. 1]}]
=============================================================================
