------------------------------- MODULE LuaPattern ------------------------------
(***************************************************************************)
(* The matcher of lstrlib.c.  It backtracks over one MatchState, in which  *)
(* the captures of an attempt that fails must be undone: ms goes in and    *)
(* out of every function here, and e is where the match ends, NULL where   *)
(* it fails, or an error.  Beside it is what a pattern means: the sequence *)
(* of all its matches, the preferred ones first.                           *)
(*                                                                         *)
(* A subject and a pattern are sequences of characters, places in them     *)
(* count from 1, and what is past the end is the ending zero.              *)
(***************************************************************************)
EXTENDS Integers, Sequences, SequencesExt, FiniteSetsExt, Null

CONSTANTS MaxCaptures,   \* LUA_MAXCAPTURES
          MaxDepth       \* MAXCCALLS

Zero == "zero"    \* '\0'
ERROR == -1
char(s, i) == IF i \in DOMAIN s THEN s[i] ELSE Zero

Unfinished == -1
Position == -2

---------------------------------------------------------------------------------
(* One character.                                                            *)

\* The classes, in so far as they tell characters apart here; a capital is the complement.
Class == [a |-> {"a", "b"}, d |-> {"1"}, A |-> {"1", Zero}, D |-> {"a", "b", Zero}]
match_class(c, cl) == IF cl \in DOMAIN Class THEN c \in Class[cl] ELSE cl = c

RECURSIVE bracketend(_, _)
bracketend(pat, q) ==
    LET next == IF pat[q] = "%" /\ q < Len(pat) THEN q + 2 ELSE q + 1
    IN  IF q > Len(pat) THEN ERROR
        ELSE IF char(pat, next) = "]" THEN next + 1
        ELSE bracketend(pat, next)

\* Behind the single item at p.
classend(pat, p) ==
    CASE pat[p] = "%" -> IF p = Len(pat) THEN ERROR ELSE p + 2
      [] pat[p] = "[" -> bracketend(pat, IF char(pat, p + 1) = "^" THEN p + 2 ELSE p + 1)
      [] OTHER -> p + 1

\* The characters from p to before ec: escapes, ranges (the codes are those of "ab") and
\* single ones.
RECURSIVE inBracket(_, _, _, _)
inBracket(pat, p, ec, c) ==
    LET code == [x \in {"a", "b"} |-> IF x = "a" THEN 1 ELSE 2]
        within(lo, hi) == c \in DOMAIN code /\ lo \in DOMAIN code /\ hi \in DOMAIN code
                            /\ code[lo] <= code[c] /\ code[c] <= code[hi]
    IN  IF p >= ec THEN FALSE
        ELSE IF pat[p] = "%"
          THEN match_class(c, char(pat, p + 1)) \/ inBracket(pat, p + 2, ec, c)
        ELSE IF char(pat, p + 1) = "-" /\ p + 2 < ec
          THEN within(pat[p], pat[p + 2]) \/ inBracket(pat, p + 3, ec, c)
        ELSE pat[p] = c \/ inBracket(pat, p + 1, ec, c)

matchbracketclass(c, pat, p, ec) ==
    IF char(pat, p + 1) = "^" THEN ~ inBracket(pat, p + 2, ec, c)
                              ELSE inBracket(pat, p + 1, ec, c)

singlematch(ms, s, p, ep) ==
    /\ s <= Len(ms.src)
    /\ LET c == ms.src[s]
       IN  CASE ms.pat[p] = "." -> TRUE
             [] ms.pat[p] = "%" -> match_class(c, ms.pat[p + 1])
             [] ms.pat[p] = "[" -> matchbracketclass(c, ms.pat, p, ep - 1)
             [] OTHER -> ms.pat[p] = c

\* %bxy: where the brackets open at s are closed.
matchbalance(ms, s, b, e) ==
    LET open[k \in s .. Len(ms.src)] ==
            IF k = s THEN 1
            ELSE open[k - 1] + (IF ms.src[k] = e THEN -1 ELSE IF ms.src[k] = b THEN 1 ELSE 0)
        shut == {k \in s + 1 .. Len(ms.src) : open[k] = 0}
    IN  IF char(ms.src, s) # b \/ shut = {} THEN NULL ELSE Min(shut) + 1

---------------------------------------------------------------------------------
(* The matcher.                                                              *)

ends(ms, e) == [ms |-> ms, e |-> e]
depth(r, d) == [r EXCEPT !.ms.depth = @ + d]

RECURSIVE match(_, _, _)
RECURSIVE matchAt(_, _, _)

RECURSIVE max_expand(_, _, _, _, _)
\* i repetitions, and ever fewer.
max_expand(ms, s, i, low, ep) ==
    LET r == match(ms, s + i, ep + 1)
    IN  IF i < low THEN ends(ms, NULL)
        ELSE IF r.e # NULL THEN r ELSE max_expand(r.ms, s, i - 1, low, ep)

RECURSIVE min_expand(_, _, _, _)
min_expand(ms, s, p, ep) ==
    LET r == match(ms, s, ep + 1)
    IN  IF r.e # NULL THEN r
        ELSE IF singlematch(r.ms, s, p, ep) THEN min_expand(r.ms, s + 1, p, ep)
        ELSE ends(r.ms, NULL)

start_capture(ms, s, p, what) ==
    LET begun == [ms EXCEPT !.capture[ms.level + 1] = [init |-> s, len |-> what], !.level = @ + 1]
        r     == match(begun, s, p)
    IN  IF ms.level >= MaxCaptures THEN ends(ms, ERROR)
        ELSE IF r.e = NULL THEN [r EXCEPT !.ms.level = @ - 1] ELSE r

unfinished(ms) == {l \in 1 .. ms.level : ms.capture[l].len = Unfinished}

\* Mutant of undone: the capture an attempt has closed stays closed.
undoneNot(r, l) == r

\* A capture whose rest fails is open again.
undone(r, l) == [r EXCEPT !.ms.capture[l].len = Unfinished]

end_capture(ms, s, p) ==
    LET l == Max(unfinished(ms))
        r == match([ms EXCEPT !.capture[l].len = s - ms.capture[l].init], s, p)
    IN  IF unfinished(ms) = {} THEN ends(ms, ERROR)
        ELSE IF r.e = NULL THEN undone(r, l) ELSE r

\* %1 to %9.  (The length of a position capture, taken for a size, is longer than any rest.)
match_capture(ms, s, l) ==
    LET cap == ms.capture[l]
    IN  IF l \notin 1 .. ms.level \/ l \in unfinished(ms) THEN ERROR
        ELSE IF cap.len # Position /\ s + cap.len - 1 <= Len(ms.src)
               /\ \A k \in 0 .. cap.len - 1 : ms.src[s + k] = ms.src[cap.init + k]
          THEN s + cap.len ELSE NULL

Digit == [x \in {"1", "2"} |-> IF x = "1" THEN 1 ELSE 2]

\* A single item with its suffix.
item(ms, s, p) ==
    LET ep  == classend(ms.pat, p)
        suf == char(ms.pat, ep)
        one == singlematch(ms, s, p, ep)
        run == Max({n \in 0 .. Len(ms.src) - s + 1 :
                       \A k \in 0 .. n - 1 : singlematch(ms, s + k, p, ep)})
        r   == match(ms, s + 1, ep + 1)
    IN  IF ep = ERROR THEN ends(ms, ERROR)
        ELSE IF ~ one THEN IF suf \in {"*", "?", "-"} THEN matchAt(ms, s, ep + 1)
                                                      ELSE ends(ms, NULL)
        ELSE CASE suf = "?" -> IF r.e # NULL THEN r ELSE matchAt(r.ms, s, ep + 1)
               [] suf = "+" -> max_expand(ms, s, run, 1, ep)
               [] suf = "*" -> max_expand(ms, s, run, 0, ep)
               [] suf = "-" -> min_expand(ms, s, p, ep)
               [] OTHER     -> matchAt(ms, s + 1, ep)

\* The loop of match.
matchAt(ms, s, p) ==
    LET pat   == ms.pat
        after == char(pat, p + 1)
        at(e, q) == IF e \in {NULL, ERROR} THEN ends(ms, e) ELSE matchAt(ms, e, q)
    IN  IF p > Len(pat) THEN ends(ms, s)
        ELSE IF pat[p] = "(" THEN IF after = ")" THEN start_capture(ms, s, p + 2, Position)
                                                 ELSE start_capture(ms, s, p + 1, Unfinished)
        ELSE IF pat[p] = ")" THEN end_capture(ms, s, p + 1)
        ELSE IF pat[p] = "$" /\ p = Len(pat)
          THEN ends(ms, IF s = Len(ms.src) + 1 THEN s ELSE NULL)
        ELSE IF pat[p] = "%" /\ after = "b"
          THEN IF p + 3 > Len(pat) THEN ends(ms, ERROR)
               ELSE at(matchbalance(ms, s, pat[p + 2], pat[p + 3]), p + 4)
        ELSE IF pat[p] = "%" /\ after = "f"
          THEN LET ep == classend(pat, p + 2)
                   in(c) == matchbracketclass(c, pat, p + 2, ep - 1)
               IN  IF char(pat, p + 2) # "[" THEN ends(ms, ERROR)
                   ELSE IF ep = ERROR THEN ends(ms, ERROR)
                   ELSE at(IF ~ in(char(ms.src, s - 1)) /\ in(char(ms.src, s)) THEN s ELSE NULL, ep)
        ELSE IF pat[p] = "%" /\ after \in DOMAIN Digit
          THEN at(match_capture(ms, s, Digit[after]), p + 2)
        ELSE item(ms, s, p)

match(ms, s, p) ==
    IF ms.depth = 0 THEN ends(ms, ERROR)
    ELSE depth(matchAt([ms EXCEPT !.depth = @ - 1], s, p), 1)

prepstate(src, pat) ==
    [src |-> src, pat |-> pat, depth |-> MaxDepth, level |-> 0,
     capture |-> [l \in 1 .. MaxCaptures |-> [init |-> 0, len |-> 0]]]

captures(r) == SubSeq(r.ms.capture, 1, r.ms.level)

---------------------------------------------------------------------------------
(* find, gmatch and gsub.                                                    *)

\* The rest of a pattern behind its anchor.
anchored(pat) == char(pat, 1) = "^"
unanchored(pat) == IF anchored(pat) THEN Tail(pat) ELSE pat

\* str_find_aux from s on: where it begins and ends and the captures, or NULL, or ERROR.
RECURSIVE findFrom(_, _, _)
findFrom(ms, s, anchor) ==
    LET r == match([ms EXCEPT !.level = 0], s, 1)
    IN  IF r.e = ERROR THEN <<ERROR>>
        ELSE IF r.e # NULL
          THEN IF unfinished(r.ms) # {} THEN <<ERROR>> ELSE <<s, r.e - 1, captures(r)>>
        ELSE IF s > Len(ms.src) \/ anchor THEN NULL
        ELSE findFrom(r.ms, s + 1, anchor)

find(src, pat, init) == findFrom(prepstate(src, unanchored(pat)), init, anchored(pat))

\* gmatch_aux, called again and again: the matches, none empty at the end of the last one.
RECURSIVE gmatch(_, _, _)
gmatch(ms, src, lastmatch) ==
    LET r == match([ms EXCEPT !.level = 0], src, 1)
    IN  IF src > Len(ms.src) + 1 THEN <<>>
        ELSE IF r.e = ERROR THEN <<<<ERROR>>>>
        ELSE IF r.e = NULL \/ r.e = lastmatch THEN gmatch(r.ms, src + 1, lastmatch)
        ELSE IF unfinished(r.ms) # {} THEN <<<<ERROR>>>>
        ELSE <<<<src, r.e>>>> \o gmatch(r.ms, r.e, r.e)

\* str_gsub with the replacement Tag before the whole match: [out, all] with the matches.
Tag == "tag"
RECURSIVE gsub(_, _, _, _, _)
gsub(ms, src, lastmatch, n, b) ==
    LET r    == match([ms EXCEPT !.level = 0], src, 1)
        rest == [b EXCEPT !.out = @ \o SubSeq(ms.src, src, Len(ms.src))]
    IN  IF n = 0 THEN rest
        ELSE IF r.e = ERROR THEN [b EXCEPT !.all = Append(@, <<ERROR>>)]
        ELSE IF r.e # NULL /\ r.e # lastmatch
          THEN IF unfinished(r.ms) # {} THEN [b EXCEPT !.all = Append(@, <<ERROR>>)]
               ELSE gsub(r.ms, r.e, r.e, n - 1,
                         [out |-> b.out \o <<Tag>> \o SubSeq(ms.src, src, r.e - 1),
                          all |-> Append(b.all, <<src, r.e>>)])
        ELSE IF src <= Len(ms.src)
          THEN gsub(r.ms, src + 1, lastmatch, n, [b EXCEPT !.out = Append(@, ms.src[src])])
        ELSE rest

---------------------------------------------------------------------------------
(* What a pattern means.                                                     *)

\* All matches of the pattern from p on at s, given the captures so far, in the order of
\* preference: more repetitions first, except for "-".
RECURSIVE Meaning(_, _, _, _, _)
Meaning(src, pat, s, p, caps) ==
    LET after  == char(pat, p + 1)
        ep     == classend(pat, p)
        single(k) == singlematch([src |-> src, pat |-> pat], k, p, ep)
        run    == Max({n \in 0 .. Len(src) - s + 1 : \A k \in 0 .. n - 1 : single(s + k)})
        suf    == char(pat, ep)
        times  == CASE suf = "*" -> [k \in 1 .. run + 1 |-> run + 1 - k]
                    [] suf = "+" -> [k \in 1 .. run |-> run + 1 - k]
                    [] suf = "-" -> [k \in 1 .. run + 1 |-> k - 1]
                    [] suf = "?" -> IF run > 0 THEN <<1, 0>> ELSE <<0>>
                    [] OTHER     -> IF run > 0 THEN <<1>> ELSE <<>>
        beyond == IF suf \in {"*", "+", "-", "?"} THEN ep + 1 ELSE ep
        open   == Max({l \in DOMAIN caps : caps[l].len = Unfinished})
        same(l) == caps[l].len >= 0 /\ s + caps[l].len <= Len(src) + 1
                     /\ \A k \in 0 .. caps[l].len - 1 : src[s + k] = src[caps[l].init + k]
    IN  IF p > Len(pat) THEN <<[e |-> s, caps |-> caps]>>
        ELSE IF pat[p] = "(" /\ after = ")"
          THEN Meaning(src, pat, s, p + 2, Append(caps, [init |-> s, len |-> Position]))
        ELSE IF pat[p] = "("
          THEN Meaning(src, pat, s, p + 1, Append(caps, [init |-> s, len |-> Unfinished]))
        ELSE IF pat[p] = ")"
          THEN Meaning(src, pat, s, p + 1, [caps EXCEPT ![open].len = s - caps[open].init])
        ELSE IF pat[p] = "$" /\ p = Len(pat)
          THEN IF s = Len(src) + 1 THEN <<[e |-> s, caps |-> caps]>> ELSE <<>>
        ELSE IF pat[p] = "%" /\ after \in DOMAIN Digit
          THEN IF same(Digit[after])
                 THEN Meaning(src, pat, s + caps[Digit[after]].len, p + 2, caps) ELSE <<>>
        ELSE FlattenSeq([k \in DOMAIN times |-> Meaning(src, pat, s + times[k], beyond, caps)])

\* Wherever backtracking has been, find returns the preferred match of the first place that
\* has one, with its captures; gmatch and gsub go through the same matches, and what is
\* not replaced is kept, once.
PatternAgrees(src, pat) ==
    LET body  == unanchored(pat)
        means == [s \in 1 .. Len(src) + 1 |-> Meaning(src, body, s, 1, <<>>)]
        first == {s \in 1 .. (IF anchored(pat) THEN 1 ELSE Len(src) + 1) : means[s] # <<>>}
        f     == find(src, pat, 1)
        all   == gmatch(prepstate(src, pat), 1, NULL)
        g     == gsub(prepstate(src, pat), 1, NULL, Len(src) + 1, [out |-> <<>>, all |-> <<>>])
        kept(x) == x # Tag
    IN  /\ IF first = {} THEN f = NULL
           ELSE LET m == means[Min(first)][1] IN f = <<Min(first), m.e - 1, m.caps>>
        /\ ~ anchored(pat) => all = g.all /\ SelectSeq(g.out, kept) = src

\* Patterns whose meaning is asked for: captures are closed in turn, and named when closed.
WellFormed(pat) ==
    LET body == unanchored(pat)
        escaped(p) == p > 1 /\ body[p - 1] = "%"
        opens(p) == {k \in 1 .. p : body[k] = "(" /\ char(body, k + 1) # ")"}
        shuts(p) == {k \in 1 .. p : body[k] = ")" /\ char(body, k - 1) # "("}
    IN  /\ \A p \in DOMAIN body :
              /\ Cardinality(shuts(p)) <= Cardinality(opens(p))
              /\ body[p] = "%" => /\ p < Len(body) /\ body[p + 1] \notin {"(", ")"}
                                  /\ body[p + 1] \in DOMAIN Digit =>
                                        /\ Digit[body[p + 1]] <= Cardinality(shuts(p))
                                        /\ opens(p) = {} \/ shuts(p) # {}
        /\ Cardinality(shuts(Len(body))) = Cardinality(opens(Len(body)))

\* The others end, at the latest in an error, and so do those with %b and %f.
PatternEnds(src, pat) ==
    LET f == find(src, pat, 1)
    IN  f = NULL \/ f = <<ERROR>> \/ (f[1] >= 1 /\ f[2] <= Len(src))
=================================================================================
