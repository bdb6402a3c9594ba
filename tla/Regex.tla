-------------------------------- MODULE Regex --------------------------------
(***************************************************************************)
(* BBEL's pattern matcher (my_regex.h): regex_parse turns a pattern into   *)
(* tokens, regex_match runs the tokens on a text with a stack of places to *)
(* go back to.  One pattern and one text per behaviour; a step is one      *)
(* character of the pattern or one turn of the matcher's loop.             *)
(*                                                                         *)
(* A pattern is a sequence of items: a character, or several the parser    *)
(* reads at once ("(?:", "(?>", "[^", a quantifier in braces).  A mask is  *)
(* the set of the bytes it has among those that texts are made of.  Tokens *)
(* and places in the text are numbered from 1 and from 0.  Left out: \x,   *)
(* and the flag that takes line ends out of the dot.                       *)
(***************************************************************************)
EXTENDS Integers, Sequences, SequencesExt, FiniteSets, FiniteSetsExt

CONSTANTS
    Code,       \* the byte values of the characters, a function
    Bytes,      \* the characters of texts
    Counts,     \* quantifiers in braces: [lo, hi], hi = NoCount in {n,} and "{"
                \*   with anything else after it is no key
    Trees,      \* regular expressions, as they are meant: see Written
    Malformed,  \* sequences of items that are no regular expression
    Texts,      \* sequences of Bytes
    Slots,      \* values of cap_slots
    TokenMax, GroupMax, StackMax    \* the sizes of the buffers: 1024 each

NoCount == -1

ASSUME RegexAssumption ==
    /\ Bytes \subseteq DOMAIN Code
    /\ \A q \in DOMAIN Counts : Counts[q].lo \in Nat /\ Counts[q].hi \in Nat \cup {NoCount}
    /\ TokenMax \in Nat /\ GroupMax \in Nat /\ StackMax \in Nat \ {0}

VARIABLES
    tree,       \* what the pattern means, or NoTree
    pattern,    \* the items
    at,         \* the index of the next one
    pc,         \* "parse", "parsed", "match", "done" or "crash"
    p,          \* the variables of regex_parse
    text, cap_slots,
    m,          \* the variables of regex_match
    result,     \* a length, or one of the errors below
    caps        \* cap_pos and cap_span: <<position, length>> of each capture

input == <<tree, pattern>>
call == <<text, cap_slots>>
vars == <<input, at, pc, p, call, m, result, caps>>

NoTree == [k |-> "none"]
NoMatch == -1
OutOfMemory == -2
Invalid == -3                   \* also for the -1 of regex_parse
Pending == -4
NoCapture == <<-1, -1>>
Unlimited == 2 ^ 16         \* more than any count, which has 16 bits
-----------------------------------------------------------------------------
(* What a pattern means: a tree of                                         *)
(*   [k |-> "set", text, set]   a character of the set, written as text    *)
(*   [k |-> "at", text, at]     a place: "^", "$", "b" or "B"              *)
(*   [k |-> "empty"], [k |-> "cat", x, y], [k |-> "alt", x, y]             *)
(*   [k |-> "group", open, x]   open is "(", "(?:" or "(?>"                *)
(*   [k |-> "rep", x, text, lo, hi, mode]   lo to hi times x, a set or a   *)
(*                              group; mode is "greedy", "lazy" or so      *)

RECURSIVE Written(_)
Written(t) ==
    CASE t.k \in {"set", "at"} -> t.text
      [] t.k = "empty" -> <<>>
      [] t.k = "cat" -> Written(t.x) \o Written(t.y)
      [] t.k = "alt" -> Written(t.x) \o <<"|">> \o Written(t.y)
      [] t.k = "group" -> <<t.open>> \o Written(t.x) \o <<")">>
      [] t.k = "rep" -> Written(t.x) \o t.text

RECURSIVE CapturesIn(_)
CapturesIn(t) ==
    CASE t.k \in {"cat", "alt"} -> CapturesIn(t.x) + CapturesIn(t.y)
      [] t.k = "group" -> CapturesIn(t.x) + (IF t.open = "(" THEN 1 ELSE 0)
      [] t.k = "rep" -> CapturesIn(t.x)
      [] OTHER -> 0

RECURSIVE Nullable(_)
Nullable(t) ==
    CASE t.k = "set" -> FALSE
      [] t.k = "cat" -> Nullable(t.x) /\ Nullable(t.y)
      [] t.k = "alt" -> Nullable(t.x) \/ Nullable(t.y)
      [] t.k = "group" -> Nullable(t.x)
      [] t.k = "rep" -> t.lo = 0 \/ Nullable(t.x)
      [] OTHER -> TRUE

\* The parts of t that are repeated.
RECURSIVE Repeats(_)
Repeats(t) ==
    CASE t.k \in {"cat", "alt"} -> Repeats(t.x) \cup Repeats(t.y)
      [] t.k = "group" -> Repeats(t.x)
      [] t.k = "rep" -> {t} \cup Repeats(t.x)
      [] OTHER -> {}
-----------------------------------------------------------------------------
(* Tokens *)

Cleared == [kind |-> "normal", mode |-> {}, lo |-> 1, hi |-> 2, mask |-> {}, pair |-> 0, next |-> 0]
Opens == {"open", "ncopen"}
Boundaries == {"bound", "nbound"}

WordBytes == {c \in DOMAIN Code : Code[c] \in (48 .. 57) \cup (65 .. 90) \cup (97 .. 122) \cup {95}}
Shorthand(c) ==
    LET digits == {b \in DOMAIN Code : Code[b] \in 48 .. 57}
        spaces == {b \in DOMAIN Code : Code[b] \in (9 .. 13) \cup {32}}
        lower == CASE c \in {"d", "D"} -> digits [] c \in {"s", "S"} -> spaces [] OTHER -> WordBytes
    IN Bytes \cap (IF c \in {"D", "S", "W"} THEN Bytes \ lower ELSE lower)
Shorthands == {"d", "s", "w", "D", "S", "W"}
Literals == {"{", "}", "[", "]", "-", "(", ")", "|", "^", "$", "*", "+", "?", ":", ".", "/", "\\"}
Whites == ("n" :> "\n") @@ ("r" :> "\r") @@ ("t" :> "\t") @@ ("v" :> "vt") @@ ("f" :> "\f")

\* As many of A as of B in places a .. b of ts.
Balanced(ts, a, b) ==
    Cardinality({l \in a .. b : ts[l].kind \in Opens}) = Cardinality({l \in a .. b : ts[l].kind = "close"})

\* Mutant: the balance is not kept.
OpenOf_latest(ts) == {l \in DOMAIN ts : ts[l].kind \in Opens}

\* The parenthesis that one written after the tokens ts closes.
OpenOf(ts) == {l \in DOMAIN ts : ts[l].kind \in Opens /\ Balanced(ts, l + 1, Len(ts))}

Rejected(q) == IF q.error = Pending THEN [q EXCEPT !.error = Invalid] ELSE q

\* _REGEX_PUSH_TOKEN.  A second \b or \B in a row is not pushed, nor cleared.
push(q) ==
    LET n == Len(q.tokens)
        token == IF "inverted" \in q.token.mode
                 THEN [q.token EXCEPT !.mask = Bytes \ @, !.mode = @ \ {"inverted"}] ELSE q.token
    IN IF n > 0 /\ q.tokens[n].kind = token.kind /\ token.kind \in Boundaries THEN q
       ELSE IF n >= TokenMax THEN [q EXCEPT !.error = OutOfMemory]
       ELSE [q EXCEPT !.tokens = Append(@, token), !.token = Cleared]

SetMask(q, cs) == [q EXCEPT !.token.mask = @ \cup (cs \cap Bytes)]
-----------------------------------------------------------------------------
(* regex_parse *)

Init ==
    /\ \/ tree \in Trees /\ pattern = Written(tree)
       \/ tree = NoTree /\ pattern \in Malformed
    /\ at = 1
    /\ pc = "parse"
    /\ p = [state |-> "normal", esc |-> FALSE, mem |-> "", parens |-> 0, error |-> Pending,
            token |-> [Cleared EXCEPT !.kind = "open", !.lo = 0, !.hi = 0], tokens |-> <<>>]
    /\ text = <<>> /\ cap_slots = 0 /\ m = <<>> /\ result = Pending /\ caps = <<>>

ch == pattern[at]
Becomes(q) ==
    /\ p' = q
    /\ IF q.error # Pending THEN pc' = "done" /\ result' = q.error ELSE UNCHANGED <<pc, result>>
    /\ at' = at + 1
    /\ UNCHANGED <<input, call, m, caps>>
Reading(state) == pc = "parse" /\ at <= Len(pattern) /\ p.state = state

Quantifiers == {"?", "+", "*"} \cup DOMAIN Counts
Quantity(q) ==
    CASE q = "?" -> <<0, 2>> [] q = "+" -> <<1, 0>> [] q = "*" -> <<0, 0>>
      [] OTHER -> <<Counts[q].lo, IF Counts[q].hi = NoCount THEN 0 ELSE (Counts[q].hi + 1) % 2 ^ 16>>
\* Too large, or backwards.
BadQuantity(q) ==
    /\ q \in DOMAIN Counts
    /\ \/ Counts[q].lo > 65535 \/ Counts[q].hi > 65535
       \/ Counts[q].hi # NoCount /\ Counts[q].hi < Counts[q].lo

ReadQuantifier ==
    /\ Reading("quant") /\ ch \in Quantifiers
    /\ Becomes(IF BadQuantity(ch) THEN Rejected(p)
               ELSE [p EXCEPT !.state = "mode", !.token.lo = Quantity(ch)[1], !.token.hi = Quantity(ch)[2]])

ReadMode ==
    /\ Reading("mode") /\ ch \in {"?", "+"}
    /\ Becomes([p EXCEPT !.state = "normal", !.token.mode = @ \cup {IF ch = "?" THEN "lazy" ELSE "possessive"}])

\* The character is none of what the state expects.
Normally ==
    \/ Reading("normal")
    \/ Reading("quant") /\ ch \notin Quantifiers
    \/ Reading("mode") /\ ch \notin {"?", "+"}

ReadEscaped ==
    /\ Normally /\ p.esc
    /\ LET q == [p EXCEPT !.esc = FALSE, !.state = "normal"]
           Quantifiable(cs) == SetMask([q EXCEPT !.state = "quant"], cs)
       IN Becomes(CASE ch \in DOMAIN Whites -> SetMask(q, {Whites[ch]})
                    [] ch \in Literals -> Quantifiable({ch})
                    [] ch \in Shorthands -> Quantifiable(Shorthand(ch))
                    [] ch = "b" -> [q EXCEPT !.token.kind = "bound"]
                    [] ch = "B" -> [q EXCEPT !.token.kind = "nbound"]
                    [] OTHER -> Rejected(q))

Kinds == ("^" :> "caret") @@ ("$" :> "dollar") @@ ("|" :> "or") @@ ("(" :> "open") @@ ("(?:" :> "ncopen")

\* Every other character ends the token before it.
Pushed == [push(p) EXCEPT !.state = "normal"]
Plainly(cs) == Normally /\ ~p.esc /\ ch \in cs

ReadCharacter ==
    /\ Normally /\ ~p.esc
    /\ ch \notin DOMAIN Kinds \cup {"\\", "[", "[^", "(?>", ")", "{"} \cup Quantifiers
    /\ Becomes([SetMask(Pushed, IF ch = "." THEN Bytes ELSE {ch}) EXCEPT !.state = "quant"])

ReadBackslash == Plainly({"\\"}) /\ Becomes([Pushed EXCEPT !.esc = TRUE])

ReadKind ==
    /\ Plainly(DOMAIN Kinds \ {"(", "(?:"})
    /\ Becomes([Pushed EXCEPT !.token.kind = Kinds[ch]])

ReadMisplaced == Plainly(Quantifiers \cup {"{"}) /\ Becomes(Rejected(Pushed))

ReadOpen ==
    /\ Plainly({"(", "(?:", "(?>"})
    /\ LET q == [Pushed EXCEPT !.parens = @ + 1, !.token.lo = 0, !.token.hi = 1,
                               !.token.kind = IF ch = "(" THEN "open" ELSE "ncopen"]
       IN Becomes(IF ch # "(?>" THEN q
                  ELSE [push(q) EXCEPT !.token.kind = "ncopen", !.token.mode = {"possessive"}])

\* An atomic group is two groups, and is closed twice.
ReadClose ==
    /\ Plainly({")"})
    /\ LET found == Max(OpenOf(Pushed.tokens))
           diff == Len(Pushed.tokens) + 1 - found
           q == [Pushed EXCEPT !.parens = @ - 1, !.state = "quant", !.tokens[found].pair = diff,
                               !.token.kind = "close", !.token.pair = -diff]
       IN Becomes(IF p.parens = 0 \/ OpenOf(Pushed.tokens) = {} THEN Rejected(Pushed)
                  ELSE IF q.tokens[found].mode # {"possessive"} THEN q
                  ELSE [push(q) EXCEPT !.tokens[found - 1].pair = diff + 2, !.token.kind = "close",
                                       !.token.mode = {"possessive"}, !.token.pair = -diff - 2])

ReadClass ==
    /\ Plainly({"[", "[^"})
    /\ Becomes([Pushed EXCEPT !.state = "cc_init", !.mem = "",
                              !.token.mode = IF ch = "[^" THEN {"inverted"} ELSE {}])

InClass == Reading("cc_init") \/ Reading("cc_normal") \/ Reading("cc_range")
ReadClassBackslash == InClass /\ ch = "\\" /\ ~p.esc /\ Becomes([p EXCEPT !.esc = TRUE])

ReadClassShorthand ==
    /\ InClass /\ p.esc /\ ch \in Shorthands
    /\ Becomes(IF p.state = "cc_range" THEN Rejected(p)
               ELSE SetMask([p EXCEPT !.esc = FALSE, !.mem = ""], Shorthand(ch)))

\* What an escape stands for is worked out (esc_c), but it is the letter itself that is added.
ReadInClass ==
    /\ InClass /\ IF p.esc THEN ch \notin Shorthands ELSE ch # "\\"
    /\ LET q == [p EXCEPT !.esc = FALSE]
           Closed == [q EXCEPT !.mem = "", !.state = "quant"]
           Added == SetMask([q EXCEPT !.mem = ch, !.state = "cc_normal"], {ch})
           upTo == {b \in Bytes : Code[b] \in Code[p.mem] .. Code[ch]}
       IN Becomes(CASE p.esc /\ ch \notin DOMAIN Whites \cup Literals -> Rejected(q)
                    [] p.state = "cc_init" -> Added
                    [] p.state = "cc_normal" ->
                         IF ch = "]" /\ ~p.esc THEN Closed
                         ELSE IF ch = "-" /\ ~p.esc /\ p.mem # "" THEN [q EXCEPT !.state = "cc_range"]
                         ELSE Added
                    [] OTHER ->
                         IF ch = "]" /\ ~p.esc THEN SetMask(Closed, {"-"})
                         ELSE IF Code[ch] < Code[p.mem] THEN Rejected(q)
                         ELSE SetMask([q EXCEPT !.mem = "", !.state = "cc_normal"], upTo))

\* The next | of the same group or the ) that ends it.
NextOf(ts, k) ==
    Min({l \in k + 1 .. Len(ts) : ts[l].kind \in {"or", "close"} /\ Balanced(ts, k + 1, l - 1)}) - k

\* An opening parenthesis learns its quantifier from the closing one.
Linked(ts) ==
    [k \in DOMAIN ts |->
        CASE ts[k].kind \in Opens ->
               [ts[k] EXCEPT !.lo = ts[k + ts[k].pair].lo, !.hi = ts[k + ts[k].pair].hi,
                             !.mode = ts[k + ts[k].pair].mode, !.next = NextOf(ts, k)]
          [] ts[k].kind = "or" -> [ts[k] EXCEPT !.pair = NextOf(ts, k)]
          [] OTHER -> ts[k]]

EndOfPattern ==
    /\ pc = "parse" /\ at > Len(pattern)
    /\ LET closing == [push(p) EXCEPT !.token.kind = "close"]
           ending == [push(closing) EXCEPT !.token.kind = "end"]
           q == push(ending)
           n == Len(q.tokens)
           whole == [q.tokens EXCEPT ![1].pair = n - 2, ![n - 1].pair = -(n - 2)]
           groups == Cardinality({k \in 1 .. n : q.tokens[k].kind = "close"})
           unfinished == p.parens > 0 \/ p.esc \/ p.state \in {"cc_init", "cc_normal", "cc_range"}
       IN IF unfinished \/ q.error # Pending \/ 2 * groups > GroupMax
          THEN UNCHANGED p /\ pc' = "done" /\ result' = (IF unfinished THEN Invalid ELSE Rejected(q).error)
          ELSE p' = [q EXCEPT !.tokens = Linked(whole)] /\ pc' = "parsed" /\ UNCHANGED result
    /\ UNCHANGED <<input, at, call, m, caps>>
-----------------------------------------------------------------------------
(* regex_match *)

tokens == p.tokens
End == Len(tokens)
Closes == {k \in 1 .. End : tokens[k].kind = "close"}
Dummy == -1                     \* in the place of prev: 0xFAC7
Failed == -5                    \* an assertion fails

\* q_group_cap_index: the capture of a parenthesis, numbered from 1.
CaptureOf(k) ==
    LET open == IF k \in Closes THEN k + tokens[k].pair ELSE k
    IN IF tokens[open].kind = "open" THEN Cardinality({l \in 1 .. open : tokens[l].kind = "open"})
       ELSE cap_slots + 1
IsCaptured(k) == CaptureOf(k) <= cap_slots

\* The three arrays about quantified groups have one element per closing
\* parenthesis: repetitions so far, the last entry of the stack for it, and
\* whether it has matched nothing.
regex_match ==
    /\ pc = "parsed"
    /\ text' \in Texts /\ cap_slots' \in Slots
    /\ m' = [k |-> 1, i |-> 0, min |-> 0, max |-> 0, just_rewinded |-> FALSE, stack |-> <<>>, n |-> 0,
             count |-> [k \in Closes |-> 0], last |-> [k \in Closes |-> 0],
             zero |-> [k \in Closes |-> FALSE], out |-> Pending]
    /\ pc' = "match"
    /\ UNCHANGED <<input, at, p, result, caps>>

\* _REWIND_DO_SAVE_RAW.  stack[x + 1] is rewind_stack[x]; what lies above
\* stack_n stays readable.
save_raw(q, k, prev) ==
    LET s == [k |-> k, i |-> q.i, min |-> q.min, max |-> q.max, prev |-> prev,
              count |-> IF k \in Closes /\ prev # Dummy THEN q.count[k] ELSE 0]
    IN IF q.n >= StackMax THEN [q EXCEPT !.out = OutOfMemory]
       ELSE [q EXCEPT !.stack = IF q.n < Len(@) THEN [@ EXCEPT ![q.n + 1] = s] ELSE Append(@, s),
                      !.n = @ + 1]
save_dummy(q, k) == save_raw(q, k, Dummy)
save(q, k) ==
    IF k \in Closes THEN [save_raw(q, k, q.last[k]) EXCEPT !.last[k] = q.n] ELSE save_raw(q, k, 0)

\* _REWIND_OR_ABORT; the loop adds the 1 that is taken off k.
rewind_or_abort(q) ==
    LET n == Max({x \in 0 .. q.n - 1 : x = 0 \/ q.stack[x + 1].prev # Dummy})
        s == q.stack[n + 1]
        back == [q EXCEPT !.n = n, !.just_rewinded = TRUE, !.min = s.min, !.max = s.max,
                          !.i = s.i, !.k = s.k - 1]
    IN CASE q.n = 0 -> [q EXCEPT !.out = NoMatch]
         [] q.n > 0 /\ s.i > q.i -> [q EXCEPT !.out = Failed]
         [] OTHER -> IF s.k \in Closes THEN [back EXCEPT !.count[s.k] = s.count, !.last[s.k] = s.prev] ELSE back

\* One turn of the loop ends with q.
Turn(q) ==
    /\ IF q.out = Pending
       THEN m' = [q EXCEPT !.k = @ + 1] /\ UNCHANGED <<pc, result>>
       ELSE m' = <<>> /\ pc' = (IF q.out = Failed THEN "crash" ELSE "done") /\ result' = q.out
    /\ UNCHANGED <<input, at, p, call, caps>>

token == tokens[m.k]
Matching(kinds) == pc = "match" /\ m.k < End /\ token.kind \in kinds
Matchable(kinds) == Matching(kinds) /\ token.hi # 1
Byte(i) == text[i + 1]
AtEnd(i) == i = Len(text)
Takes(i) == ~AtEnd(i) /\ Byte(i) \in token.mask
IsWord(i) == i \in 0 .. Len(text) - 1 /\ Byte(i) \in WordBytes

MatchAnchor ==
    /\ Matching({"caret", "dollar"})
    /\ Turn(IF IF token.kind = "caret" THEN m.i = 0 ELSE AtEnd(m.i) THEN m ELSE rewind_or_abort(m))

\* Before the text and after it there is no word character.
MatchBoundary ==
    /\ Matching(Boundaries)
    /\ LET bound == IsWord(m.i - 1) # IsWord(m.i)
       IN Turn(IF bound = (token.kind = "bound") THEN m ELSE rewind_or_abort(m))

\* {0}: a group is left out; of a character, the token after it as well.
SkipUnmatchable ==
    /\ Matching(Opens \cup {"close", "or", "normal"}) /\ token.hi = 1
    /\ Turn([m EXCEPT !.k = @ + IF token.kind \in Opens THEN token.pair ELSE 1])

\* A lazy group that may be left out is left out first.
EnterGroup ==
    /\ Matchable(Opens) /\ ~m.just_rewinded
    /\ LET close == m.k + token.pair
       IN Turn(IF "lazy" \in token.mode /\ (token.lo = 0 \/ m.zero[close])
               THEN [save([m EXCEPT !.min = 0, !.max = 0], m.k) EXCEPT !.k = close]
               ELSE save([m EXCEPT !.min = 1, !.max = 0], m.k))

\* Mutant: saved before range_min is set.
TryAlternative_unmoved(q, next) == [save(q, q.k) EXCEPT !.k = next]

TryAlternative(q, next) == [save([q EXCEPT !.min = next - q.k + 1], q.k) EXCEPT !.k = next]

\* Back at a group: its next alternative, or none and on without it.
NextAlternative ==
    /\ Matchable(Opens) /\ m.just_rewinded
    /\ LET before == tokens[m.k + m.min - 1]
           next == IF m.min = 0 THEN m.k
                   ELSE m.k + m.min - 1 + (IF before.kind = "or" THEN before.pair
                                           ELSE IF before.kind \in Opens THEN before.next ELSE 1)
           q == [m EXCEPT !.just_rewinded = FALSE]
       IN Turn(IF m.min # 0 /\ next \in Closes
               THEN IF tokens[next].lo = 0 \/ m.zero[next]
                    THEN [q EXCEPT !.k = next, !.count[next] = 0,
                                   !.last[next] = IF "lazy" \in tokens[next].mode THEN @ ELSE 0]
                    ELSE rewind_or_abort(q)
               ELSE IF m.min # 0 /\ tokens[next].kind # "or"
               THEN [q EXCEPT !.out = IF tokens[next].kind = "end" THEN Invalid ELSE Failed]
               ELSE TryAlternative(q, next))

IsQuantified == ~(token.lo = 1 /\ token.hi = 2)

\* Mutant: where a group ends is not noted.
Marked_not(q) == q

\* For the captures.
Marked(q) == IF IsCaptured(q.k) THEN save_dummy(q, q.k) ELSE q

CloseUnquantified == Matchable({"close"}) /\ ~IsQuantified /\ Turn(Marked(m))

\* Backtracking into a group after another turn of it: its last closing lies
\* further on, and it matched nothing if it was opened here.
ForceZero ==
    LET prev == m.last[m.k]
        opened == Max({x \in 0 .. m.n - 1 : x = 0 \/ m.stack[x + 1].k = m.k + token.pair})
    IN prev # 0 /\ m.stack[prev + 1].i > m.i /\ m.stack[opened + 1].i = m.i

NoOpening ==
    LET prev == m.last[m.k]
    IN prev # 0 /\ m.stack[prev + 1].i > m.i
         /\ \A x \in 1 .. m.n - 1 : m.stack[x + 1].k # m.k + token.pair

\* What a possessive group forgets: everything since it was entered.
Forgotten(q) ==
    LET since == IF q.count[q.k] = 0 THEN q.k + token.pair ELSE q.k
        n == Max({x \in 0 .. q.n - 1 : x = 0 \/ q.stack[x + 1].k = since} \cup {0})
    IN IF n = 0 THEN [q EXCEPT !.out = NoMatch] ELSE [q EXCEPT !.n = n]

Again(q) == [save([q EXCEPT !.count[q.k] = @ + 1], q.k) EXCEPT !.k = @ + token.pair - 1]

CloseGroup ==
    /\ Matchable({"close"}) /\ IsQuantified /\ ~m.just_rewinded
    /\ LET prev == m.last[m.k]
           q == [m EXCEPT !.max = IF token.hi = 0 THEN Unlimited ELSE token.hi - 1,
                          !.min = IF m.zero[m.k] THEN 0 ELSE token.lo]
           nothing == prev # 0 /\ m.stack[prev + 1].i = m.i
           greedy == IF "possessive" \in token.mode THEN Forgotten(q) ELSE q
           next == m.count[m.k] + 1
       IN Turn(CASE next < q.min -> Again(q)
                 [] next >= q.min /\ token.hi # 0 /\ next > q.max -> rewind_or_abort(q)
                 [] OTHER ->
                      IF NoOpening THEN [q EXCEPT !.out = Failed]
                      ELSE IF ForceZero \/ nothing THEN rewind_or_abort([q EXCEPT !.zero[m.k] = TRUE])
                      ELSE IF "lazy" \in token.mode
                      THEN [save([q EXCEPT !.count[m.k] = next], m.k) EXCEPT !.count[m.k] = 0]
                      ELSE IF greedy.out = Pending /\ m.i > 0 THEN Again(greedy) ELSE greedy)

\* Back at the end of a group: a lazy one is matched once more, a greedy one
\* is enough as it is.
LeaveGroup ==
    /\ Matchable({"close"}) /\ IsQuantified /\ m.just_rewinded
    /\ LET q == [m EXCEPT !.just_rewinded = FALSE]
           saved == save_dummy(q, m.k)
       IN Turn(IF "lazy" \in token.mode
               THEN [saved EXCEPT !.last[m.k] = saved.n, !.k = @ + token.pair - 1]
               ELSE IF q.count[m.k] < q.min /\ ~q.zero[m.k] THEN rewind_or_abort(q)
               ELSE Marked([q EXCEPT !.count[m.k] = 0]))

EndAlternative == Matchable({"or"}) /\ Turn([m EXCEPT !.k = @ + token.pair - 1])

\* How many characters from m.i on, at most limit.
Run(limit) == Max({n \in 0 .. limit : \A x \in 0 .. n - 1 : Takes(m.i + x)})
Room == Len(text) - m.i

MatchCharacters ==
    /\ Matchable({"normal"}) /\ ~m.just_rewinded
    /\ LET limit == IF token.hi = 0 THEN Unlimited ELSE token.hi - 1
           least == token.lo
           most == Run(Min({limit, Room}))
           q == [m EXCEPT !.min = least]
       IN Turn(IF least > Room \/ most < least THEN rewind_or_abort(m)
               ELSE IF "lazy" \in token.mode THEN save([q EXCEPT !.i = @ + least, !.max = limit], m.k)
               ELSE LET taken == [q EXCEPT !.i = @ + most, !.max = most]
                    IN IF "possessive" \in token.mode THEN taken ELSE save(taken, m.k))

RetryCharacters ==
    /\ Matchable({"normal"}) /\ m.just_rewinded
    /\ LET q == [m EXCEPT !.just_rewinded = FALSE]
       IN Turn(IF "lazy" \in token.mode
               THEN IF Takes(m.i) /\ m.min < m.max
                    THEN save([q EXCEPT !.i = @ + 1, !.min = @ + 1], m.k) ELSE rewind_or_abort(q)
               ELSE IF m.max > m.min
                    THEN save([q EXCEPT !.i = @ - 1, !.max = @ - 1], m.k) ELSE rewind_or_abort(q))

\* The stack tells where every group was opened and closed last.
Captured(j) ==
    LET span == FoldLeft(LAMBDA found, s :
                           CASE tokens[s.k].kind = "open" /\ CaptureOf(s.k) = j -> <<s.i, found[2]>>
                             [] s.k \in Closes /\ CaptureOf(s.k) = j /\ found[1] >= 0 -> <<found[1], s.i - found[1]>>
                             [] OTHER -> found,
                         NoCapture, SubSeq(m.stack, 1, m.n))
    IN IF span[2] = -1 THEN NoCapture ELSE span

Finish ==
    /\ pc = "match" /\ m.k >= End
    /\ LET opens == Cardinality({k \in 1 .. End : tokens[k].kind = "open"})
       IN caps' = [j \in 1 .. Min({opens, cap_slots}) |-> Captured(j)]
    /\ pc' = "done" /\ result' = m.i /\ m' = <<>>
    /\ UNCHANGED <<input, at, p, call>>

Stop == pc \in {"done", "crash"} /\ UNCHANGED vars

Parse ==
    \/ ReadQuantifier \/ ReadMode \/ ReadEscaped \/ ReadCharacter \/ ReadBackslash \/ ReadKind
    \/ ReadMisplaced \/ ReadOpen \/ ReadClose \/ ReadClass \/ ReadClassBackslash
    \/ ReadClassShorthand \/ ReadInClass \/ EndOfPattern
Match ==
    \/ MatchAnchor \/ MatchBoundary \/ SkipUnmatchable \/ EnterGroup \/ NextAlternative
    \/ CloseUnquantified \/ CloseGroup \/ LeaveGroup \/ EndAlternative \/ MatchCharacters
    \/ RetryCharacters \/ Finish
Next == Parse \/ regex_match \/ Match \/ Stop

\* One thread: nothing blocks the matcher's loop.
Spec == Init /\ [][Next]_vars /\ WF_vars(Match)
-----------------------------------------------------------------------------
(* The reference: the ways to match, the preferred one first. *)

FirstOf(paths) == IF paths = <<>> THEN <<>> ELSE <<paths[1]>>
Holds(place, i) ==
    CASE place = "^" -> i = 0 [] place = "$" -> AtEnd(i)
      [] place = "b" -> IsWord(i - 1) # IsWord(i) [] place = "B" -> IsWord(i - 1) = IsWord(i)

\* A path is [at, caps]; n captures are opened before t.
RECURSIVE Paths(_, _, _), PathsFrom(_, _, _), Repeated(_, _, _, _), RepeatedFrom(_, _, _, _, _)
Paths(t, path, n) ==
    CASE t.k = "set" -> IF ~AtEnd(path.at) /\ Byte(path.at) \in t.set THEN <<[path EXCEPT !.at = @ + 1]>> ELSE <<>>
      [] t.k = "at" -> IF Holds(t.at, path.at) THEN <<path>> ELSE <<>>
      [] t.k = "empty" -> <<path>>
      [] t.k = "cat" -> PathsFrom(t.y, Paths(t.x, path, n), n + CapturesIn(t.x))
      [] t.k = "alt" -> Paths(t.x, path, n) \o Paths(t.y, path, n + CapturesIn(t.x))
      [] t.k = "group" ->
           LET inner == Paths(t.x, path, IF t.open = "(" THEN n + 1 ELSE n)
           IN IF t.open # "(" THEN IF t.open = "(?>" THEN FirstOf(inner) ELSE inner
              ELSE [x \in DOMAIN inner |->
                      [inner[x] EXCEPT !.caps = [j \in DOMAIN @ |->
                         IF j = n + 1 THEN <<path.at, inner[x].at - path.at>> ELSE @[j]]]]
      [] t.k = "rep" ->
           LET times == Repeated(t, path, 0, n)
           IN IF t.mode # "possessive" THEN times
              ELSE [x \in DOMAIN FirstOf(times) |-> [times[x] EXCEPT !.caps = path.caps]]
PathsFrom(t, paths, n) ==
    IF paths = <<>> THEN <<>> ELSE Paths(t, Head(paths), n) \o PathsFrom(t, Tail(paths), n)
Repeated(t, path, times, n) ==
    LET stop == IF times >= t.lo THEN <<path>> ELSE <<>>
        more == IF t.hi # NoCount /\ times >= t.hi THEN <<>>
                ELSE RepeatedFrom(t, path.at, Paths(t.x, path, n), times, n)
    IN IF t.mode = "lazy" THEN stop \o more ELSE more \o stop
RepeatedFrom(t, start, paths, times, n) ==
    IF paths = <<>> THEN <<>>
    ELSE (IF Head(paths).at = start /\ times >= t.lo THEN <<>> ELSE Repeated(t, Head(paths), times + 1, n))
            \o RepeatedFrom(t, start, Tail(paths), times, n)

Whole == [k |-> "group", open |-> "(", x |-> tree]
Meant ==
    Paths(Whole, [at |-> 0, caps |-> [j \in 1 .. Min({CapturesIn(Whole), cap_slots}) |-> NoCapture]], 0)

\* What the matcher does right: groups are repeated by ?, * or +, greedily or
\* possessively, and only if they match something; no {0}, no atomic groups, no
\* \b or \B twice in a row.
Supported(t) ==
    /\ \A r \in Repeats(t) :
         IF r.x.k = "set" THEN r.hi # 0
         ELSE /\ r.mode # "lazy" /\ ~Nullable(r.x)
              /\ <<r.lo, r.hi>> \in {<<0, 1>>, <<0, NoCount>>, <<1, NoCount>>}
    /\ \A j \in DOMAIN pattern :
         /\ pattern[j] # "(?>"
         /\ j + 3 <= Len(pattern) /\ pattern[j] = "\\" /\ pattern[j + 1] \in {"b", "B"} =>
                SubSeq(pattern, j, j + 1) # SubSeq(pattern, j + 2, j + 3)

\* A supported pattern matches what it means, with the captures it means
\* (regex_match's contract at line 824), unless the stack is too small, for
\* which a group and a character have to be on it twice for some position.
MatchesAsMeant ==
    pc = "done" /\ text # <<>> /\ tree # NoTree /\ Supported(tree) =>
        \/ result = OutOfMemory /\ 2 * End * (Len(text) + 1) > StackMax
        \/ LET meant == FirstOf(Meant)
           IN IF meant = <<>> THEN result = NoMatch ELSE result = meant[1].at /\ caps = meant[1].caps

TypeOK ==
    /\ pc \in {"parse", "parsed", "match", "done", "crash"}
    /\ at \in 1 .. Len(pattern) + 1
    /\ p.state \in {"normal", "quant", "mode", "cc_init", "cc_normal", "cc_range"}
    /\ Len(tokens) <= TokenMax
    /\ pc = "match" => /\ m.k \in 1 .. End /\ m.i \in 0 .. Len(text) /\ m.n \in 0 .. Min({StackMax, Len(m.stack)})
                       /\ \A k \in Closes : m.last[k] \in 0 .. Len(m.stack)

\* regex_parse takes every pattern of its syntax and nothing else (its error
\* returns), and links the parentheses of what it takes to each other.
AcceptsExactly ==
    /\ pc \in {"parsed", "match"} => tree # NoTree
    /\ pc = "done" /\ tree # NoTree => result # Invalid
    /\ pc = "parsed" => \A k \in 1 .. End :
         tokens[k].kind \in Opens \cup {"close"} =>
            /\ tokens[k + tokens[k].pair].pair = -tokens[k].pair
            /\ Balanced(tokens, Min({k, k + tokens[k].pair}), Max({k, k + tokens[k].pair}))

\* The tokens and the matcher's stack and arrays are what the parser promised.
TokensSound == TypeOK /\ AcceptsExactly

\* The loop of regex_match, whose limit is switched off, always ends: with an
\* answer, or by a failed assertion after a character repeated no times.
Returns == pc = "match" ~> (pc = "done" \/ (pc = "crash" /\ \E r \in Repeats(tree) : r.x.k = "set" /\ r.hi = 0))
=============================================================================
