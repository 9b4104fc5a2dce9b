----------------------------- MODULE FilterList -----------------------------
(***************************************************************************)
(* The lists of name filters, config/filterList.go.  A text is a sequence   *)
(* of bytes.  A filter is                                                  *)
(*                                                                         *)
(*     [words |-> the lower-cased pattern, cut at its asterisks,            *)
(*      name |-> what the filter is called, isShadowed |-> ...]            *)
(*                                                                         *)
(* and a list is [filters, usefulSize, isCompiled].  Compile starts one     *)
(* goroutine for every pair; the steps around and inside it are operators   *)
(* here, and Configuration puts them in order.                              *)
(***************************************************************************)
EXTENDS TextOrder, FiniteSets

Asterisk      == 42   \* "*"
DigitAsterisk == 37   \* "%"
CharAsterisk  == 36   \* "$"

(* strings.ToLower on a byte.                                              *)
LowerByte(c) == IF c \in 65 .. 90 THEN c + 32 ELSE c
LowerText(t) == [i \in DOMAIN t |-> LowerByte(t[i])]

(* strings.Split at the asterisks.                                         *)
Words(t) ==
    LET from[i \in 1 .. Len(t) + 1] ==
            IF i > Len(t) THEN << <<>> >>
            ELSE IF t[i] = Asterisk THEN << <<>> >> \o from[i + 1]
            ELSE << <<t[i]>> \o Head(from[i + 1]) >> \o Tail(from[i + 1])
    IN  from[1]

FirstWord(words) == words[1]
LastWord(words) == words[Len(words)]

Filters == [words : Seq(ByteString), name : ByteString, isShadowed : BOOLEAN]
FilterLists == [filters : Seq(Filters), usefulSize : Nat, isCompiled : BOOLEAN]

NewNameFilter(pattern, name) ==
    [words |-> Words(LowerText(pattern)), name |-> name, isShadowed |-> FALSE]

NewFilterList == [filters |-> <<>>, usefulSize |-> 0, isCompiled |-> TRUE]

AddFilter(list, pattern, name) ==
    [list EXCEPT !.filters = Append(@, NewNameFilter(pattern, name)), !.isCompiled = FALSE]

-----------------------------------------------------------------------------
(* Matching.                                                               *)

CmpChar(filter, subject) ==
    \/ filter = CharAsterisk
    \/ filter = subject
    \/ filter = DigitAsterisk /\ subject \in 48 .. 57

StartsWith(text, prefix) ==
    /\ Len(prefix) <= Len(text)
    /\ \A i \in DOMAIN prefix : text[i] = prefix[i]

(* The first byte of the suffix is not compared: the loop ends before it.   *)
EndsWith(text, suffix) ==
    LET shift == Len(text) - Len(suffix)
    IN  /\ shift >= 0
        /\ \A i \in 2 .. Len(suffix) : text[shift + i] = suffix[i]

(* Where a word begins, at or behind index; find calls cmpChar with the      *)
(* text in the place of the filter.                                        *)
WordAt(text, word, i) == \A j \in DOMAIN word : CmpChar(text[i + j - 1], word[j])

Places(text, word, index) ==
    {i \in index .. Len(text) - Len(word) + 1 : WordAt(text, word, i)}

NotFound == 0

(* The index behind the first place, or NotFound.                          *)
Find(text, index, word) ==
    LET places == Places(text, word, index)
    IN  IF places = {} THEN NotFound
        ELSE Len(word) + CHOOSE i \in places : \A j \in places : i <= j

(* The words between the first and the last are looked for in order; the     *)
(* search begins at the first byte, not behind the prefix.                  *)
Matches(text, f) ==
    LET behind[i \in 1 .. Len(f.words) - 1] ==
            IF i = 1 THEN 1
            ELSE IF behind[i - 1] = NotFound THEN NotFound
            ELSE Find(text, behind[i - 1], f.words[i])
    IN  /\ StartsWith(text, FirstWord(f.words))
        /\ EndsWith(text, LastWord(f.words))
        /\ Len(f.words) > 1 => behind[Len(f.words) - 1] # NotFound

(* FindFilter, as the index of the filter whose name it returns.            *)
FindFilter(list, text) ==
    LET hits == {i \in 1 .. list.usefulSize : Matches(text, list.filters[i])}
    IN  IF hits = {} \/ ~ list.isCompiled THEN NotFound
        ELSE CHOOSE i \in hits : \A j \in hits : i <= j

-----------------------------------------------------------------------------
(* Compiling.                                                              *)

IsPrefixMoreGeneral(a, b) ==
    /\ Len(a) > 0 => Len(b) > 0
    /\ Len(a) <= Len(b)
    /\ \A i \in DOMAIN a : CmpChar(a[i], b[i])

IsSuffixMoreGeneral(a, b) ==
    /\ Len(a) > 0 => Len(b) > 0
    /\ Len(a) <= Len(b)
    /\ \A i \in DOMAIN a : CmpChar(a[i], b[Len(b) - Len(a) + i])

(* verifyFilter: the name of x, not its pattern, must match the matcher.    *)
Covers(matcher, x) ==
    /\ IsPrefixMoreGeneral(FirstWord(matcher.words), FirstWord(x.words))
    /\ IsSuffixMoreGeneral(LastWord(matcher.words), LastWord(x.words))
    /\ Matches(x.name, matcher)

FilterLess(a, b) ==
    IF a.isShadowed = b.isShadowed THEN TextLess(a.name, b.name) ELSE b.isShadowed

ByName == INSTANCE MergeSort WITH Less <- FilterLess

Pairs(list) ==
    {p \in (DOMAIN list.filters) \X (DOMAIN list.filters) : p[1] < p[2]}

(* Compile up to the start of the goroutines.                              *)
Prepared(list) ==
    LET clear == [i \in DOMAIN list.filters |-> [list.filters[i] EXCEPT !.isShadowed = FALSE]]
    IN  [list EXCEPT !.filters = ByName!Sorted(clear)]

(* A mutant of Verified: the filter that covers the other is shadowed.     *)
VerifiedSwapped(list, pair) ==
    IF Covers(list.filters[pair[1]], list.filters[pair[2]])
    THEN [list EXCEPT !.filters[pair[1]].isShadowed = TRUE]
    ELSE list

(* One goroutine: the pair <<j, i>> with j < i.                            *)
Verified(list, pair) ==
    IF Covers(list.filters[pair[1]], list.filters[pair[2]])
    THEN [list EXCEPT !.filters[pair[2]].isShadowed = TRUE]
    ELSE list

(* A mutant of Finished: the list is not sorted again.                     *)
FinishedUnsorted(list) ==
    LET useful == {i \in DOMAIN list.filters : ~ list.filters[i].isShadowed}
    IN  [list EXCEPT !.usefulSize = Cardinality(useful), !.isCompiled = TRUE]

(* Compile after the goroutines: the shadowed filters go to the end.        *)
Finished(list) ==
    LET sorted == ByName!Sorted(list.filters)
        useful == {i \in DOMAIN sorted : ~ sorted[i].isShadowed}
    IN  [filters |-> sorted,
         usefulSize |-> IF useful = {} THEN list.usefulSize
                        ELSE CHOOSE i \in useful : \A j \in useful : j <= i,
         isCompiled |-> TRUE]

(* Compile as a whole, with the goroutines in any one order.                *)
Compiled(list) ==
    LET p == Prepared(list)
        shadowed == {q[2] : q \in {r \in Pairs(p) : Covers(p.filters[r[1]], p.filters[r[2]])}}
    IN  Finished([p EXCEPT !.filters =
                    [i \in DOMAIN @ |-> [@[i] EXCEPT !.isShadowed = i \in shadowed]]])
=============================================================================
