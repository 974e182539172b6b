-------------------------- MODULE JetstreamStrings --------------------------
(***************************************************************************)
(* The string helpers of jetstream (src/jetstream/utils.go) and the        *)
(* decisions built from them in auth.go: whether an SSO option is set      *)
(* (hasSSOOption) and whether a token's scopes make its user an admin.    *)
(* A string is a sequence of one-character strings, since these           *)
(* operators are about how the characters are split, filtered and         *)
(* searched.                                                               *)
(***************************************************************************)
EXTENDS Naturals, Sequences, SequencesExt

\* unicode.IsSpace, over the characters a configuration string may hold.
IsSpace(c) == c \in {" ", "\t", "\n", "\r"}

\* ArrayContainsString: the loop returns TRUE at the first equal element.
RECURSIVE ArrayContainsString(_, _)
ArrayContainsString(a, x) ==
    IF a = <<>> THEN FALSE
    ELSE IF x = Head(a) THEN TRUE
    ELSE ArrayContainsString(Tail(a), x)

\* RemoveSpaces: strings.Map dropping every rune for which IsSpace holds.
RemoveSpaces(str) == SelectSeq(str, LAMBDA c : ~IsSpace(c))

(* strings.Split(s, sep) for a one-character sep: the pieces between the   *)
(* separators, an empty piece where two are adjacent or at either end, and *)
(* a single empty piece for the empty string.                              *)
RECURSIVE SplitString(_, _)
SplitString(s, sep) ==
    IF s = <<>> THEN << <<>> >>
    ELSE LET rest == SplitString(Tail(s), sep) IN
         IF Head(s) = sep
         THEN << <<>> >> \o rest
         ELSE << <<Head(s)>> \o Head(rest) >> \o Tail(rest)

\* hasSSOOption: remove all spaces, split on ',', look the option up.
hasSSOOption(opts, option) ==
    ArrayContainsString(SplitString(RemoveSpaces(opts), ","), option)

\* strings.Contains(s, t): t occurs in s as a contiguous piece.
StringsContains(s, t) == t \in SubSeqs(s)

\* strings.Join(a, ""): the elements concatenated.
StringsJoin(a) == FlattenSeq(a)

(* GetUAAUser (and GetCNSIUserFromOAuthToken for a cf endpoint): the user  *)
(* is an admin when the admin scope occurs in the decoded scope list       *)
(* joined with no separator.                                               *)
ScopeAdmin(scopes, adminScope) ==
    StringsContains(StringsJoin(scopes), adminScope)

=============================================================================
