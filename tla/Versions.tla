------------------------------ MODULE Versions ------------------------------
(***************************************************************************)
(* Versions and references (linglong/package: version*.cpp, semver.hpp,    *)
(* fallback_version.cpp, reference.cpp, fuzzy_reference.cpp,               *)
(* architecture.cpp) and what finds a layer by them: clearReference() on   *)
(* the local layers, which std::sort has put in order, and on the records  *)
(* of a remote.                                                            *)
(*                                                                         *)
(* The text of a version is the sequence of its words, what the dots       *)
(* separate.  Of a word the Lexicon knows what the code asks: how its text *)
(* compares, its value as a number, whether it is a number without leading *)
(* zeros, and the pieces around `-' and `+'.  Bounds of the lexicon: no    *)
(* signs, no leading `v', and build metadata follows a prerelease of one   *)
(* word only.                                                              *)
(***************************************************************************)
EXTENDS Integers, Sequences, SequencesExt, FiniteSets, TLC

CONSTANTS Lexicon,     \* word -> [rank, value, canonical, head, pre, meta]
          IntMax,      \* the largest int; larger values still fit a uint64_t
          Host,        \* the architecture of the machine
          Architectures, \* the ones the code knows
          Installed,   \* sets of layers: [text, deleted], the text of the version
          Offered,     \* lists of records of a remote: [text, module, channel, arch]
          Asked        \* texts of fuzzy references: [channel, version, arch]

None == "none"
NaN == -1              \* no number, or one that does not fit 64 bits
Bad == [kind |-> "bad"]
Sign(n) == IF n < 0 THEN -1 ELSE IF n > 0 THEN 1 ELSE 0
FirstNonZero(s) ==
    LET rest == SelectSeq(s, LAMBDA n : n # 0)
    IN  IF rest = <<>> THEN 0 ELSE Head(rest)

Value(w) == Lexicon[w].value
Canonical(w) == Lexicon[w].canonical
Fits(w) == Canonical(w) /\ Value(w) # NaN
Plain(w) == Lexicon[w].pre = None /\ Lexicon[w].meta = None
IsNumeric(w) == Value(w) # NaN \/ Canonical(w)
ToIntOk(w) == Value(w) # NaN /\ Value(w) <= IntMax

(***************************************************************************)
(* The three kinds of versions                                             *)
(***************************************************************************)
PrereleasePart(w) == w # "" /\ Plain(w) /\ (IsNumeric(w) => Fits(w))

\* `security.N' in the build metadata: 0 without one, NaN if it is malformed.
Security(meta) ==
    LET at == {j \in 1..(Len(meta) - 1) : meta[j] = "security"}
    IN  IF at = {} THEN 0
        ELSE IF Len(meta) = 1 + CHOOSE j \in at : \A k \in at : j <= k
                THEN IF Fits(Last(meta)) /\ Value(Last(meta)) > 0 THEN Value(Last(meta)) ELSE NaN
                ELSE NaN

\* The texts of versions; a version keeps its own as str, which the code makes anew each time.
Numeral(n) == CHOOSE w \in DOMAIN Lexicon : Canonical(w) /\ Value(w) = n
Joined(n, p, m) ==
    LET h == Numeral(n)
    IN  CHOOSE w \in DOMAIN Lexicon : Lexicon[w].head = h /\ Lexicon[w].pre = p /\ Lexicon[w].meta = m

V1ToString(v) ==
    <<Numeral(v.n[1]), Numeral(v.n[2]), Numeral(v.n[3])>> \o (IF v.tweak = NaN THEN <<>> ELSE <<Numeral(v.tweak)>>)
SemverStr(v) ==
    LET p == IF v.pre = <<>> THEN None ELSE Head(v.pre)
        m == IF v.meta = <<>> THEN None ELSE Head(v.meta)
    IN  <<Numeral(v.n[1]), Numeral(v.n[2]), Joined(v.n[3], p, m)>>
          \o (IF p # None THEN Tail(v.pre) ELSE <<>>) \o (IF m # None THEN Tail(v.meta) ELSE <<>>)

\* semver::version::parse(): the loose pattern does without a patch number.
SemverParse(raw, strict) ==
    LET k == IF ~strict /\ Len(raw) >= 2 /\ (Len(raw) = 2 \/ ~Plain(raw[2])) THEN 2 ELSE 3
        w == Lexicon[raw[k]]
        rest == SubSeq(raw, k + 1, Len(raw))
        pre == (IF w.pre = None THEN <<>> ELSE <<w.pre>>)
                 \o (IF w.pre # None /\ w.meta = None THEN rest ELSE <<>>)
        meta == IF w.meta = None THEN <<>> ELSE <<w.meta>> \o rest
        num(j) == IF j < k THEN raw[j] ELSE w.head
    IN  IF /\ Len(raw) >= k
           /\ \A j \in 1..k : Fits(num(j))
           /\ rest # <<>> => ~Plain(raw[k])
           /\ \A j \in DOMAIN pre : PrereleasePart(pre[j])
           /\ \A j \in DOMAIN meta : meta[j] # "" /\ Plain(meta[j])
           /\ Security(meta) # NaN
        THEN LET v == [kind |-> "v2", pre |-> pre, meta |-> meta, security |-> Security(meta),
                       n |-> <<Value(num(1)), Value(num(2)), IF k = 3 THEN Value(num(3)) ELSE 0>>]
             IN  v @@ [hasPatch |-> k = 3, str |-> SemverStr(v)]
        ELSE Bad

ParseV1(raw) ==
    IF Len(raw) \in {3, 4} /\ \A j \in DOMAIN raw : Fits(raw[j])
    THEN LET v == [kind |-> "v1", n |-> <<Value(raw[1]), Value(raw[2]), Value(raw[3])>>,
                   tweak |-> IF Len(raw) = 4 THEN Value(raw[4]) ELSE NaN]
         IN  v @@ [str |-> V1ToString(v)]
    ELSE Bad

Words(raw) == SelectSeq(raw, LAMBDA w : w # "")
ParseFallback(raw) == IF Words(raw) = <<>> THEN Bad ELSE [kind |-> "fallback", list |-> Words(raw)]

Parse(raw) ==
    LET v2 == SemverParse(raw, TRUE)
        v1 == ParseV1(raw)
    IN  IF v2 # Bad THEN v2 ELSE IF v1 # Bad THEN v1 ELSE ParseFallback(raw)

VersionText(v) == IF v.kind = "fallback" THEN v.list ELSE v.str

(***************************************************************************)
(* Comparison                                                              *)
(***************************************************************************)
Triples(x, y) == FirstNonZero([j \in 1..3 |-> Sign(x.n[j] - y.n[j])])

PartCompareText(p, q) ==
    IF IsNumeric(p) /\ IsNumeric(q) THEN Sign(Value(p) - Value(q))
    ELSE Sign(Lexicon[p].rank - Lexicon[q].rank)
\* prerelease_part::compare(): numbers come before other identifiers.
PartCompare(p, q) ==
    IF IsNumeric(p) # IsNumeric(q) THEN IF IsNumeric(p) THEN -1 ELSE 1
    ELSE IF IsNumeric(p) THEN Sign(Value(p) - Value(q))
    ELSE Sign(Lexicon[p].rank - Lexicon[q].rank)

PrereleaseCompare(x, y) ==
    LET count == IF Len(x) < Len(y) THEN Len(x) ELSE Len(y)
    IN  FirstNonZero([j \in 1..count |-> PartCompare(x[j], y[j])] \o <<Sign(Len(x) - Len(y))>>)

\* semver::version::compare(): a prerelease comes before its release.
SemverCompare(x, y) ==
    LET whole(v) == IF v.pre = <<>> THEN 1 ELSE 0
    IN  FirstNonZero(<<Triples(x, y), Sign(whole(x) - whole(y)),
                       IF x.pre # <<>> /\ y.pre # <<>> THEN PrereleaseCompare(x.pre, y.pre) ELSE 0,
                       Sign(x.security - y.security)>>)

\* FallbackVersion::compare(): by value if both words are numbers, by text if not.
FallbackCompare(x, y) ==
    LET at(s, j) == IF j <= Len(s) THEN s[j] ELSE ""
        word(p, q) == IF ToIntOk(p) /\ ToIntOk(q) THEN Sign(Value(p) - Value(q))
                      ELSE Sign(Lexicon[p].rank - Lexicon[q].rank)
    IN  FirstNonZero([j \in 1..(IF Len(x) > Len(y) THEN Len(x) ELSE Len(y)) |->
                        word(at(x, j), at(y, j))])
CompareWithOtherVersion(fv, raw) ==
    LET other == ParseFallback(raw)
    IN  IF other = Bad THEN 0 ELSE FallbackCompare(fv.list, other.list)

EqV1V2(x, y) == Triples(x, y) = 0 /\ x.tweak = NaN /\ y.pre = <<>> /\ y.security = 0
LessV1V2(x, y) ==
    \/ Triples(x, y) < 0
    \/ Triples(x, y) = 0 /\ x.tweak = NaN /\ y.pre = <<>> /\ y.security # 0

EqV1(x, y) == Triples(x, y) = 0 /\ x.tweak = y.tweak
Tweak(v) == IF v.tweak = NaN THEN 0 ELSE v.tweak
LessV1(x, y) == FirstNonZero(<<Triples(x, y), Sign(Tweak(x) - Tweak(y))>>) < 0
EqV1Fallback(x, fv) == CompareWithOtherVersion(fv, x.str) = 0
LessV1Fallback(x, fv) == CompareWithOtherVersion(fv, x.str) > 0
EqV2(x, y) == SemverCompare(x, y) = 0
LessV2(x, y) == SemverCompare(x, y) = -1
EqV2V1(y, x) == EqV1V2(x, y)
LessV2V1(y, x) == ~EqV1V2(x, y) /\ ~LessV1V2(x, y)
EqV2Fallback(x, fv) == CompareWithOtherVersion(fv, x.str) = 0
LessV2Fallback(x, fv) == CompareWithOtherVersion(fv, x.str) > 0
EqFallback(x, y) == x.list = y.list
LessFallback(x, y) == FallbackCompare(x.list, y.list) < 0
LessFallbackV1(fv, x) == ~EqV1Fallback(x, fv) /\ ~LessV1Fallback(x, fv)
LessFallbackV2(fv, x) == ~EqV2Fallback(x, fv) /\ ~LessV2Fallback(x, fv)

Eq(x, y) ==
    CASE x.kind = "v1" -> (CASE y.kind = "v1" -> EqV1(x, y) [] y.kind = "v2" -> EqV1V2(x, y)
                             [] OTHER -> EqV1Fallback(x, y))
      [] x.kind = "v2" -> (CASE y.kind = "v1" -> EqV2V1(x, y) [] y.kind = "v2" -> EqV2(x, y)
                             [] OTHER -> EqV2Fallback(x, y))
      [] OTHER -> (CASE y.kind = "v1" -> EqV1Fallback(y, x) [] y.kind = "v2" -> EqV2Fallback(y, x)
                     [] OTHER -> EqFallback(x, y))
Less(x, y) ==
    CASE x.kind = "v1" -> (CASE y.kind = "v1" -> LessV1(x, y) [] y.kind = "v2" -> LessV1V2(x, y)
                             [] OTHER -> LessV1Fallback(x, y))
      [] x.kind = "v2" -> (CASE y.kind = "v1" -> LessV2V1(x, y) [] y.kind = "v2" -> LessV2(x, y)
                             [] OTHER -> LessV2Fallback(x, y))
      [] OTHER -> (CASE y.kind = "v1" -> LessFallbackV1(x, y) [] y.kind = "v2" -> LessFallbackV2(x, y)
                     [] OTHER -> LessFallback(x, y))
Greater(x, y) == ~Eq(x, y) /\ ~Less(x, y)

(***************************************************************************)
(* semanticMatch(): the version v is one of those the text raw stands for  *)
(***************************************************************************)
SemanticMatchV1(v, raw) ==
    LET f == ParseV1(raw)
    IN  f # Bad /\ f.n = v.n /\ (f.tweak # NaN /\ v.tweak # NaN => f.tweak = v.tweak)
SemanticMatchV2(v, raw) ==
    LET f == SemverParse(raw, FALSE)
    IN  f # Bad /\ f.n[1] = v.n[1] /\ f.n[2] = v.n[2] /\ (f.hasPatch => f.n[3] = v.n[3])
SemanticMatchFallback(v, raw) == Words(raw) # <<>> /\ IsPrefix(Words(raw), v.list)
SemanticMatch(v, raw) ==
    CASE v.kind = "v1" -> SemanticMatchV1(v, raw)
      [] v.kind = "v2" -> SemanticMatchV2(v, raw)
      [] OTHER -> SemanticMatchFallback(v, raw)

(***************************************************************************)
(* References                                                              *)
(***************************************************************************)
ArchitectureParse(a) == IF a \in Architectures THEN a ELSE None

\* FuzzyReference::parse(): what is empty or "unknown" is left open.
FuzzyParse(t) ==
    LET open(x, d) == IF x \in {"", "unknown"} THEN d ELSE x
        arch == open(t.arch, None)
    IN  IF arch # None /\ ArchitectureParse(arch) = None THEN Bad
        ELSE [kind |-> "fuzzy", channel |-> open(t.channel, None),
              version |-> IF t.version = <<"unknown">> THEN <<>> ELSE t.version,
              arch |-> arch]

\* Reference::create() and fromPackageInfo(): V1 needs a tweak, which parse() ensures.
Create(channel, version, arch) ==
    IF channel = "" THEN Bad ELSE [kind |-> "ref", channel |-> channel, version |-> version, arch |-> arch]
FromPackageInfo(info) ==
    IF \/ info.version = Bad
       \/ info.version.kind = "v1" /\ info.version.tweak = NaN
       \/ ArchitectureParse(info.arch) = None
    THEN Bad ELSE Create(info.channel, info.version, info.arch)

\* Reference::toString() and parse(), which the D-Bus methods and states.json go through.
ReferenceToString(ref) == [channel |-> ref.channel, version |-> VersionText(ref.version), arch |-> ref.arch]
ReferenceParse(t) ==
    IF t.channel = "" \/ t.version = <<>> \/ Parse(t.version) = Bad \/ ArchitectureParse(t.arch) = None
    THEN Bad ELSE Create(t.channel, Parse(t.version), t.arch)

\* matchReference(): a record of a remote as a reference, if it is what is asked for.
MatchReference(record, fuzzy, module) ==
    IF \/ fuzzy.channel # None /\ fuzzy.channel # record.channel
       \/ record.version = Bad
       \/ record.module # module /\ ~(module = "binary" /\ record.module = "runtime")
       \/ ArchitectureParse(record.arch) = None
    THEN Bad
    ELSE Create(record.channel, record.version, record.arch)

FilterByFuzzyVersion(rs, raw) ==
    SelectSeq(rs, LAMBDA r : r.version # Bad /\ SemanticMatch(r.version, raw))

(***************************************************************************)
(* Looking for a layer                                                     *)
(***************************************************************************)
VARIABLES layers,   \* the layers of one package in the cache
          list,     \* the same as queryLayerItem() lists them
          records,  \* what a remote lists of the package
          fuzzy,    \* the parsed reference that is looked for, or Bad
          opts,     \* subset of {"semantic", "remote", "fallback"}: the options of clearReference()
          pc,       \* "query", "ask", "local", "remote", "found", "failed", "told"
          found,    \* the reference found
          hit       \* the layer it was found for, if any

vars == <<layers, list, records, fuzzy, opts, pc, found, hit>>

Parsed(r) == r @@ [version |-> Parse(r.text)]
Init ==
    /\ layers \in {{Parsed(l) : l \in S} : S \in Installed}
    /\ records \in {[j \in DOMAIN rs |-> Parsed(rs[j])] : rs \in Offered}
    /\ list = <<>> /\ fuzzy = Bad /\ opts = {} /\ pc = "query" /\ found = Bad /\ hit = {}

\* What std::sort asks of its comparator; if it gets less, the result is undefined.
StrictWeakOrder(S) ==
    LET gt == {p \in S \X S : Greater(p[1], p[2])}
    IN  \A x, y, z \in S :
            /\ ~(<<x, y>> \in gt /\ <<y, x>> \in gt)
            /\ <<x, y>> \in gt /\ <<y, z>> \in gt => <<x, z>> \in gt
            /\ <<x, y>> \notin gt /\ <<y, z>> \notin gt => <<x, z>> \notin gt

\* queryLayerItem(): the layers, the newest first.
Sorted(S) ==
    IF StrictWeakOrder({l.version : l \in S})
    THEN {q \in SetToSeqs(S) :
            \A j \in 2..Len(q) : ~Greater(q[j].version, q[j - 1].version)}
    ELSE SetToSeqs(S)
QueryLayerItem ==
    /\ pc = "query" /\ pc' = "ask"
    /\ list' \in Sorted(layers)
    /\ UNCHANGED <<layers, records, fuzzy, opts, found, hit>>

\* clearReference() is called; what its options leave out of account is empty.
ClearReference ==
    /\ pc = "ask"
    /\ fuzzy' \in {FuzzyParse(t) : t \in Asked}
    /\ opts' \in SUBSET {"semantic", "remote", "fallback"}
    /\ "remote" \in opts' => layers = {}
    /\ opts' \cap {"remote", "fallback"} = {} => records = <<>>
    /\ pc' = IF fuzzy' = Bad THEN "failed" ELSE IF "remote" \in opts' THEN "remote" ELSE "local"
    /\ UNCHANGED <<layers, list, records, found, hit>>

\* A local layer is what is looked for.
Wanted(l) ==
    \/ fuzzy.version = <<>>
    \/ LET want == Parse(fuzzy.version)
       IN  \/ "semantic" \in opts /\ SemanticMatch(l.version, VersionText(want))
           \/ Eq(l.version, want)
Answers(l) == ~l.deleted /\ Wanted(l)

\* clearReferenceLocal(): the first of the layers in order that is not hidden and matches.
LocalFails ==
    ~ /\ fuzzy.arch \in {None, Host}
      /\ fuzzy.version # <<>> => Parse(fuzzy.version) # Bad
      /\ \E l \in layers : Answers(l)
FirstAnswer == SelectSeq(list, Answers)[1]
ClearReferenceLocal ==
    /\ pc = "local"
    /\ IF LocalFails
       THEN /\ pc' = IF "fallback" \in opts THEN "remote" ELSE "failed"
            /\ UNCHANGED <<found, hit>>
       ELSE /\ hit' = {FirstAnswer}
            /\ found' = FromPackageInfo([version |-> FirstAnswer.version, channel |-> "main", arch |-> Host])
            /\ pc' = "found"
    /\ UNCHANGED <<layers, list, records, fuzzy, opts>>

\* clearReference() on the records of a remote: the newest that matches, or the equal one.
RemoteReference ==
    LET rs == IF fuzzy.version = <<>> THEN records ELSE FilterByFuzzyVersion(records, fuzzy.version)
        refs == SelectSeq([j \in DOMAIN rs |-> MatchReference(rs[j], fuzzy, "binary")],
                          LAMBDA r : r # Bad)
        newest == FoldLeft(LAMBDA ref, r : IF ref = Bad THEN r
                                           ELSE IF Greater(r.version, ref.version) THEN r ELSE ref,
                           Bad, refs)
        equal == SelectSeq(refs, LAMBDA r : Eq(r.version, Parse(fuzzy.version)))
    IN  IF fuzzy.version = <<>> \/ "semantic" \in opts THEN newest
        ELSE IF equal = <<>> THEN Bad ELSE equal[1]

ClearReferenceRemote ==
    /\ pc = "remote"
    /\ \/ pc' = "failed" /\ UNCHANGED found          \* the list could not be fetched
       \/ /\ ~ (fuzzy.version # <<>> /\ Parse(fuzzy.version) = Bad)
          /\ found' = RemoteReference
          /\ pc' = IF found' = Bad THEN "failed" ELSE "found"
    /\ UNCHANGED <<layers, list, records, fuzzy, opts, hit>>

\* The reference is sent to another process, or written to a file, as text.
Tell ==
    /\ pc = "found" /\ pc' = "told"
    /\ found' = ReferenceParse(ReferenceToString(found))
    /\ UNCHANGED <<layers, list, records, fuzzy, opts, hit>>

Next == QueryLayerItem \/ ClearReference \/ ClearReferenceLocal \/ ClearReferenceRemote \/ Tell
-----------------------------------------------------------------------------
\* Versions whose words cannot be compared in a circle: none is a fallback version, or all
\* consist of numbers (see FallbackCompare; 1.9 < 1.10 < 1.1a < 1.9).
Comparable(rs) ==
    \/ \A r \in rs : r.version.kind # "fallback"
    \/ \A r \in rs : \A w \in ToSet(r.text) : Canonical(w) /\ ToIntOk(w)

\* clearReference() finds the newest layer or record that answers the question, whatever
\* kinds of versions lie side by side, as long as their words can be compared: for them the
\* comparator never leaves std::sort undefined.  And the reference still names the layer it
\* was found for when it has been written down and read again: the version has kept its
\* text, except that a fallback version drops empty words.
NewestFound ==
    pc \in {"found", "told"} =>
        /\ found # Bad
        /\ \A h \in hit :
              /\ Answers(h)
              /\ Comparable(layers) => \A l \in layers : Answers(l) => ~Greater(l.version, h.version)
              /\ "" \notin ToSet(h.text) => VersionText(found.version) = h.text
        /\ hit = {} /\ "semantic" \in opts /\ Comparable(ToSet(records)) =>
              \A j \in DOMAIN records :
                  LET ref == MatchReference(records[j], fuzzy, "binary")
                  IN  /\ ref # Bad
                      /\ fuzzy.version # <<>> => SemanticMatch(ref.version, fuzzy.version)
                      => ~Greater(ref.version, found.version)
=============================================================================
