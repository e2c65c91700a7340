-------------------------- MODULE ReplacementProofs --------------------------
(* Proofs about the update.  Whatever the release service answers, the        *)
(* release that is chosen, the downloads that are accepted and the version    *)
(* that is installed are the right ones (github.go, archive.go).  No          *)
(* executable is lost, and a helper that ran alone says what it did, for any  *)
(* list of executables and any number of helpers (install.go).                *)
EXTENDS ReleaseFeed, Replacement, WellFoundedInduction, TLAPS

-----------------------------------------------------------------------------
(* Loops over a slice.                                                        *)

\* A loop of n turns over values of X, and what its variable holds after each.
Loop(X, base, n, step) == base \in X /\ n \in Nat /\ step \in [1..n -> [X -> X]]
Run(f, X, base, n, step) ==
    f \in [0..n -> X] /\ f[0] = base /\ \A i \in 1..n : f[i] = step[i][f[i - 1]]

\* Every loop has a run: the shortest one without would have a run that is
\* shorter by one turn.
LEMMA LoopRuns ==
    ASSUME NEW X, NEW base, NEW n, NEW step, Loop(X, base, n, step)
    PROVE  \E f : Run(f, X, base, n, step)
  <1> DEFINE NoRun == {m \in 0..n : ~ \E f : Run(f, X, base, m, step)}
  <1> USE DEF Loop, Run
  <1>1. CASE NoRun = {}
    <2>1. n \in 0..n
      OBVIOUS
    <2>2. PICK f : Run(f, X, base, n, step)
      BY Zenon, <1>1, <2>1
    <2> QED
      BY Zenon, <2>2
  <1>2. CASE NoRun # {}
    <2>1. NoRun \subseteq Nat
      OBVIOUS
    <2>2. PICK m \in NoRun : \A k \in NoRun : ~ (<<k, m>> \in OpToRel(<, Nat))
      BY Zenon, <1>2, <2>1, WFMin, NatLessThanWellFounded
    <2>3. \A k \in NoRun : ~ (k < m)
      BY Zenon, <2>1, <2>2 DEF OpToRel
    <2>4. CASE m = 0
      <3>1. Run([i \in 0..0 |-> base], X, base, 0, step)
        OBVIOUS
      <3> QED
        BY Zenon, <2>4, <3>1
    <2>5. CASE m # 0
      <3>1. m - 1 \in 0..n /\ m \in 1..n /\ m - 1 < m /\ m \in Nat
        BY <2>5
      <3>2. PICK f : Run(f, X, base, m - 1, step)
        BY Zenon, <2>3, <3>1
      <3> DEFINE g == [i \in 0..m |-> IF i = m THEN step[m][f[m - 1]] ELSE f[i]]
      <3>3. f[m - 1] \in X
        BY <3>1, <3>2
      <3>4. step[m][f[m - 1]] \in X
        BY <3>1, <3>3
      <3>5. g \in [0..m -> X]
        BY <3>1, <3>2, <3>4
      <3>6. g[0] = base
        BY <3>1, <3>2
      <3>7. \A i \in 1..m : g[i] = step[i][g[i - 1]]
        BY <3>1, <3>2
      <3> QED
        BY Zenon, <3>5, <3>6, <3>7
    <2> QED
      BY Zenon, <2>4, <2>5
  <1> QED
    BY Zenon, <1>1, <1>2

\* What holds of the loop before its first turn, and after a turn if it did
\* before, holds after all.
LEMMA Along ==
    ASSUME NEW n \in Nat, NEW S, 0 \in S, \A i \in 1..n : i - 1 \in S => i \in S
    PROVE  n \in S
  <1> DEFINE Out == {m \in 0..n : m \notin S}
  <1>1. SUFFICES ASSUME Out # {} PROVE FALSE
    OBVIOUS
  <1>2. Out \subseteq Nat
    OBVIOUS
  <1>3. PICK m \in Out : \A k \in Out : ~ (<<k, m>> \in OpToRel(<, Nat))
    <2> HIDE DEF Out
    <2> QED
      BY Zenon, <1>1, <1>2, WFMin, NatLessThanWellFounded
  <1>4. \A k \in Out : ~ (k < m)
    BY Zenon, <1>2, <1>3 DEF OpToRel
  <1>7. m \in 0..n /\ m # 0 /\ m \notin S
    BY Zenon, <1>3
  <1>5. m \in 1..n
    BY <1>7
  <1>8. m - 1 \in 0..n /\ m - 1 < m
    BY <1>5
  <1>6. m - 1 \in S
    BY Zenon, <1>4, <1>8
  <1> QED
    BY Zenon, <1>5, <1>6, <1>7

-----------------------------------------------------------------------------
(* The choice and the download of a release.                                  *)

\* The version r is the one asked for, and newer than the one installed.
Chosen(r, version) ==
    /\ Published(r)
    /\ parseStableVersion(r.tag) # Bad
    /\ canonicalVersion(r.tag) = canonicalVersion(version)
    /\ overtaken \/ compareStableVersions(installed, version) = -1

\* The helper's locals: the fields of a record.
Locals(h) ==
    \E stage, version, selected, digest :
        h \in [stage : {stage}, version : {version}, selected : {selected}, digest : {digest}]

\* The helper works for the offer the client still holds, and what it has
\* selected is that version, newer than the one installed unless another helper
\* has installed since.
FeedInv ==
    /\ Locals(helper)
    /\ helper.stage # "none" => helper.version = info.latest /\ parseStableVersion(info.latest) # Bad
    /\ helper.stage \in {"selected", "summed"} => Chosen(helper.selected, helper.version)

\* A comparison that yields a number had two stable versions.
LEMMA ComparedIsStable ==
    ASSUME NEW left, NEW right, compareStableVersions(left, right) = -1
    PROVE  parseStableVersion(left) # Bad /\ parseStableVersion(right) # Bad
  BY FeedAssumption DEF compareStableVersions

\* canonicalVersion keeps the version: its result parses to the same parts.
LEMMA CanonicalKeeps ==
    ASSUME NEW tag, parseStableVersion(tag) # Bad
    PROVE  /\ canonicalVersion(tag) = [v |-> TRUE, parts |-> parseStableVersion(tag)]
           /\ canonicalVersion(tag).parts = parseStableVersion(tag)
           /\ parseStableVersion(canonicalVersion(tag)) = parseStableVersion(tag)
  <1>1. canonicalVersion(tag) = [v |-> TRUE, parts |-> parseStableVersion(tag)]
    BY DEF canonicalVersion
  <1>2. /\ parseStableVersion(tag) = tag.parts
        /\ Len(tag.parts) = 3 /\ \A i \in 1..3 : tag.parts[i] # Bad
    BY DEF parseStableVersion
  <1>3. canonicalVersion(tag).parts = tag.parts
    BY <1>1, <1>2
  <1>4. parseStableVersion(canonicalVersion(tag)) = tag.parts
    BY <1>2, <1>3 DEF parseStableVersion
  <1> QED
    BY <1>1, <1>2, <1>3, <1>4

\* So versions of one canonical form compare alike.
LEMMA ComparesAlike ==
    ASSUME NEW old, NEW tag, NEW version, parseStableVersion(tag) # Bad, parseStableVersion(version) # Bad,
           canonicalVersion(tag) = canonicalVersion(version)
    PROVE  compareStableVersions(old, canonicalVersion(tag)) = compareStableVersions(old, version)
  <1>1. parseStableVersion(canonicalVersion(tag)) = parseStableVersion(version)
    BY CanonicalKeeps
  <1> QED
    BY <1>1 DEF compareStableVersions

\* findStableRelease returns a published release of the version, or nothing.
LEMMA FoundIsRight ==
    ASSUME NEW feed \in Feeds, NEW version, findStableRelease(feed, version) # Bad
    PROVE  LET r == findStableRelease(feed, version) IN
           /\ Published(r) /\ parseStableVersion(r.tag) # Bad
           /\ canonicalVersion(r.tag) = canonicalVersion(version)
  <1> DEFINE S == {i \in DOMAIN feed : /\ Published(feed[i])
                                       /\ canonicalVersion(feed[i].tag) = canonicalVersion(version)
                                       /\ parseStableVersion(feed[i].tag) # Bad}
             least == CHOOSE i \in S : \A j \in S : i <= j
  <1>1. S # {} /\ findStableRelease(feed, version) = feed[least]
    BY Zenon DEF findStableRelease
  <1>2. feed \in Seq(Range(feed))
    BY Zenon, FeedAssumption
  <1>3. DOMAIN feed \subseteq Nat
    BY <1>2
  <1>4. S \subseteq Nat
    BY Zenon, <1>3
  <1>5. least \in S
    <2> HIDE DEF S
    <2>1. \E x \in S : \A y \in S : ~ (<<y, x>> \in OpToRel(<, Nat))
      BY Zenon, <1>1, <1>4, WFMin, NatLessThanWellFounded
    <2>2. PICK x \in S : \A y \in S : ~ (<<y, x>> \in OpToRel(<, Nat))
      BY Zenon, <2>1
    <2>3. \A y \in S : ~ (y < x)
      BY Zenon, <1>4, <2>2 DEF OpToRel
    <2>4. \A y \in S : x <= y
      BY <1>4, <2>3
    <2> QED
      BY Zenon, <2>4
  <1> QED
    BY Zenon, <1>1, <1>5

\* Before the helper starts it has nothing.
LEMMA NoLocals == Locals(NoHelper) /\ NoHelper.stage = "none"
  <1>1. NoHelper \in [stage : {"none"}, version : {Bad}, selected : {Bad}, digest : {""}]
    BY Zenon DEF NoHelper
  <1> QED
    BY Zenon, <1>1 DEF Locals

\* A helper that has ended leaves nothing to keep.
LEMMA EndedFits == helper' = NoHelper => FeedInv'
  BY Zenon, NoLocals DEF FeedInv

\* While no helper runs, the client may take what offer it likes.
LEMMA OfferFits ==
    ASSUME FeedInv, helper.stage = "none", UNCHANGED helper
    PROVE  FeedInv'
  BY Zenon DEF FeedInv

\* The helper is started with the version on offer.
LEMMA ApplyFits == FeedInv /\ Apply => FeedInv'
  <1> SUFFICES ASSUME FeedInv, Apply PROVE FeedInv'
    OBVIOUS
  <1>1. /\ compareStableVersions(info.current, info.latest) = -1
        /\ helper' = [NoHelper EXCEPT !.stage = "started", !.version = info.latest]
        /\ info' = info
    BY Zenon DEF Apply
  <1>2. parseStableVersion(info.latest) # Bad
    BY Zenon, <1>1, ComparedIsStable
  <1>3. Locals(helper') /\ helper'.stage = "started" /\ helper'.version = info.latest
    <2>1. helper' \in [stage : {"started"}, version : {info.latest}, selected : {Bad}, digest : {""}]
      BY Zenon, <1>1 DEF NoHelper
    <2> QED
      BY Zenon, <2>1 DEF Locals
  <1> QED
    BY Zenon, <1>1, <1>2, <1>3 DEF FeedInv

\* The helper compares with its own version and selects that very version.
LEMMA SelectFits == FeedInv /\ HelperSelects => FeedInv'
  <1> SUFFICES ASSUME FeedInv, HelperSelects PROVE FeedInv'
    OBVIOUS
  <1>1. helper.stage = "started" /\ compareStableVersions(installed, helper.version) = -1
    BY Zenon DEF HelperSelects
  <1>2. PICK feed \in Feeds :
          \/ helper' = NoHelper
          \/ /\ findStableRelease(feed, helper.version) # Bad
             /\ helper' = [helper EXCEPT !.stage = "selected",
                                         !.selected = findStableRelease(feed, helper.version)]
             /\ UNCHANGED <<running, installed, info, overtaken>>
    BY Zenon DEF HelperSelects, Refuse
  <1>3. CASE helper' = NoHelper
    BY Zenon, <1>3, EndedFits
  <1>4. CASE helper' # NoHelper
    <2>1. PICK r : r = findStableRelease(feed, helper.version)
      OBVIOUS
    <2>2. /\ helper' = [helper EXCEPT !.stage = "selected", !.selected = r]
          /\ r # Bad /\ installed' = installed /\ info' = info
      BY Zenon, <1>2, <1>4, <2>1
    <2>3. /\ Locals(helper') /\ helper'.stage = "selected"
          /\ helper'.version = helper.version /\ helper'.selected = r
      <3>1. PICK a, b, c, d : helper \in [stage : {a}, version : {b}, selected : {c}, digest : {d}]
        BY Zenon DEF FeedInv, Locals
      <3>2. helper' \in [stage : {"selected"}, version : {b}, selected : {r}, digest : {d}]
        BY Zenon, <2>2, <3>1
      <3> QED
        BY Zenon, <3>1, <3>2 DEF Locals
    <2>4. /\ Published(r) /\ parseStableVersion(r.tag) # Bad
          /\ canonicalVersion(r.tag) = canonicalVersion(helper.version)
      BY Zenon, <2>1, <2>2, FoundIsRight
    <2>5. Chosen(helper.selected, helper.version)'
      BY Zenon, <1>1, <2>2, <2>3, <2>4 DEF Chosen
    <2> QED
      BY Zenon, <1>1, <2>2, <2>3, <2>5 DEF FeedInv
  <1> QED
    BY Zenon, <1>3, <1>4

\* The helper reads the digest of what it has selected.
LEMMA SumFits == FeedInv /\ HelperReadsChecksums => FeedInv'
  <1> SUFFICES ASSUME FeedInv, HelperReadsChecksums PROVE FeedInv'
    OBVIOUS
  <1>1. helper.stage = "selected"
    BY Zenon DEF HelperReadsChecksums
  <1>2. \/ helper' = NoHelper
        \/ \E digest : /\ helper' = [helper EXCEPT !.stage = "summed", !.digest = digest]
                        /\ UNCHANGED <<running, installed, info, overtaken>>
    BY Zenon DEF HelperReadsChecksums, Refuse
  <1>3. CASE helper' = NoHelper
    BY Zenon, <1>3, EndedFits
  <1>4. CASE helper' # NoHelper
    <2>1. PICK digest : /\ helper' = [helper EXCEPT !.stage = "summed", !.digest = digest]
                        /\ UNCHANGED <<running, installed, info, overtaken>>
      BY Zenon, <1>2, <1>4
    <2>2. /\ Locals(helper') /\ helper'.stage = "summed"
          /\ helper'.version = helper.version /\ helper'.selected = helper.selected
      <3>1. PICK a, b, c, d : helper \in [stage : {a}, version : {b}, selected : {c}, digest : {d}]
        BY Zenon DEF FeedInv, Locals
      <3>2. helper' \in [stage : {"summed"}, version : {b}, selected : {c}, digest : {digest}]
        BY Zenon, <2>1, <3>1
      <3> QED
        BY Zenon, <3>1, <3>2 DEF Locals
    <2>3. Chosen(helper.selected, helper.version)'
      BY Zenon, <1>1, <2>1, <2>2 DEF FeedInv, Chosen
    <2> QED
      BY Zenon, <1>1, <2>1, <2>2, <2>3 DEF FeedInv
  <1> QED
    BY Zenon, <1>3, <1>4

\* What is installed is what was selected, or nothing is.
LEMMA InstallTells ==
    ASSUME FeedInv, HelperInstalls, installed' # installed
    PROVE  /\ overtaken \/ compareStableVersions(installed, installed') = -1
           /\ canonicalVersion(info.latest) = installed'
           /\ Published(helper.selected)
           /\ answer'.kind = "archive" /\ answer'.body.digest = helper.digest
  <1>1. helper.stage = "summed"
    BY Zenon DEF HelperInstalls
  <1>2. PICK a \in Archives :
          /\ answer' = [kind |-> "archive", body |-> a] /\ a.digest = helper.digest
          /\ installed' = canonicalVersion(helper.selected.tag)
    BY Zenon DEF HelperInstalls, Refuse
  <1>3. /\ helper.version = info.latest /\ parseStableVersion(info.latest) # Bad
        /\ Chosen(helper.selected, info.latest)
    BY Zenon, <1>1 DEF FeedInv
  <1>4. overtaken \/ compareStableVersions(installed, installed') = -1
    BY Zenon, <1>2, <1>3, ComparesAlike DEF Chosen
  <1>5. canonicalVersion(info.latest) = installed' /\ Published(helper.selected)
    BY Zenon, <1>2, <1>3 DEF Chosen
  <1>6. answer'.kind = "archive" /\ answer'.body.digest = helper.digest
    BY Zenon, <1>2
  <1> QED
    BY Zenon, <1>4, <1>5, <1>6

\* A helper that is overtaken knows nothing about what is installed now.
LEMMA OvertakenFits == FeedInv /\ OtherInstalls => FeedInv'
  <1> SUFFICES ASSUME FeedInv, OtherInstalls PROVE FeedInv'
    OBVIOUS
  <1>1. helper' = helper /\ info' = info /\ (helper.stage \in {"selected", "summed"} => overtaken')
    BY Zenon DEF OtherInstalls
  <1> QED
    BY Zenon, <1>1 DEF FeedInv, Chosen

\* Only helpers change what is installed, and this one only by HelperInstalls.
LEMMA OthersKeep ==
    ASSUME [FeedNext]_feedVars, ~HelperInstalls, ~OtherInstalls
    PROVE  installed' = installed
  BY Zenon DEF FeedNext, feedVars, Check, Apply, HelperSelects, HelperRefuses, HelperReadsChecksums,
               RequestFails, Restart, Refuse

\* Every step keeps the invariant.
LEMMA FeedStep == FeedInv /\ [FeedNext]_feedVars => FeedInv'
  <1> SUFFICES ASSUME FeedInv, [FeedNext]_feedVars PROVE FeedInv'
    OBVIOUS
  <1>1. CASE Check
    BY Zenon, <1>1, OfferFits DEF Check
  <1>2. CASE Apply
    BY Zenon, <1>2, ApplyFits
  <1>3. CASE HelperSelects
    BY Zenon, <1>3, SelectFits
  <1>4. CASE HelperRefuses
    BY Zenon, <1>4, EndedFits DEF HelperRefuses, Refuse
  <1>5. CASE HelperReadsChecksums
    BY Zenon, <1>5, SumFits
  <1>6. CASE HelperInstalls
    BY Zenon, <1>6, EndedFits DEF HelperInstalls, Refuse
  <1>7. CASE RequestFails
    BY Zenon, <1>7, OfferFits, EndedFits DEF RequestFails, Refuse
  <1>8. CASE OtherInstalls
    BY Zenon, <1>8, OvertakenFits
  <1>9. CASE Restart
    BY Zenon, <1>9, OfferFits DEF Restart
  <1>10. CASE UNCHANGED feedVars
    BY Zenon, <1>10 DEF feedVars, FeedInv, Chosen
  <1> QED
    BY Zenon, <1>1, <1>2, <1>3, <1>4, <1>5, <1>6, <1>7, <1>8, <1>9, <1>10 DEF FeedNext

\* Whatever the release service answers, and whichever client hands over an
\* offer, the helper installs only the version that was offered, of a published
\* release, from an archive with the stated digest, and, unless another helper
\* has installed since it compared, never an older version than the installed
\* one (Apply, applyPrivilegedValidated, downloadRelease).
THEOREM InstallsWhatWasOffered == FeedSpec => InstalledAsOffered
  <1>1. FeedInit => FeedInv
    BY Zenon, NoLocals DEF FeedInit, FeedInv
  <1>2. FeedInv /\ [FeedNext]_feedVars => FeedInv'
    BY Zenon, FeedStep
  <1>3. FeedInv /\ [FeedNext]_feedVars =>
          [installed' # installed /\ helper' # helper =>
            /\ overtaken \/ compareStableVersions(installed, installed') = -1
            /\ canonicalVersion(info.latest) = installed'
            /\ Published(helper.selected)
            /\ answer'.kind = "archive" /\ answer'.body.digest = helper.digest]_feedVars
    <2>1. OtherInstalls => helper' = helper
      BY Zenon DEF OtherInstalls
    <2> QED
      BY Zenon, <2>1, InstallTells, OthersKeep
  <1> QED
    BY <1>1, <1>2, <1>3, PTL DEF FeedSpec, InstalledAsOffered

\* A release that may be offered, and its version in numbers.
Candidate(f, i) == Published(f[i]) /\ parseStableVersion(f[i].tag) # Bad
Numbers(p) == p[1] \in Nat /\ p[2] \in Nat /\ p[3] \in Nat

\* An element of a sequence.
LEMMA Elements == ASSUME NEW T, NEW p \in Seq(T), NEW k \in 1..Len(p) PROVE p[k] \in T
  OBVIOUS

\* A stable version has three numbers.
LEMMA StableParts ==
    ASSUME NEW f \in Feeds, NEW i \in DOMAIN f, parseStableVersion(f[i].tag) # Bad
    PROVE  parseStableVersion(f[i].tag) = f[i].tag.parts /\ Numbers(f[i].tag.parts)
  <1>1. f[i].tag.parts \in Seq(Nat \cup {Bad})
    BY Zenon, FeedAssumption DEF Range
  <1>2. /\ parseStableVersion(f[i].tag) = f[i].tag.parts
        /\ Len(f[i].tag.parts) = 3 /\ \A k \in 1..3 : f[i].tag.parts[k] # Bad
    BY Zenon DEF parseStableVersion
  <1>3. \A k \in 1..3 : f[i].tag.parts[k] \in Nat
    <2>1. \A k \in 1..3 : f[i].tag.parts[k] \in Nat \cup {Bad}
      BY Zenon, <1>1, <1>2, Elements
    <2> QED
      BY Zenon, <1>2, <2>1
  <1>4. 1 \in 1..3 /\ 2 \in 1..3 /\ 3 \in 1..3
    OBVIOUS
  <1> QED
    BY Zenon, <1>2, <1>3, <1>4 DEF Numbers

\* AtMost orders versions.
LEMMA AtMostTotal ==
    ASSUME NEW p, NEW q, Numbers(p), Numbers(q)
    PROVE  /\ AtMost(p, p)
           /\ AtMost(p, q) \/ AtMost(q, p)
           /\ AtMost(p, q) /\ AtMost(q, p) => p[1] = q[1] /\ p[2] = q[2] /\ p[3] = q[3]
  BY DEF AtMost, Numbers

\* The order is transitive.
LEMMA AtMostFollows ==
    ASSUME NEW p, NEW q, NEW r, Numbers(p), Numbers(q), Numbers(r), AtMost(p, q), AtMost(q, r)
    PROVE  AtMost(p, r)
  BY DEF AtMost, Numbers

\* compareStableVersions agrees with that order.
LEMMA ComparesByOrder ==
    ASSUME NEW l, NEW r, Numbers(l), Numbers(r)
    PROVE  CompareVersions(l, r) > 0 <=> ~AtMost(l, r)
  <1> DEFINE D == {i \in 1..3 : l[i] # r[i]}
             first == CHOOSE i \in D : \A j \in D : i <= j
  <1>0. 1 \in 1..3 /\ 2 \in 1..3 /\ 3 \in 1..3 /\ \A i \in 1..3 : i \in {1, 2, 3}
    OBVIOUS
  <1>1. CompareVersions(l, r) = IF D = {} THEN 0 ELSE IF l[first] < r[first] THEN -1 ELSE 1
    BY Zenon DEF CompareVersions
  <1>2. ASSUME NEW i \in D, \A j \in D : i <= j PROVE first = i
    <2>1. \A j \in D : j \in Int
      OBVIOUS
    <2>2. first \in D /\ \A j \in D : first <= j
      <3> HIDE DEF D
      <3> QED
        BY Zenon, <1>2
    <2>3. first <= i /\ i <= first
      <3> HIDE DEF D, first
      <3> QED
        BY Zenon, <1>2, <2>2
    <2>4. first \in Int /\ i \in Int
      <3> HIDE DEF D, first
      <3> QED
        BY Zenon, <2>1, <2>2
    <2> HIDE DEF D, first
    <2> QED
      BY <2>3, <2>4
  <1>3. CASE l[1] # r[1]
    <2>1. 1 \in D /\ \A j \in D : 1 <= j
      BY <1>3
    <2>2. first = 1 /\ D # {}
      BY Zenon, <1>2, <2>1
    <2>3. CompareVersions(l, r) = IF l[1] < r[1] THEN -1 ELSE 1
      BY Zenon, <1>1, <2>2
    <2> QED
      BY <1>3, <2>3 DEF AtMost, Numbers
  <1>4. CASE l[1] = r[1] /\ l[2] # r[2]
    <2>1. 2 \in D /\ \A j \in D : 2 <= j
      BY <1>4
    <2>2. first = 2 /\ D # {}
      BY Zenon, <1>2, <2>1
    <2>3. CompareVersions(l, r) = IF l[2] < r[2] THEN -1 ELSE 1
      BY Zenon, <1>1, <2>2
    <2> QED
      BY <1>4, <2>3 DEF AtMost, Numbers
  <1>5. CASE l[1] = r[1] /\ l[2] = r[2] /\ l[3] # r[3]
    <2>1. 3 \in D /\ \A j \in D : 3 <= j
      BY <1>5
    <2>2. first = 3 /\ D # {}
      BY Zenon, <1>2, <2>1
    <2>3. CompareVersions(l, r) = IF l[3] < r[3] THEN -1 ELSE 1
      BY Zenon, <1>1, <2>2
    <2> QED
      BY <1>5, <2>3 DEF AtMost, Numbers
  <1>6. CASE l[1] = r[1] /\ l[2] = r[2] /\ l[3] = r[3]
    <2>1. D = {}
      BY <1>6
    <2>2. CompareVersions(l, r) = 0
      BY Zenon, <1>1, <2>1
    <2> QED
      BY <1>6, <2>2 DEF AtMost, Numbers
  <1> QED
    BY Zenon, <1>3, <1>4, <1>5, <1>6

\* The loop of latestStableRelease runs.
LEMMA LatestRuns ==
    ASSUME NEW f, NEW n \in Nat, Len(f) = n
    PROVE  \E g :
              /\ g[0] = Bad /\ \A i \in 1..n : g[i] = Latest(g[i - 1], f[i])
              /\ latestStableRelease(f) = g[n]
  <1> DEFINE X == {f[i] : i \in 1..n} \cup {Bad}
             step == [i \in 1..n |-> [v \in X |-> Latest(v, f[i])]]
             Turn(g, i) == IF i = 0 THEN Bad ELSE Latest(g[i - 1], f[i])
             h == CHOOSE g : g = [i \in 0..n |-> Turn(g, i)]
  <1>1. \A i \in 1..n, v \in X : Latest(v, f[i]) \in X
    BY Zenon DEF Latest
  <1>2. Loop(X, Bad, n, step)
    BY Zenon, <1>1 DEF Loop
  <1>3. PICK g : Run(g, X, Bad, n, step)
    <2> HIDE DEF X, step
    <2> QED
      BY Zenon, <1>2, LoopRuns
  <1>4. \A i \in 1..n : i - 1 \in 0..n /\ i \in 0..n /\ i # 0
    OBVIOUS
  <1>5. \A i \in 1..n : g[i] = Latest(g[i - 1], f[i])
    <2> HIDE DEF X
    <2> QED
      BY Zenon, <1>3, <1>4 DEF Run
  <1>6. \A i \in 0..n : g[i] = Turn(g, i)
    <2>1. \A i \in 0..n : i = 0 \/ i \in 1..n
      OBVIOUS
    <2>2. g[0] = Bad
      BY Zenon, <1>3 DEF Run
    <2> QED
      BY Zenon, <1>5, <2>1, <2>2
  <1>7. g = [i \in 0..n |-> Turn(g, i)]
    BY Zenon, <1>3, <1>6 DEF Run
  <1>8. h = [i \in 0..n |-> Turn(h, i)]
    BY Zenon, <1>7
  <1>9. latestStableRelease(f) = h[n]
    BY Zenon DEF latestStableRelease, FoldLeft
  <1>10. 0 \in 0..n
    OBVIOUS
  <1> HIDE DEF h
  <1>11. h[0] = Bad /\ \A i \in 1..n : h[i] = Latest(h[i - 1], f[i])
    BY Zenon, <1>4, <1>8, <1>10
  <1> QED
    BY Zenon, <1>9, <1>11

\* What the loop holds after k turns: the first of the greatest versions.
LatestOf(c, f, k) ==
    \/ c = Bad /\ \A i \in 1..k : ~Candidate(f, i)
    \/ \E m \in 1..k :
         /\ c = f[m] /\ Candidate(f, m)
         /\ \A j \in 1..k : Candidate(f, j) =>
              /\ AtMost(f[j].tag.parts, f[m].tag.parts)
              /\ j < m => ~AtMost(f[m].tag.parts, f[j].tag.parts)

\* One turn of the loop.
LEMMA LatestKeeps ==
    ASSUME NEW f \in Feeds, NEW k \in 1..Len(f), NEW c, LatestOf(c, f, k - 1)
    PROVE  LatestOf(Latest(c, f[k]), f, k)
  <1>0. /\ k \in 1..k /\ DOMAIN f = 1..Len(f)
        /\ \A i \in 1..k : (i \in 1..(k - 1) \/ i = k) /\ i \in DOMAIN f
        /\ \A i \in 1..(k - 1) : i \in 1..k /\ i < k
    <2>1. f \in Seq(Range(f))
      BY Zenon, FeedAssumption
    <2> QED
      BY <2>1
  <1>1. \A i \in 1..k : Candidate(f, i) => Numbers(f[i].tag.parts) /\ parseStableVersion(f[i].tag) = f[i].tag.parts
    BY Zenon, <1>0, StableParts DEF Candidate
  <1>2. \A i \in 1..k : f[i] # Bad
    BY Zenon, <1>0, FeedAssumption DEF Range
  <1>3. ~(k < k) /\ \A i \in 1..(k - 1) : ~(k < i)
    OBVIOUS
  <1>4. CASE ~Candidate(f, k)
    <2>1. Latest(c, f[k]) = c
      BY Zenon, <1>4 DEF Latest, Candidate
    <2> QED
      BY Zenon, <1>0, <1>4, <2>1 DEF LatestOf
  <1>5. CASE Candidate(f, k) /\ c = Bad /\ \A i \in 1..(k - 1) : ~Candidate(f, i)
    <2>1. Latest(c, f[k]) = f[k]
      BY Zenon, <1>5 DEF Latest, Candidate
    <2>2. AtMost(f[k].tag.parts, f[k].tag.parts)
      BY Zenon, <1>0, <1>1, <1>5, AtMostTotal
    <2>3. \A j \in 1..k : Candidate(f, j) => j = k
      BY Zenon, <1>0, <1>5
    <2>4. \A j \in 1..k : Candidate(f, j) =>
            /\ AtMost(f[j].tag.parts, f[k].tag.parts)
            /\ j < k => ~AtMost(f[k].tag.parts, f[j].tag.parts)
      BY Zenon, <1>3, <2>2, <2>3
    <2> QED
      BY Zenon, <1>0, <1>5, <2>1, <2>4 DEF LatestOf
  <1>6. ASSUME Candidate(f, k), NEW m \in 1..(k - 1), c = f[m], Candidate(f, m),
               \A j \in 1..(k - 1) : Candidate(f, j) =>
                   /\ AtMost(f[j].tag.parts, f[m].tag.parts)
                   /\ j < m => ~AtMost(f[m].tag.parts, f[j].tag.parts)
        PROVE  LatestOf(Latest(c, f[k]), f, k)
    <2>0. m \in 1..k /\ Numbers(f[m].tag.parts) /\ Numbers(f[k].tag.parts)
      BY Zenon, <1>0, <1>1, <1>6
    <2>1. Latest(c, f[k]) = IF ~AtMost(f[k].tag.parts, f[m].tag.parts) THEN f[k] ELSE f[m]
      <3>1. compareStableVersions(f[k].tag, f[m].tag) = CompareVersions(f[k].tag.parts, f[m].tag.parts)
        BY Zenon, <1>0, <1>1, <1>6, <2>0 DEF compareStableVersions, Candidate
      <3>2. compareStableVersions(f[k].tag, f[m].tag) > 0 <=> ~AtMost(f[k].tag.parts, f[m].tag.parts)
        BY Zenon, <2>0, <3>1, ComparesByOrder
      <3> QED
        BY Zenon, <1>2, <1>6, <2>0, <3>2 DEF Latest, Candidate
    <2>2. CASE AtMost(f[k].tag.parts, f[m].tag.parts)
      <3>1. \A j \in 1..k : Candidate(f, j) =>
              /\ AtMost(f[j].tag.parts, f[m].tag.parts)
              /\ j < m => ~AtMost(f[m].tag.parts, f[j].tag.parts)
        BY Zenon, <1>0, <1>3, <1>6, <2>2
      <3> QED
        BY Zenon, <1>6, <2>0, <2>1, <2>2, <3>1 DEF LatestOf
    <2>3. CASE ~AtMost(f[k].tag.parts, f[m].tag.parts)
      <3>1. ASSUME NEW j \in 1..k, Candidate(f, j)
            PROVE  /\ AtMost(f[j].tag.parts, f[k].tag.parts)
                   /\ j < k => ~AtMost(f[k].tag.parts, f[j].tag.parts)
        <4>1. CASE j = k
          BY Zenon, <1>3, <2>0, <4>1, AtMostTotal
        <4>2. CASE j \in 1..(k - 1)
          <5>1. Numbers(f[j].tag.parts) /\ AtMost(f[j].tag.parts, f[m].tag.parts)
            BY Zenon, <1>1, <1>6, <3>1, <4>2
          <5>2. AtMost(f[m].tag.parts, f[k].tag.parts)
            BY Zenon, <2>0, <2>3, AtMostTotal
          <5>3. AtMost(f[j].tag.parts, f[k].tag.parts)
            BY Zenon, <2>0, <5>1, <5>2, AtMostFollows
          <5>4. ~AtMost(f[k].tag.parts, f[j].tag.parts)
            BY Zenon, <2>0, <2>3, <5>1, AtMostFollows
          <5> QED
            BY Zenon, <5>3, <5>4
        <4> QED
          BY Zenon, <1>0, <4>1, <4>2
      <3> QED
        BY Zenon, <1>0, <1>6, <2>1, <2>3, <3>1 DEF LatestOf
    <2> QED
      BY Zenon, <2>2, <2>3
  <1> QED
    BY Zenon, <1>4, <1>5, <1>6 DEF LatestOf

\* latestStableRelease returns the first of the greatest versions.
LEMMA LatestIsRight ==
    ASSUME NEW f \in Feeds
    PROVE  LatestOf(latestStableRelease(f), f, Len(f))
  <1> DEFINE n == Len(f)
  <1>0. n \in Nat
    <2>1. f \in Seq(Range(f))
      BY Zenon, FeedAssumption
    <2> QED
      BY <2>1
  <1>1. PICK g : /\ g[0] = Bad /\ \A i \in 1..n : g[i] = Latest(g[i - 1], f[i])
                 /\ latestStableRelease(f) = g[n]
    BY Zenon, <1>0, LatestRuns
  <1> DEFINE S == {k \in 0..n : LatestOf(g[k], f, k)}
  <1>2. 0 \in S
    <2>1. 0 \in 0..n /\ 1..0 = {}
      BY <1>0
    <2> QED
      BY Zenon, <1>1, <2>1 DEF LatestOf
  <1>3. ASSUME NEW k \in 1..n, k - 1 \in S PROVE k \in S
    <2>1. k \in 0..n
      BY <1>0
    <2>2. LatestOf(g[k - 1], f, k - 1)
      BY Zenon, <1>3
    <2>3. LatestOf(Latest(g[k - 1], f[k]), f, k)
      BY Zenon, <2>2, LatestKeeps
    <2> QED
      BY Zenon, <1>1, <2>1, <2>3
  <1>4. n \in S
    <2> HIDE DEF S, n
    <2> QED
      BY Zenon, <1>0, <1>2, <1>3, Along
  <1> QED
    BY Zenon, <1>1, <1>4

\* The least of a set of indices is the one that is chosen.
LEMMA LeastIs ==
    ASSUME NEW S, S \subseteq Nat, NEW m \in S, \A j \in S : m <= j
    PROVE  (CHOOSE i \in S : \A j \in S : i <= j) = m
  <1> DEFINE c == CHOOSE i \in S : \A j \in S : i <= j
  <1>1. c \in S /\ \A j \in S : c <= j
    BY Zenon
  <1> HIDE DEF c
  <1>2. c <= m /\ m <= c /\ c \in Nat /\ m \in Nat
    BY Zenon, <1>1
  <1>3. c = m
    BY <1>2
  <1> QED
    BY Zenon, <1>3 DEF c

\* The release that is chosen, by its place in the feed.
LEMMA LatestAt ==
    ASSUME NEW f \in Feeds
    PROVE  \/ latestStableRelease(f) = Bad /\ \A i \in DOMAIN f : ~Candidate(f, i)
           \/ \E m \in DOMAIN f :
                /\ latestStableRelease(f) = f[m] /\ Candidate(f, m)
                /\ \A j \in DOMAIN f : Candidate(f, j) =>
                     /\ AtMost(f[j].tag.parts, f[m].tag.parts)
                     /\ AtMost(f[m].tag.parts, f[j].tag.parts) => m <= j
  <1>1. DOMAIN f = 1..Len(f) /\ Len(f) \in Nat
    <2>1. f \in Seq(Range(f))
      BY Zenon, FeedAssumption
    <2> QED
      BY <2>1
  <1>2. CASE latestStableRelease(f) = Bad /\ \A i \in 1..Len(f) : ~Candidate(f, i)
    BY Zenon, <1>1, <1>2
  <1>3. ASSUME NEW m \in 1..Len(f), latestStableRelease(f) = f[m], Candidate(f, m),
               \A j \in 1..Len(f) : Candidate(f, j) =>
                   /\ AtMost(f[j].tag.parts, f[m].tag.parts)
                   /\ j < m => ~AtMost(f[m].tag.parts, f[j].tag.parts)
        PROVE  \E i \in DOMAIN f :
                 /\ latestStableRelease(f) = f[i] /\ Candidate(f, i)
                 /\ \A j \in DOMAIN f : Candidate(f, j) =>
                      /\ AtMost(f[j].tag.parts, f[i].tag.parts)
                      /\ AtMost(f[i].tag.parts, f[j].tag.parts) => i <= j
    <2>1. \A j \in 1..Len(f) : j < m \/ m <= j
      BY <1>1
    <2> QED
      BY Zenon, <1>1, <1>3, <2>1
  <1> QED
    BY Zenon, <1>2, <1>3, LatestIsRight DEF LatestOf

\* LatestIsGreatest of a feed.
LEMMA FeedGreatest ==
    ASSUME NEW f \in Feeds
    PROVE  LET S == {i \in DOMAIN f : Published(f[i]) /\ parseStableVersion(f[i].tag) # Bad}
               G == {i \in S : \A j \in S : AtMost(f[j].tag.parts, f[i].tag.parts)} IN
           latestStableRelease(f) = IF S = {} THEN Bad ELSE f[CHOOSE i \in G : \A j \in G : i <= j]
  <1> DEFINE S == {i \in DOMAIN f : Published(f[i]) /\ parseStableVersion(f[i].tag) # Bad}
             G == {i \in S : \A j \in S : AtMost(f[j].tag.parts, f[i].tag.parts)}
  <1>0. DOMAIN f \subseteq Nat
    <2>1. f \in Seq(Range(f))
      BY Zenon, FeedAssumption
    <2> QED
      BY <2>1
  <1>1. \A i : i \in S <=> i \in DOMAIN f /\ Candidate(f, i)
    BY Zenon DEF Candidate
  <1>2. \A i : i \in G <=> i \in S /\ \A j \in S : AtMost(f[j].tag.parts, f[i].tag.parts)
    BY Zenon
  <1> HIDE DEF S, G
  <1>3. ASSUME \A i \in DOMAIN f : ~Candidate(f, i) PROVE S = {}
    BY Zenon, <1>1, <1>3
  <1>4. ASSUME NEW m \in DOMAIN f, latestStableRelease(f) = f[m], Candidate(f, m),
               \A j \in DOMAIN f : Candidate(f, j) =>
                   /\ AtMost(f[j].tag.parts, f[m].tag.parts)
                   /\ AtMost(f[m].tag.parts, f[j].tag.parts) => m <= j
        PROVE  S # {} /\ latestStableRelease(f) = f[CHOOSE i \in G : \A j \in G : i <= j]
    <2>1. m \in S /\ m \in G
      BY Zenon, <1>1, <1>2, <1>4
    <2>2. \A j \in G : m <= j
      BY Zenon, <1>1, <1>2, <1>4, <2>1
    <2>3. G \subseteq Nat
      BY Zenon, <1>0, <1>1, <1>2
    <2>4. (CHOOSE i \in G : \A j \in G : i <= j) = m
      BY Zenon, <2>1, <2>2, <2>3, LeastIs
    <2> QED
      BY Zenon, <1>4, <2>1, <2>4
  <1>5. \/ S = {} /\ latestStableRelease(f) = Bad
        \/ S # {} /\ latestStableRelease(f) = f[CHOOSE i \in G : \A j \in G : i <= j]
    BY Zenon, <1>3, <1>4, LatestAt
  <1> QED
    BY Zenon, <1>5 DEF S, G

\* OfferedIsFound of a feed.
LEMMA FeedFound ==
    ASSUME NEW f \in Feeds, latestStableRelease(f) # Bad
    PROVE  findStableRelease(f, canonicalVersion(latestStableRelease(f).tag)) = latestStableRelease(f)
  <1>0. DOMAIN f \subseteq Nat
    <2>1. f \in Seq(Range(f))
      BY Zenon, FeedAssumption
    <2> QED
      BY <2>1
  <1>1. PICK m \in DOMAIN f :
          /\ latestStableRelease(f) = f[m] /\ Candidate(f, m)
          /\ \A j \in DOMAIN f : Candidate(f, j) =>
               /\ AtMost(f[j].tag.parts, f[m].tag.parts)
               /\ AtMost(f[m].tag.parts, f[j].tag.parts) => m <= j
    BY Zenon, LatestAt
  <1> DEFINE version == canonicalVersion(f[m].tag)
             S == {i \in DOMAIN f : /\ Published(f[i])
                                    /\ canonicalVersion(f[i].tag) = canonicalVersion(version)
                                    /\ parseStableVersion(f[i].tag) # Bad}
  <1>2. parseStableVersion(f[m].tag) # Bad
    BY Zenon, <1>1 DEF Candidate
  <1>3. parseStableVersion(version) = parseStableVersion(f[m].tag)
    BY Zenon, <1>2, CanonicalKeeps
  <1>4. canonicalVersion(version) = version
    BY Zenon, <1>2, <1>3, CanonicalKeeps
  <1>5. m \in S
    BY Zenon, <1>1, <1>4 DEF Candidate
  <1>6. ASSUME NEW j \in S PROVE m <= j
    <2>1. j \in DOMAIN f /\ Candidate(f, j) /\ parseStableVersion(f[j].tag) # Bad
      BY Zenon DEF Candidate
    <2>2. canonicalVersion(f[j].tag) = canonicalVersion(f[m].tag)
      BY Zenon, <1>4
    <2>3. /\ canonicalVersion(f[j].tag).parts = parseStableVersion(f[j].tag)
          /\ canonicalVersion(f[m].tag).parts = parseStableVersion(f[m].tag)
      BY Zenon, <1>2, <2>1, CanonicalKeeps
    <2>4. parseStableVersion(f[j].tag) = parseStableVersion(f[m].tag)
      BY Zenon, <2>2, <2>3
    <2>5. /\ parseStableVersion(f[j].tag) = f[j].tag.parts
          /\ parseStableVersion(f[m].tag) = f[m].tag.parts /\ Numbers(f[m].tag.parts)
      BY Zenon, <1>2, <2>1, StableParts
    <2>6. AtMost(f[m].tag.parts, f[j].tag.parts)
      <3>1. f[j].tag.parts = f[m].tag.parts
        BY Zenon, <2>4, <2>5
      <3>2. AtMost(f[m].tag.parts, f[m].tag.parts)
        BY Zenon, <2>5, AtMostTotal
      <3> QED
        BY Zenon, <3>1, <3>2
    <2> QED
      BY Zenon, <1>1, <2>1, <2>6
  <1>7. S \subseteq Nat /\ S # {}
    BY Zenon, <1>0, <1>5
  <1>8. findStableRelease(f, version) = f[CHOOSE i \in S : \A j \in S : i <= j]
    <2>1. findStableRelease(f, version) = IF S = {} THEN Bad ELSE f[CHOOSE i \in S : \A j \in S : i <= j]
      BY Zenon DEF findStableRelease
    <2> HIDE DEF S, version
    <2> QED
      BY Zenon, <1>7, <2>1
  <1>9. (CHOOSE i \in S : \A j \in S : i <= j) = m
    <2> HIDE DEF S
    <2> QED
      BY Zenon, <1>5, <1>6, <1>7, LeastIs
  <1> HIDE DEF S
  <1>10. findStableRelease(f, version) = f[m]
    BY Zenon, <1>8, <1>9
  <1> QED
    BY Zenon, <1>1, <1>10

-----------------------------------------------------------------------------
\* What the release service has answered, and the versions that are known.
AnswerInv ==
    /\ answer.kind \in {"none", "feed", "document", "archive"}
    /\ answer.kind = "feed" => answer.body \in Feeds
    /\ answer.kind = "document" => answer.body \in Documents
    /\ answer.kind = "archive" => answer.body \in Archives

VersionsInv ==
    /\ parseStableVersion(running) # Bad /\ parseStableVersion(installed) # Bad
    /\ helper.stage \in {"none", "started", "selected", "summed"}
    /\ overtaken \in BOOLEAN

\* Every step keeps the answer.
LEMMA AnswerStep == AnswerInv /\ [FeedNext]_feedVars => AnswerInv'
  <1> SUFFICES ASSUME AnswerInv, [FeedNext]_feedVars PROVE AnswerInv'
    OBVIOUS
  <1>1. \/ answer' = answer \/ answer' = NoAnswer
        \/ \E feed \in Feeds : answer' = [kind |-> "feed", body |-> feed]
        \/ \E document \in Documents : answer' = [kind |-> "document", body |-> document]
        \/ \E a \in Archives : answer' = [kind |-> "archive", body |-> a]
    BY Zenon DEF FeedNext, feedVars, Check, Apply, HelperSelects, HelperRefuses, HelperReadsChecksums,
                 HelperInstalls, RequestFails, OtherInstalls, Restart
  <1>2. CASE answer' = answer
    BY Zenon, <1>2 DEF AnswerInv
  <1>3. CASE answer' = NoAnswer
    <2>1. answer'.kind = "none"
      BY Zenon, <1>3 DEF NoAnswer
    <2> QED
      BY Zenon, <2>1 DEF AnswerInv
  <1>4. ASSUME NEW kind \in {"feed", "document", "archive"}, NEW body, answer' = [kind |-> kind, body |-> body],
               kind = "feed" => body \in Feeds, kind = "document" => body \in Documents,
               kind = "archive" => body \in Archives
        PROVE  AnswerInv'
    <2>1. answer'.kind = kind /\ answer'.body = body
      BY Zenon, <1>4
    <2> QED
      BY Zenon, <1>4, <2>1 DEF AnswerInv
  <1>5. \A feed \in Feeds : answer' = [kind |-> "feed", body |-> feed] => AnswerInv'
    BY Zenon, <1>4
  <1>6. \A document \in Documents : answer' = [kind |-> "document", body |-> document] => AnswerInv'
    BY Zenon, <1>4
  <1>7. \A a \in Archives : answer' = [kind |-> "archive", body |-> a] => AnswerInv'
    BY Zenon, <1>4
  <1> QED
    BY Zenon, <1>1, <1>2, <1>3, <1>5, <1>6, <1>7

\* Every step keeps the versions.
LEMMA VersionsStep == FeedInv /\ VersionsInv /\ [FeedNext]_feedVars => VersionsInv'
  <1> SUFFICES ASSUME FeedInv, VersionsInv, [FeedNext]_feedVars PROVE VersionsInv'
    OBVIOUS
  <1>1. \/ running' = running
        \/ running' = installed
    BY Zenon DEF FeedNext, feedVars, Check, Apply, HelperSelects, HelperRefuses, HelperReadsChecksums,
                 HelperInstalls, RequestFails, OtherInstalls, Restart, Refuse
  <1>2. parseStableVersion(installed') # Bad
    <2>1. CASE HelperInstalls
      <3>1. installed' = installed \/ installed' = canonicalVersion(helper.selected.tag)
        BY Zenon, <2>1 DEF HelperInstalls, Refuse
      <3>2. parseStableVersion(helper.selected.tag) # Bad
        BY Zenon, <2>1 DEF HelperInstalls, FeedInv, Chosen
      <3>3. parseStableVersion(canonicalVersion(helper.selected.tag)) # Bad
        BY Zenon, <3>2, CanonicalKeeps
      <3> QED
        BY Zenon, <3>1, <3>3 DEF VersionsInv
    <2>2. CASE OtherInstalls
      BY Zenon, <2>2, CanonicalKeeps DEF OtherInstalls, Stable
    <2>3. CASE ~HelperInstalls /\ ~OtherInstalls
      BY Zenon, <2>3, OthersKeep DEF VersionsInv
    <2> QED
      BY Zenon, <2>1, <2>2, <2>3
  <1>3. helper'.stage \in {"none", "started", "selected", "summed"}
    <2>1. \/ helper' = helper \/ helper' = NoHelper \/ Apply
          \/ \E r : helper' = [helper EXCEPT !.stage = "selected", !.selected = r]
          \/ \E digest : helper' = [helper EXCEPT !.stage = "summed", !.digest = digest]
      BY Zenon DEF FeedNext, feedVars, Check, HelperSelects, HelperRefuses, HelperReadsChecksums,
                   HelperInstalls, RequestFails, OtherInstalls, Restart, Refuse
    <2>2. helper' = NoHelper => helper'.stage = "none"
      BY Zenon, NoLocals
    <2>3. ASSUME Apply PROVE helper'.stage = "started"
      <3>1. helper' = [NoHelper EXCEPT !.stage = "started", !.version = info.latest]
        BY Zenon, <2>3 DEF Apply
      <3>2. helper' \in [stage : {"started"}, version : {info.latest}, selected : {Bad}, digest : {""}]
        BY Zenon, <3>1 DEF NoHelper
      <3> QED
        BY Zenon, <3>2
    <2>4. PICK a, b, c, d : helper \in [stage : {a}, version : {b}, selected : {c}, digest : {d}]
      BY Zenon DEF FeedInv, Locals
    <2>5. \A r : helper' = [helper EXCEPT !.stage = "selected", !.selected = r] => helper'.stage = "selected"
      <3> SUFFICES ASSUME NEW r, helper' = [helper EXCEPT !.stage = "selected", !.selected = r]
                   PROVE  helper'.stage = "selected"
        OBVIOUS
      <3>1. helper' \in [stage : {"selected"}, version : {b}, selected : {r}, digest : {d}]
        BY Zenon, <2>4
      <3> QED
        BY Zenon, <3>1
    <2>6. \A digest : helper' = [helper EXCEPT !.stage = "summed", !.digest = digest] => helper'.stage = "summed"
      <3> SUFFICES ASSUME NEW digest, helper' = [helper EXCEPT !.stage = "summed", !.digest = digest]
                   PROVE  helper'.stage = "summed"
        OBVIOUS
      <3>1. helper' \in [stage : {"summed"}, version : {b}, selected : {c}, digest : {digest}]
        BY Zenon, <2>4
      <3> QED
        BY Zenon, <3>1
    <2> QED
      BY Zenon, <2>1, <2>2, <2>3, <2>5, <2>6 DEF VersionsInv
  <1>4. overtaken' \in BOOLEAN
    <2>1. \/ overtaken' = overtaken \/ overtaken' = FALSE
          \/ overtaken' = (helper.stage \in {"selected", "summed"})
      BY Zenon DEF FeedNext, feedVars, Check, Apply, HelperSelects, HelperRefuses,
                   HelperReadsChecksums, HelperInstalls, RequestFails, OtherInstalls, Restart, Refuse
    <2>2. CASE overtaken' = (helper.stage \in {"selected", "summed"})
      BY <2>2
    <2> QED
      BY Zenon, <2>1, <2>2 DEF VersionsInv
  <1> QED
    BY Zenon, <1>1, <1>2, <1>3, <1>4 DEF VersionsInv

\* Whatever the release service answers, the client offers the first of the
\* published releases with the greatest stable version, compared number by
\* number, and the helper that is given the version finds that very release
\* (latestStableRelease, compareStableVersions, findStableRelease).
THEOREM ChoosesRight == FeedSpec => []ChoiceIsRight
  <1> DEFINE Inv == FeedInv /\ AnswerInv /\ VersionsInv
  <1>1. FeedInit => Inv
    <2> SUFFICES ASSUME FeedInit PROVE Inv
      OBVIOUS
    <2>1. FeedInv /\ helper.stage = "none"
      BY Zenon, NoLocals DEF FeedInit, FeedInv
    <2>2. answer.kind = "none"
      BY Zenon DEF FeedInit, NoAnswer
    <2>3. AnswerInv
      BY Zenon, <2>2 DEF AnswerInv
    <2>4. VersionsInv
      BY Zenon, <2>1, FirstAssumption DEF FeedInit, VersionsInv
    <2> QED
      BY Zenon, <2>1, <2>3, <2>4
  <1>2. Inv /\ [FeedNext]_feedVars => Inv'
    BY Zenon, FeedStep, AnswerStep, VersionsStep
  <1>3. Inv => ChoiceIsRight
    <2> SUFFICES ASSUME Inv PROVE ChoiceIsRight
      OBVIOUS
    <2>1. FeedTypeOK
      BY Zenon DEF FeedInv, AnswerInv, VersionsInv, FeedTypeOK
    <2>2. LatestIsGreatest
      <3> SUFFICES ASSUME answer.kind = "feed" PROVE LatestIsGreatest
        BY Zenon DEF LatestIsGreatest
      <3>1. PICK f \in Feeds : f = answer.body
        BY Zenon DEF AnswerInv
      <3> QED
        BY Zenon, <3>1, FeedGreatest DEF LatestIsGreatest
    <2>3. OfferedIsFound
      BY Zenon, FeedFound DEF AnswerInv, OfferedIsFound
    <2> QED
      BY Zenon, <2>1, <2>2, <2>3 DEF ChoiceIsRight
  <1> QED
    BY <1>1, <1>2, <1>3, PTL DEF FeedSpec

\* The loop of parseChecksum runs.
LEMMA ChecksumRuns ==
    ASSUME NEW d, NEW n \in Nat, Len(d) = n
    PROVE  \E g :
              /\ g[0] = "" /\ \A i \in 1..n : g[i] = ReadLine(g[i - 1], d[i])
              /\ parseChecksum(d) = g[n]
  <1> DEFINE X == {d[i].digest : i \in 1..n} \cup {"", Bad}
             step == [i \in 1..n |-> [v \in X |-> ReadLine(v, d[i])]]
             Turn(g, i) == IF i = 0 THEN "" ELSE ReadLine(g[i - 1], d[i])
             h == CHOOSE g : g = [i \in 0..n |-> Turn(g, i)]
  <1>1. \A i \in 1..n, v \in X : ReadLine(v, d[i]) \in X
    BY Zenon DEF ReadLine
  <1>2. Loop(X, "", n, step)
    BY Zenon, <1>1 DEF Loop
  <1>3. PICK g : Run(g, X, "", n, step)
    <2> HIDE DEF X, step
    <2> QED
      BY Zenon, <1>2, LoopRuns
  <1>4. \A i \in 1..n : i - 1 \in 0..n /\ i \in 0..n /\ i # 0
    OBVIOUS
  <1>5. \A i \in 1..n : g[i] = ReadLine(g[i - 1], d[i])
    <2> HIDE DEF X
    <2> QED
      BY Zenon, <1>3, <1>4 DEF Run
  <1>6. \A i \in 0..n : g[i] = Turn(g, i)
    <2>1. \A i \in 0..n : i = 0 \/ i \in 1..n
      OBVIOUS
    <2>2. g[0] = ""
      BY Zenon, <1>3 DEF Run
    <2> QED
      BY Zenon, <1>5, <2>1, <2>2
  <1>7. g = [i \in 0..n |-> Turn(g, i)]
    BY Zenon, <1>3, <1>6 DEF Run
  <1>8. h = [i \in 0..n |-> Turn(h, i)]
    BY Zenon, <1>7
  <1>9. parseChecksum(d) = h[n]
    BY Zenon DEF parseChecksum, FoldLeft
  <1>10. 0 \in 0..n
    OBVIOUS
  <1> HIDE DEF h
  <1>11. h[0] = "" /\ \A i \in 1..n : h[i] = ReadLine(h[i - 1], d[i])
    BY Zenon, <1>4, <1>8, <1>10
  <1> QED
    BY Zenon, <1>9, <1>11

\* A line that is blank or proper, and one that names the archive.
LineFits(d, i) == d[i].fields # 0 => d[i].fields = 2 /\ d[i].hex
NamesArchive(d, i) == d[i].fields # 0 /\ d[i].name = "archive"

\* What the loop holds after k lines.
SumOf(digest, d, k) ==
    \/ digest = Bad /\ \E i \in 1..k : ~LineFits(d, i)
    \/ digest = Bad /\ \E i, j \in 1..k : i # j /\ NamesArchive(d, i) /\ NamesArchive(d, j)
    \/ digest = "" /\ \A i \in 1..k : LineFits(d, i) /\ ~NamesArchive(d, i)
    \/ \E m \in 1..k : /\ digest = d[m].digest /\ NamesArchive(d, m)
                       /\ \A i \in 1..k : LineFits(d, i) /\ (NamesArchive(d, i) => i = m)

\* One line.
LEMMA LineKeeps ==
    ASSUME NEW d \in Documents, NEW k \in 1..Len(d), NEW digest, SumOf(digest, d, k - 1)
    PROVE  SumOf(ReadLine(digest, d[k]), d, k)
  <1>0. /\ k \in 1..k /\ DOMAIN d = 1..Len(d)
        /\ \A i \in 1..k : (i \in 1..(k - 1) \/ i = k) /\ i \in DOMAIN d
        /\ \A i \in 1..(k - 1) : i \in 1..k /\ i # k
    <2>1. d \in Seq(Range(d))
      BY Zenon, DownloadAssumption
    <2> QED
      BY <2>1
  <1>1. \A i \in 1..k : d[i].hex => d[i].digest # "" /\ d[i].digest # Bad
    BY Zenon, <1>0, DownloadAssumption DEF Range
  <1>2. Bad # ""
    BY Zenon, DownloadAssumption
  <1>3. CASE digest = Bad /\ ((\E i \in 1..(k - 1) : ~LineFits(d, i))
                    \/ (\E i, j \in 1..(k - 1) : i # j /\ NamesArchive(d, i) /\ NamesArchive(d, j)))
    <2>1. ReadLine(digest, d[k]) = Bad
      BY Zenon, <1>3 DEF ReadLine
    <2> QED
      BY Zenon, <1>0, <1>3, <2>1 DEF SumOf
  <1>4. ASSUME digest # Bad, d[k].fields = 0, SumOf(digest, d, k - 1)
        PROVE  SumOf(ReadLine(digest, d[k]), d, k)
    <2>1. ReadLine(digest, d[k]) = digest
      BY Zenon, <1>4 DEF ReadLine
    <2>2. LineFits(d, k) /\ ~NamesArchive(d, k)
      BY Zenon, <1>4 DEF LineFits, NamesArchive
    <2> QED
      BY Zenon, <1>0, <1>4, <2>1, <2>2 DEF SumOf
  <1>5. ASSUME digest # Bad, ~LineFits(d, k)
        PROVE  SumOf(ReadLine(digest, d[k]), d, k)
    <2>1. ReadLine(digest, d[k]) = Bad
      BY Zenon, <1>5 DEF ReadLine, LineFits
    <2> QED
      BY Zenon, <1>0, <1>5, <2>1 DEF SumOf
  <1>6. ASSUME digest # Bad, d[k].fields # 0, LineFits(d, k), d[k].name # "archive"
        PROVE  SumOf(ReadLine(digest, d[k]), d, k)
    <2>1. ReadLine(digest, d[k]) = digest
      BY Zenon, <1>6 DEF ReadLine, LineFits
    <2>2. ~NamesArchive(d, k)
      BY Zenon, <1>6 DEF NamesArchive
    <2> QED
      BY Zenon, <1>0, <1>6, <2>1, <2>2 DEF SumOf
  <1>7. ASSUME digest # Bad, LineFits(d, k), NamesArchive(d, k)
        PROVE  SumOf(ReadLine(digest, d[k]), d, k)
    <2>1. ReadLine(digest, d[k]) = IF digest # "" THEN Bad ELSE d[k].digest
      BY Zenon, <1>7 DEF ReadLine, LineFits, NamesArchive
    <2>2. CASE digest = ""
      <3>1. \A m \in 1..(k - 1) : digest = d[m].digest /\ NamesArchive(d, m) /\ LineFits(d, m) => FALSE
        BY Zenon, <1>0, <1>1, <2>2 DEF LineFits, NamesArchive
      <3>2. \A i \in 1..(k - 1) : LineFits(d, i) /\ ~NamesArchive(d, i)
        BY Zenon, <1>7, <3>1 DEF SumOf
      <3>3. \A i \in 1..k : LineFits(d, i) /\ (NamesArchive(d, i) => i = k)
        BY Zenon, <1>0, <1>7, <3>2
      <3>4. ReadLine(digest, d[k]) = d[k].digest
        BY Zenon, <2>1, <2>2
      <3> QED
        BY Zenon, <1>0, <1>7, <3>3, <3>4 DEF SumOf
    <2>3. CASE digest # ""
      <3>1. PICK m \in 1..(k - 1) : NamesArchive(d, m)
        BY Zenon, <1>7, <2>3 DEF SumOf
      <3>2. ReadLine(digest, d[k]) = Bad
        BY Zenon, <2>1, <2>3
      <3> QED
        BY Zenon, <1>0, <1>7, <3>1, <3>2 DEF SumOf
    <2> QED
      BY Zenon, <2>2, <2>3
  <1>8. digest # Bad \/ (\E i \in 1..(k - 1) : ~LineFits(d, i))
          \/ (\E i, j \in 1..(k - 1) : i # j /\ NamesArchive(d, i) /\ NamesArchive(d, j))
    <2>1. \A m \in 1..(k - 1) : Bad = d[m].digest /\ NamesArchive(d, m) /\ LineFits(d, m) => FALSE
      BY Zenon, <1>0, <1>1 DEF LineFits, NamesArchive
    <2> QED
      BY Zenon, <1>2, <2>1 DEF SumOf
  <1>9. NamesArchive(d, k) \/ d[k].fields = 0 \/ d[k].name # "archive"
    BY Zenon DEF NamesArchive
  <1> QED
    BY Zenon, <1>3, <1>4, <1>5, <1>6, <1>7, <1>8, <1>9

\* parseChecksum returns what it should.
LEMMA ChecksumIsRight ==
    ASSUME NEW d \in Documents
    PROVE  SumOf(parseChecksum(d), d, Len(d))
  <1> DEFINE n == Len(d)
  <1>0. n \in Nat
    <2>1. d \in Seq(Range(d))
      BY Zenon, DownloadAssumption
    <2> QED
      BY <2>1
  <1>1. PICK g : /\ g[0] = "" /\ \A i \in 1..n : g[i] = ReadLine(g[i - 1], d[i])
                 /\ parseChecksum(d) = g[n]
    BY Zenon, <1>0, ChecksumRuns
  <1> DEFINE S == {k \in 0..n : SumOf(g[k], d, k)}
  <1>2. 0 \in S
    <2>1. 0 \in 0..n /\ 1..0 = {}
      BY <1>0
    <2> QED
      BY Zenon, <1>1, <2>1 DEF SumOf
  <1>3. ASSUME NEW k \in 1..n, k - 1 \in S PROVE k \in S
    <2>1. k \in 0..n
      BY <1>0
    <2>2. SumOf(g[k - 1], d, k - 1)
      BY Zenon, <1>3
    <2>3. SumOf(ReadLine(g[k - 1], d[k]), d, k)
      BY Zenon, <2>2, LineKeeps
    <2> QED
      BY Zenon, <1>1, <2>1, <2>3
  <1>4. n \in S
    <2> HIDE DEF S, n
    <2> QED
      BY Zenon, <1>0, <1>2, <1>3, Along
  <1> QED
    BY Zenon, <1>1, <1>4

\* ChecksumIsTheOnly of a document.
LEMMA DocumentJudged ==
    ASSUME NEW d \in Documents
    PROVE  LET L == {i \in DOMAIN d : d[i].fields # 0}
               A == {i \in L : d[i].name = "archive"}
               good == (\A i \in L : d[i].fields = 2 /\ d[i].hex) /\ \E i \in A : A = {i} IN
           IF good THEN \A i \in A : parseChecksum(d) = d[i].digest
           ELSE parseChecksum(d) \in {"", Bad}
  <1> DEFINE L == {i \in DOMAIN d : d[i].fields # 0}
             A == {i \in L : d[i].name = "archive"}
             good == (\A i \in L : d[i].fields = 2 /\ d[i].hex) /\ \E i \in A : A = {i}
  <1>0. DOMAIN d = 1..Len(d) /\ Len(d) \in Nat
    <2>1. d \in Seq(Range(d))
      BY Zenon, DownloadAssumption
    <2> QED
      BY <2>1
  <1>1. (\A i \in L : d[i].fields = 2 /\ d[i].hex) <=> \A i \in 1..Len(d) : LineFits(d, i)
    BY Zenon, <1>0 DEF LineFits
  <1>2. \A i : i \in A <=> i \in 1..Len(d) /\ NamesArchive(d, i)
    BY Zenon, <1>0 DEF NamesArchive
  <1> HIDE DEF L, A
  <1>5. CASE good
    <2>1. PICK x : A = {x}
      BY Zenon, <1>5
    <2>2. x \in 1..Len(d) /\ NamesArchive(d, x) /\ \A i \in 1..Len(d) : NamesArchive(d, i) => i = x
      BY Zenon, <1>2, <2>1
    <2>3. parseChecksum(d) = d[x].digest
      BY Zenon, <1>1, <1>5, <2>2, ChecksumIsRight DEF SumOf
    <2> QED
      BY Zenon, <1>5, <2>1, <2>3 DEF L, A
  <1>6. CASE ~good
    <2>1. ASSUME NEW m \in 1..Len(d), NamesArchive(d, m),
                 \A i \in 1..Len(d) : LineFits(d, i) /\ (NamesArchive(d, i) => i = m)
          PROVE  FALSE
      <3>1. A = {m}
        BY Zenon, <1>2, <2>1
      <3>2. \E i \in A : A = {i}
        BY Zenon, <3>1
      <3> QED
        BY Zenon, <1>1, <1>6, <2>1, <3>2
    <2>2. parseChecksum(d) = Bad \/ parseChecksum(d) = ""
      BY Zenon, <2>1, ChecksumIsRight DEF SumOf
    <2> QED
      BY Zenon, <1>6, <2>2 DEF L, A
  <1> QED
    BY Zenon, <1>5, <1>6

\* What readTarBinaries keeps between entries.
Reads == [ok : BOOLEAN, count : Int, bytes : Int, seen : SUBSET Wanted]
ReadIs(s, ok, count, bytes, seen) == s.ok = ok /\ s.count = count /\ s.bytes = bytes /\ s.seen = seen

\* What one entry makes of it: refused, counted, measured or taken.
Refused(s) == [[s EXCEPT !.count = @ + 1] EXCEPT !.ok = FALSE]
Counted(s) == [s EXCEPT !.count = @ + 1]
Measured(s, size) == [[s EXCEPT !.count = @ + 1] EXCEPT !.bytes = @ + size]
Taken(s, size, path) == [[[s EXCEPT !.count = @ + 1] EXCEPT !.bytes = @ + size] EXCEPT !.seen = @ \cup {path}]

\* The fields of each of them.
LEMMA ReadFields ==
    ASSUME NEW s \in Reads, NEW size \in Int, NEW path \in Wanted
    PROVE  /\ Refused(s) \in Reads /\ ~Refused(s).ok
           /\ Counted(s) \in Reads /\ ReadIs(Counted(s), s.ok, s.count + 1, s.bytes, s.seen)
           /\ Measured(s, size) \in Reads /\ ReadIs(Measured(s, size), s.ok, s.count + 1, s.bytes + size, s.seen)
           /\ Taken(s, size, path) \in Reads
           /\ ReadIs(Taken(s, size, path), s.ok, s.count + 1, s.bytes + size, s.seen \cup {path})
  <1>1. PICK ok \in BOOLEAN, count \in Int, bytes \in Int, seen \in SUBSET Wanted :
          s \in [ok : {ok}, count : {count}, bytes : {bytes}, seen : {seen}]
    <2>1. s.ok \in BOOLEAN /\ s.count \in Int /\ s.bytes \in Int /\ s.seen \in SUBSET Wanted
      BY Zenon DEF Reads
    <2>2. s \in [ok : {s.ok}, count : {s.count}, bytes : {s.bytes}, seen : {s.seen}]
      BY Zenon DEF Reads
    <2> QED
      BY Zenon, <2>1, <2>2
  <1>2. s.ok = ok /\ s.count = count /\ s.bytes = bytes /\ s.seen = seen
    BY Zenon, <1>1
  <1>3. PICK c \in Int, b \in Int, T \in SUBSET Wanted : c = count + 1 /\ b = bytes + size /\ T = seen \cup {path}
    <2>1. count + 1 \in Int /\ bytes + size \in Int
      OBVIOUS
    <2>2. seen \cup {path} \in SUBSET Wanted
      BY Zenon
    <2> QED
      BY Zenon, <2>1, <2>2
  <1>4. Counted(s) \in [ok : {ok}, count : {c}, bytes : {bytes}, seen : {seen}]
    BY Zenon, <1>1, <1>2, <1>3 DEF Counted
  <1>5. Refused(s) \in [ok : {FALSE}, count : {c}, bytes : {bytes}, seen : {seen}]
    BY Zenon, <1>4 DEF Counted, Refused
  <1>6. Measured(s, size) \in [ok : {ok}, count : {c}, bytes : {b}, seen : {seen}]
    <2>1. Counted(s).bytes = bytes
      BY Zenon, <1>4
    <2>2. Measured(s, size) = [Counted(s) EXCEPT !.bytes = b]
      BY Zenon, <1>3, <2>1 DEF Counted, Measured
    <2> QED
      BY Zenon, <1>4, <2>2
  <1>7. Taken(s, size, path) \in [ok : {ok}, count : {c}, bytes : {b}, seen : {T}]
    <2>1. Measured(s, size).seen = seen
      BY Zenon, <1>6
    <2>2. Taken(s, size, path) = [Measured(s, size) EXCEPT !.seen = T]
      BY Zenon, <1>3, <2>1 DEF Measured, Taken
    <2> QED
      BY Zenon, <1>6, <2>2
  <1>8. Refused(s) \in Reads /\ ~Refused(s).ok
    BY Zenon, <1>5 DEF Reads
  <1>9. Counted(s) \in Reads /\ ReadIs(Counted(s), s.ok, s.count + 1, s.bytes, s.seen)
    BY Zenon, <1>2, <1>3, <1>4 DEF Reads, ReadIs
  <1>10. Measured(s, size) \in Reads /\ ReadIs(Measured(s, size), s.ok, s.count + 1, s.bytes + size, s.seen)
    BY Zenon, <1>2, <1>3, <1>6 DEF Reads, ReadIs
  <1>11. /\ Taken(s, size, path) \in Reads
         /\ ReadIs(Taken(s, size, path), s.ok, s.count + 1, s.bytes + size, s.seen \cup {path})
    BY Zenon, <1>2, <1>3, <1>7 DEF Reads, ReadIs
  <1> QED
    BY Zenon, <1>8, <1>9, <1>10, <1>11

\* ReadEntry in those words.
LEMMA ReadEntryIs ==
    ASSUME NEW s \in Reads, NEW e
    PROVE  ReadEntry(s, e) =
             IF ~s.ok THEN s
             ELSE IF s.count + 1 > MaxEntries \/ ~safeArchivePath(e.path) \/ e.type \notin {"file", "dir"} THEN Refused(s)
             ELSE IF e.type = "dir" THEN Counted(s)
             ELSE IF e.size \notin 0..MaxBinary \/ s.bytes > MaxExtracted - e.size THEN Refused(s)
             ELSE IF e.path \notin Wanted THEN (IF e.whole THEN Measured(s, e.size) ELSE Refused(s))
             ELSE IF e.path \in s.seen \/ e.size = 0 \/ ~e.whole THEN Refused(s)
             ELSE Taken(s, e.size, e.path)
  BY DEF ReadEntry, Refused, Counted, Measured, Taken

\* An entry keeps the form of the record.
LEMMA ReadEntryReads ==
    ASSUME NEW s \in Reads, NEW e, e.size \in Int
    PROVE  ReadEntry(s, e) \in Reads
  <1>1. Refused(s) \in Reads /\ Counted(s) \in Reads /\ Measured(s, e.size) \in Reads
    BY Zenon, ReadFields, <<"tuibox">> \in Wanted DEF Wanted
  <1>2. e.path \in Wanted => Taken(s, e.size, e.path) \in Reads
    BY Zenon, ReadFields
  <1> QED
    BY Zenon, <1>1, <1>2, ReadEntryIs

\* The loop of readTarBinaries runs.
LEMMA ReadRuns ==
    ASSUME NEW e, NEW n \in Nat, Len(e) = n, \A i \in 1..n : e[i].size \in Int
    PROVE  \E g :
              /\ g[0] = NothingRead /\ g[0] \in Reads /\ \A i \in 1..n : g[i] = ReadEntry(g[i - 1], e[i])
              /\ FoldLeft(ReadEntry, NothingRead, e) = g[n]
  <1> DEFINE step == [i \in 1..n |-> [v \in Reads |-> ReadEntry(v, e[i])]]
             Turn(g, i) == IF i = 0 THEN NothingRead ELSE ReadEntry(g[i - 1], e[i])
             h == CHOOSE g : g = [i \in 0..n |-> Turn(g, i)]
  <1>1. \A i \in 1..n, v \in Reads : ReadEntry(v, e[i]) \in Reads
    BY Zenon, ReadEntryReads
  <1>2. NothingRead \in Reads
    BY DEF NothingRead, Reads
  <1>3. Loop(Reads, NothingRead, n, step)
    BY Zenon, <1>1, <1>2 DEF Loop
  <1>4. PICK g : Run(g, Reads, NothingRead, n, step)
    <2> HIDE DEF step
    <2> QED
      BY Zenon, <1>3, LoopRuns
  <1>5. \A i \in 1..n : i - 1 \in 0..n /\ i \in 0..n /\ i # 0
    OBVIOUS
  <1>6. \A i \in 1..n : g[i] = ReadEntry(g[i - 1], e[i])
    BY Zenon, <1>4, <1>5 DEF Run
  <1>7. \A i \in 0..n : g[i] = Turn(g, i)
    <2>1. \A i \in 0..n : i = 0 \/ i \in 1..n
      OBVIOUS
    <2>2. g[0] = NothingRead
      BY Zenon, <1>4 DEF Run
    <2> QED
      BY Zenon, <1>6, <2>1, <2>2
  <1>8. g = [i \in 0..n |-> Turn(g, i)]
    BY Zenon, <1>4, <1>7 DEF Run
  <1>9. h = [i \in 0..n |-> Turn(h, i)]
    BY Zenon, <1>8
  <1>10. FoldLeft(ReadEntry, NothingRead, e) = h[n]
    BY Zenon DEF FoldLeft
  <1>11. 0 \in 0..n
    OBVIOUS
  <1> HIDE DEF h
  <1>12. h[0] = NothingRead /\ \A i \in 1..n : h[i] = ReadEntry(h[i - 1], e[i])
    BY Zenon, <1>5, <1>9, <1>11
  <1> QED
    BY Zenon, <1>2, <1>10, <1>12

\* The sum of the sizes runs.
LEMMA SizeRuns ==
    ASSUME NEW e, NEW n \in Nat, Len(e) = n, \A i \in 1..n : e[i].size \in Int
    PROVE  \E g :
              /\ g[0] = 0 /\ \A i \in 1..n : g[i] = AddSize(g[i - 1], e[i])
              /\ FoldLeft(AddSize, 0, e) = g[n]
  <1> DEFINE step == [i \in 1..n |-> [v \in Int |-> AddSize(v, e[i])]]
             Turn(g, i) == IF i = 0 THEN 0 ELSE AddSize(g[i - 1], e[i])
             h == CHOOSE g : g = [i \in 0..n |-> Turn(g, i)]
  <1>1. \A i \in 1..n, v \in Int : AddSize(v, e[i]) \in Int
    BY DEF AddSize
  <1>2. 0 \in Int
    OBVIOUS
  <1>3. Loop(Int, 0, n, step)
    BY Zenon, <1>1, <1>2 DEF Loop
  <1>4. PICK g : Run(g, Int, 0, n, step)
    <2> HIDE DEF step
    <2> QED
      BY Zenon, <1>3, LoopRuns
  <1>5. \A i \in 1..n : i - 1 \in 0..n /\ i \in 0..n /\ i # 0
    OBVIOUS
  <1>6. \A i \in 1..n : g[i] = AddSize(g[i - 1], e[i])
    BY Zenon, <1>4, <1>5 DEF Run
  <1>7. \A i \in 0..n : g[i] = Turn(g, i)
    <2>1. \A i \in 0..n : i = 0 \/ i \in 1..n
      OBVIOUS
    <2>2. g[0] = 0
      BY Zenon, <1>4 DEF Run
    <2> QED
      BY Zenon, <1>6, <2>1, <2>2
  <1>8. g = [i \in 0..n |-> Turn(g, i)]
    BY Zenon, <1>4, <1>7 DEF Run
  <1>9. h = [i \in 0..n |-> Turn(h, i)]
    BY Zenon, <1>8
  <1>10. FoldLeft(AddSize, 0, e) = h[n]
    BY Zenon DEF FoldLeft
  <1>11. 0 \in 0..n
    OBVIOUS
  <1> HIDE DEF h
  <1>12. h[0] = 0 /\ \A i \in 1..n : h[i] = AddSize(h[i - 1], e[i])
    BY Zenon, <1>5, <1>9, <1>11
  <1> QED
    BY Zenon, <1>10, <1>12

-----------------------------------------------------------------------------
\* An entry that readTarBinaries passes on its own, an executable among the
\* first k entries, and all of them together with the size of their files.
IsFile(e, i) == e[i].type = "file"
EntryFits(e, i) ==
    /\ safeArchivePath(e[i].path) /\ e[i].type \in {"file", "dir"}
    /\ IsFile(e, i) => e[i].size \in 0..MaxBinary /\ e[i].whole /\ (e[i].path \in Wanted => e[i].size > 0)
IsWanted(e, i) == IsFile(e, i) /\ e[i].path \in Wanted
EntriesFit(e, k, total) ==
    /\ k <= MaxEntries /\ total <= MaxExtracted
    /\ \A i \in 1..k : EntryFits(e, i)
    /\ \A i, j \in 1..k : IsWanted(e, i) /\ IsWanted(e, j) /\ e[i].path = e[j].path => i = j

\* What the loop holds after k entries.
ReadOf(s, total, e, k) ==
    /\ s \in Reads /\ total \in Int
    /\ s.ok <=> EntriesFit(e, k, total)
    /\ s.ok => /\ s.count = k /\ s.bytes = total
               /\ \A p : p \in s.seen <=> \E i \in 1..k : IsWanted(e, i) /\ e[i].path = p

\* One entry more can only spoil it.
LEMMA EntriesFitBefore ==
    ASSUME NEW e, NEW k \in Nat \ {0}, e[k].size \in Int, NEW total \in Int,
           EntriesFit(e, k, AddSize(total, e[k]))
    PROVE  EntriesFit(e, k - 1, total)
  <1>0. k \in 1..k /\ \A i \in 1..(k - 1) : i \in 1..k
    OBVIOUS
  <1>1. IsFile(e, k) => e[k].size \in 0..MaxBinary
    BY Zenon, <1>0 DEF EntriesFit, EntryFits
  <1>2. total <= AddSize(total, e[k])
    <2>1. MaxBinary \in Nat
      BY Zenon, DownloadAssumption
    <2> QED
      BY <1>1, <2>1 DEF AddSize, IsFile
  <1>3. AddSize(total, e[k]) \in Int
    BY DEF AddSize
  <1>4. total <= MaxExtracted
    <2>1. AddSize(total, e[k]) <= MaxExtracted /\ MaxExtracted \in Nat
      BY Zenon, DownloadAssumption DEF EntriesFit
    <2> QED
      BY <1>2, <1>3, <2>1
  <1>5. k - 1 <= MaxEntries
    <2>1. k <= MaxEntries /\ MaxEntries \in Nat
      BY Zenon, DownloadAssumption DEF EntriesFit
    <2> QED
      BY <2>1
  <1> QED
    BY Zenon, <1>0, <1>4, <1>5 DEF EntriesFit

\* One entry.
LEMMA EntryKeeps ==
    ASSUME NEW e, NEW k \in Nat \ {0}, e[k].size \in Int, NEW s, NEW total, ReadOf(s, total, e, k - 1)
    PROVE  ReadOf(ReadEntry(s, e[k]), AddSize(total, e[k]), e, k)
  <1> DEFINE x == e[k]
             t == AddSize(total, x)
  <1>0. /\ k \in 1..k /\ \A i \in 1..k : i \in 1..(k - 1) \/ i = k
        /\ \A i \in 1..(k - 1) : i \in 1..k /\ i # k
    OBVIOUS
  <1>1. s \in Reads /\ total \in Int /\ s.ok \in BOOLEAN
    BY Zenon DEF ReadOf, Reads
  <1>2. ReadEntry(s, x) \in Reads /\ t \in Int
    <2>1. t \in Int
      BY <1>1 DEF AddSize
    <2> QED
      BY Zenon, <1>1, <2>1, ReadEntryReads
  <1>3. MaxBinary \in Nat /\ MaxExtracted \in Nat /\ MaxEntries \in Nat
    BY Zenon, DownloadAssumption
  <1>4. ~Refused(s).ok
    BY Zenon, <1>1, ReadFields, <<"tuibox">> \in Wanted DEF Wanted
  <1>5. CASE ~s.ok
    <2>1. ReadEntry(s, x) = s
      BY Zenon, <1>1, <1>5, ReadEntryIs
    <2>2. ~EntriesFit(e, k, t)
      BY Zenon, <1>1, <1>5, EntriesFitBefore DEF ReadOf
    <2> QED
      BY Zenon, <1>2, <1>5, <2>1, <2>2 DEF ReadOf
  <1>6. ASSUME ReadEntry(s, x) = Refused(s), ~EntriesFit(e, k, t)
        PROVE  ReadOf(ReadEntry(s, x), t, e, k)
    BY Zenon, <1>2, <1>4, <1>6 DEF ReadOf
  <1>7. ASSUME s.ok
        PROVE  /\ s.count = k - 1 /\ s.bytes = total /\ EntriesFit(e, k - 1, total)
               /\ \A p : p \in s.seen <=> \E i \in 1..(k - 1) : IsWanted(e, i) /\ e[i].path = p
    BY Zenon, <1>7 DEF ReadOf
  <1>8. s.ok => (s.count + 1 > MaxEntries <=> ~(k <= MaxEntries)) /\ s.count + 1 = k
    BY <1>3, <1>7
  <1>9. CASE s.ok /\ (s.count + 1 > MaxEntries \/ ~safeArchivePath(x.path) \/ x.type \notin {"file", "dir"})
    <2>1. ReadEntry(s, x) = Refused(s)
      BY Zenon, <1>1, <1>9, ReadEntryIs
    <2>2. ~EntriesFit(e, k, t)
      BY Zenon, <1>0, <1>8, <1>9 DEF EntriesFit, EntryFits
    <2> QED
      BY Zenon, <1>6, <2>1, <2>2
  <1>10. ASSUME s.ok, k <= MaxEntries, safeArchivePath(x.path), x.type = "dir"
         PROVE  ReadOf(ReadEntry(s, x), t, e, k)
    <2>1. ReadEntry(s, x) = Counted(s)
      BY Zenon, <1>1, <1>8, <1>10, ReadEntryIs
    <2>2. ReadIs(Counted(s), s.ok, s.count + 1, s.bytes, s.seen)
      BY Zenon, <1>1, ReadFields, <<"tuibox">> \in Wanted DEF Wanted
    <2>3. t = total /\ ~IsFile(e, k)
      BY Zenon, <1>10 DEF AddSize, IsFile
    <2>4. EntryFits(e, k) /\ ~IsWanted(e, k)
      BY Zenon, <1>10, <2>3 DEF EntryFits, IsWanted
    <2>5. EntriesFit(e, k, t)
      BY Zenon, <1>0, <1>7, <1>10, <2>3, <2>4 DEF EntriesFit
    <2>6. \A p : p \in s.seen <=> \E i \in 1..k : IsWanted(e, i) /\ e[i].path = p
      BY Zenon, <1>0, <1>7, <1>10, <2>4
    <2>7. /\ ReadEntry(s, x).ok /\ ReadEntry(s, x).count = k /\ ReadEntry(s, x).bytes = t
          /\ ReadEntry(s, x).seen = s.seen
      BY Zenon, <1>7, <1>8, <1>10, <2>1, <2>2, <2>3 DEF ReadIs
    <2> QED
      BY Zenon, <1>2, <2>5, <2>6, <2>7 DEF ReadOf
  <1>11. ASSUME s.ok, k <= MaxEntries, safeArchivePath(x.path), x.type = "file"
         PROVE  ReadOf(ReadEntry(s, x), t, e, k)
    <2>0. IsFile(e, k) /\ t = total + x.size /\ x.type # "dir" /\ x.type \in {"file", "dir"}
      BY Zenon, <1>11 DEF AddSize, IsFile
    <2>1. s.bytes > MaxExtracted - x.size <=> ~(t <= MaxExtracted)
      BY <1>1, <1>3, <1>7, <1>11, <2>0
    <2>2. CASE x.size \notin 0..MaxBinary \/ ~(t <= MaxExtracted)
      <3>1. ReadEntry(s, x) = Refused(s)
        BY Zenon, <1>1, <1>8, <1>11, <2>0, <2>1, <2>2, ReadEntryIs
      <3>2. ~EntriesFit(e, k, t)
        BY Zenon, <1>0, <2>0, <2>2 DEF EntriesFit, EntryFits
      <3> QED
        BY Zenon, <1>6, <3>1, <3>2
    <2>3. CASE x.size \in 0..MaxBinary /\ t <= MaxExtracted /\ ~x.whole
      <3>1. ReadEntry(s, x) = Refused(s)
        BY Zenon, <1>1, <1>8, <1>11, <2>0, <2>1, <2>3, ReadEntryIs
      <3>2. ~EntriesFit(e, k, t)
        BY Zenon, <1>0, <2>0, <2>3 DEF EntriesFit, EntryFits
      <3> QED
        BY Zenon, <1>6, <3>1, <3>2
    <2>4. CASE x.size \in 0..MaxBinary /\ t <= MaxExtracted /\ x.whole /\ x.path \notin Wanted
      <3>1. ReadEntry(s, x) = Measured(s, x.size)
        BY Zenon, <1>1, <1>8, <1>11, <2>0, <2>1, <2>4, ReadEntryIs
      <3>2. ReadIs(Measured(s, x.size), s.ok, s.count + 1, s.bytes + x.size, s.seen)
        BY Zenon, <1>1, ReadFields, <<"tuibox">> \in Wanted DEF Wanted
      <3>3. EntryFits(e, k) /\ ~IsWanted(e, k)
        BY Zenon, <1>11, <2>0, <2>4 DEF EntryFits, IsWanted
      <3>4. EntriesFit(e, k, t)
        BY Zenon, <1>0, <1>7, <1>11, <2>4, <3>3 DEF EntriesFit
      <3>5. \A p : p \in s.seen <=> \E i \in 1..k : IsWanted(e, i) /\ e[i].path = p
        BY Zenon, <1>0, <1>7, <1>11, <3>3
      <3>6. /\ ReadEntry(s, x).ok /\ ReadEntry(s, x).count = k /\ ReadEntry(s, x).bytes = t
            /\ ReadEntry(s, x).seen = s.seen
        BY Zenon, <1>7, <1>8, <1>11, <2>0, <3>1, <3>2 DEF ReadIs
      <3> QED
        BY Zenon, <1>2, <3>4, <3>5, <3>6 DEF ReadOf
    <2>5. CASE x.size \in 0..MaxBinary /\ t <= MaxExtracted /\ x.whole /\ x.path \in Wanted /\ x.size = 0
      <3>1. ReadEntry(s, x) = Refused(s)
        BY Zenon, <1>1, <1>8, <1>11, <2>0, <2>1, <2>5, ReadEntryIs
      <3>2. ~(x.size > 0)
        BY <2>5
      <3>3. ~EntriesFit(e, k, t)
        BY Zenon, <1>0, <2>0, <2>5, <3>2 DEF EntriesFit, EntryFits
      <3> QED
        BY Zenon, <1>6, <3>1, <3>3
    <2>6. CASE x.size \in 0..MaxBinary /\ t <= MaxExtracted /\ x.whole /\ x.path \in Wanted /\ x.path \in s.seen
      <3>1. ReadEntry(s, x) = Refused(s)
        BY Zenon, <1>1, <1>8, <1>11, <2>0, <2>1, <2>6, ReadEntryIs
      <3>2. PICK i \in 1..(k - 1) : IsWanted(e, i) /\ e[i].path = x.path
        BY Zenon, <1>7, <1>11, <2>6
      <3>3. IsWanted(e, k)
        BY Zenon, <2>0, <2>6 DEF IsWanted
      <3>4. ~EntriesFit(e, k, t)
        BY Zenon, <1>0, <3>2, <3>3 DEF EntriesFit
      <3> QED
        BY Zenon, <1>6, <3>1, <3>4
    <2>7. CASE /\ x.size \in 0..MaxBinary /\ t <= MaxExtracted /\ x.whole
               /\ x.path \in Wanted /\ x.path \notin s.seen /\ x.size # 0
      <3>1. ReadEntry(s, x) = Taken(s, x.size, x.path)
        BY Zenon, <1>1, <1>8, <1>11, <2>0, <2>1, <2>7, ReadEntryIs
      <3>2. ReadIs(Taken(s, x.size, x.path), s.ok, s.count + 1, s.bytes + x.size, s.seen \cup {x.path})
        BY Zenon, <1>1, <2>7, ReadFields
      <3>3. x.size > 0
        BY <1>3, <2>7
      <3>4. EntryFits(e, k) /\ IsWanted(e, k)
        BY Zenon, <1>11, <2>0, <2>7, <3>3 DEF EntryFits, IsWanted
      <3>5. \A i \in 1..(k - 1) : IsWanted(e, i) => e[i].path # x.path
        BY Zenon, <1>7, <1>11, <2>7
      <3>6. EntriesFit(e, k, t)
        <4>1. \A i \in 1..k : EntryFits(e, i)
          BY Zenon, <1>0, <1>7, <1>11, <3>4 DEF EntriesFit
        <4>2. \A i, j \in 1..(k - 1) : IsWanted(e, i) /\ IsWanted(e, j) /\ e[i].path = e[j].path => i = j
          BY Zenon, <1>7, <1>11 DEF EntriesFit
        <4>3. \A i, j \in 1..k : IsWanted(e, i) /\ IsWanted(e, j) /\ e[i].path = e[j].path => i = j
          BY Zenon, <1>0, <3>5, <4>2
        <4> QED
          BY Zenon, <1>11, <2>7, <4>1, <4>3 DEF EntriesFit
      <3>7. \A p : p \in s.seen \cup {x.path} <=> \E i \in 1..k : IsWanted(e, i) /\ e[i].path = p
        BY Zenon, <1>0, <1>7, <1>11, <3>4
      <3>8. /\ ReadEntry(s, x).ok /\ ReadEntry(s, x).count = k /\ ReadEntry(s, x).bytes = t
            /\ ReadEntry(s, x).seen = s.seen \cup {x.path}
        BY Zenon, <1>7, <1>8, <1>11, <2>0, <3>1, <3>2 DEF ReadIs
      <3> QED
        BY Zenon, <1>2, <3>6, <3>7, <3>8 DEF ReadOf
    <2> QED
      BY Zenon, <2>2, <2>3, <2>4, <2>5, <2>6, <2>7
  <1> QED
    BY Zenon, <1>5, <1>8, <1>9, <1>10, <1>11

\* readTarBinaries after the last entry.
LEMMA ReadIsRight ==
    ASSUME NEW a \in Archives
    PROVE  LET e == a.entries IN
           /\ Len(e) \in Nat /\ DOMAIN e = 1..Len(e)
           /\ ReadOf(FoldLeft(ReadEntry, NothingRead, e), FoldLeft(AddSize, 0, e), e, Len(e))
  <1>1. PICK e : e = a.entries
    BY Zenon
  <1>2. PICK n : n = Len(e)
    BY Zenon
  <1>3. n \in Nat /\ DOMAIN e = 1..n /\ \A i \in 1..n : e[i].size \in Int
    <2>1. e \in Seq(Range(e)) /\ \A x \in Range(e) : x.size \in Int
      BY Zenon, <1>1, DownloadAssumption
    <2>2. n \in Nat /\ DOMAIN e = 1..n
      BY <1>2, <2>1
    <2> QED
      BY Zenon, <2>1, <2>2 DEF Range
  <1>4. PICK g : /\ g[0] = NothingRead /\ g[0] \in Reads /\ \A i \in 1..n : g[i] = ReadEntry(g[i - 1], e[i])
                 /\ FoldLeft(ReadEntry, NothingRead, e) = g[n]
    BY Zenon, <1>2, <1>3, ReadRuns
  <1>5. PICK t : /\ t[0] = 0 /\ \A i \in 1..n : t[i] = AddSize(t[i - 1], e[i])
                 /\ FoldLeft(AddSize, 0, e) = t[n]
    BY Zenon, <1>2, <1>3, SizeRuns
  <1> DEFINE S == {k \in 0..n : ReadOf(g[k], t[k], e, k)}
  <1>6. 0 \in S
    <2>1. 0 \in 0..n /\ 1..0 = {} /\ 0 \in Int
      BY <1>3
    <2>2. g[0].ok /\ g[0].count = 0 /\ g[0].bytes = 0 /\ g[0].seen = {}
      BY <1>4 DEF NothingRead
    <2>3. 0 <= MaxEntries /\ 0 <= MaxExtracted
      <3>1. MaxEntries \in Nat /\ MaxExtracted \in Nat
        BY Zenon, DownloadAssumption
      <3> QED
        BY <3>1
    <2>4. EntriesFit(e, 0, 0)
      BY Zenon, <2>1, <2>3 DEF EntriesFit
    <2>5. ReadOf(g[0], 0, e, 0)
      BY Zenon, <1>4, <2>1, <2>2, <2>4 DEF ReadOf
    <2> QED
      BY Zenon, <1>5, <2>1, <2>5
  <1>7. ASSUME NEW k \in 1..n, k - 1 \in S PROVE k \in S
    <2>1. k \in 0..n /\ k \in Nat \ {0} /\ e[k].size \in Int
      BY <1>3
    <2>2. ReadOf(g[k - 1], t[k - 1], e, k - 1)
      BY Zenon, <1>7
    <2>3. ReadOf(ReadEntry(g[k - 1], e[k]), AddSize(t[k - 1], e[k]), e, k)
      BY Zenon, <2>1, <2>2, EntryKeeps
    <2> QED
      BY Zenon, <1>4, <1>5, <2>1, <2>3
  <1>8. n \in S
    <2> HIDE DEF S
    <2> QED
      BY Zenon, <1>3, <1>6, <1>7, Along
  <1>9. ReadOf(g[n], t[n], e, n)
    BY Zenon, <1>8
  <1> QED
    BY Zenon, <1>1, <1>2, <1>3, <1>4, <1>5, <1>9

\* ArchiveIsComplete of an archive.
LEMMA ArchiveJudged ==
    ASSUME NEW a \in Archives, NEW e, e = a.entries
    PROVE  LET F == {i \in DOMAIN e : e[i].type = "file"} IN
           readTarBinaries(e) <=>
               /\ Len(e) <= MaxEntries
               /\ \A i \in DOMAIN e : safeArchivePath(e[i].path) /\ e[i].type \in {"file", "dir"}
               /\ \A i \in F : e[i].size \in 0..MaxBinary /\ e[i].whole
               /\ FoldLeft(AddSize, 0, e) <= MaxExtracted
               /\ \A n \in Wanted :
                    \E i \in F : /\ e[i].path = n /\ e[i].size > 0
                                 /\ \A j \in F : e[j].path = n => j = i
  <1>1. PICK s, total, k : /\ s = FoldLeft(ReadEntry, NothingRead, e)
                           /\ total = FoldLeft(AddSize, 0, e) /\ k = Len(e)
    BY Zenon
  <1>2. DOMAIN e = 1..k /\ ReadOf(s, total, e, k)
    BY Zenon, <1>1, ReadIsRight
  <1>3. s.seen \in SUBSET Wanted
    BY Zenon, <1>2 DEF ReadOf, Reads
  <1> DEFINE F == {i \in DOMAIN e : e[i].type = "file"}
             Once(n) == \E i \in F : /\ e[i].path = n /\ e[i].size > 0
                                     /\ \A j \in F : e[j].path = n => j = i
  <1>4. \A i : i \in F <=> i \in 1..k /\ IsFile(e, i)
    BY Zenon, <1>2 DEF IsFile
  <1>5. readTarBinaries(e) <=> s.ok /\ s.seen = Wanted
    BY Zenon, <1>1 DEF readTarBinaries
  <1> HIDE DEF F
  <1>6. ASSUME s.ok, s.seen = Wanted
        PROVE  /\ k <= MaxEntries
               /\ \A i \in DOMAIN e : safeArchivePath(e[i].path) /\ e[i].type \in {"file", "dir"}
               /\ \A i \in F : e[i].size \in 0..MaxBinary /\ e[i].whole
               /\ total <= MaxExtracted
               /\ \A n \in Wanted : Once(n)
    <2>1. EntriesFit(e, k, total)
      BY Zenon, <1>2, <1>6 DEF ReadOf
    <2>2. \A i \in 1..k : EntryFits(e, i)
      BY Zenon, <2>1 DEF EntriesFit
    <2>3. ASSUME NEW n \in Wanted PROVE Once(n)
      <3>1. PICK i \in 1..k : IsWanted(e, i) /\ e[i].path = n
        BY Zenon, <1>2, <1>6 DEF ReadOf
      <3>2. i \in F /\ e[i].size > 0
        BY Zenon, <1>4, <2>2, <3>1 DEF IsWanted, EntryFits
      <3>3. \A j \in F : e[j].path = n => j = i
        BY Zenon, <1>4, <2>1, <3>1 DEF EntriesFit, IsWanted
      <3> QED
        BY Zenon, <3>1, <3>2, <3>3
    <2> QED
      BY Zenon, <1>2, <1>4, <2>1, <2>2, <2>3 DEF EntriesFit, EntryFits
  <1>7. ASSUME k <= MaxEntries,
               \A i \in DOMAIN e : safeArchivePath(e[i].path) /\ e[i].type \in {"file", "dir"},
               \A i \in F : e[i].size \in 0..MaxBinary /\ e[i].whole,
               total <= MaxExtracted,
               \A n \in Wanted : Once(n)
        PROVE  s.ok /\ s.seen = Wanted
    <2>1. ASSUME NEW i \in 1..k PROVE EntryFits(e, i)
      <3>1. IsWanted(e, i) => e[i].size > 0
        BY Zenon, <1>4, <1>7 DEF IsWanted
      <3> QED
        BY Zenon, <1>2, <1>4, <1>7, <3>1 DEF EntryFits, IsWanted
    <2>2. ASSUME NEW i \in 1..k, NEW j \in 1..k, IsWanted(e, i), IsWanted(e, j), e[i].path = e[j].path
          PROVE  i = j
      <3>1. PICK m \in F : \A l \in F : e[l].path = e[i].path => l = m
        BY Zenon, <1>7, <2>2 DEF IsWanted
      <3> QED
        BY Zenon, <1>4, <2>2, <3>1 DEF IsWanted
    <2>3. EntriesFit(e, k, total)
      BY Zenon, <1>7, <2>1, <2>2 DEF EntriesFit
    <2>4. s.ok
      BY Zenon, <1>2, <2>3 DEF ReadOf
    <2>5. ASSUME NEW n \in Wanted PROVE n \in s.seen
      <3>1. PICK i \in F : e[i].path = n
        BY Zenon, <1>7
      <3> QED
        BY Zenon, <1>2, <1>4, <2>4, <3>1 DEF ReadOf, IsWanted
    <2> QED
      BY Zenon, <1>3, <2>4, <2>5
  <1>8. readTarBinaries(e) <=>
          /\ k <= MaxEntries
          /\ \A i \in DOMAIN e : safeArchivePath(e[i].path) /\ e[i].type \in {"file", "dir"}
          /\ \A i \in F : e[i].size \in 0..MaxBinary /\ e[i].whole
          /\ total <= MaxExtracted
          /\ \A n \in Wanted : Once(n)
    <2> HIDE DEF Once
    <2> QED
      BY Zenon, <1>5, <1>6, <1>7
  <1> QED
    BY Zenon, <1>1, <1>8 DEF F

\* The checksums and the archive are accepted exactly when they are what they
\* should be, whatever was downloaded: one digest for the archive, and an
\* archive of safe entries within the limits that holds each executable once
\* (parseChecksum, readTarBinaries).
THEOREM JudgesDownloads == FeedSpec => []DownloadsAreJudged
  <1>1. FeedInit => AnswerInv
    <2> SUFFICES ASSUME FeedInit PROVE AnswerInv
      OBVIOUS
    <2>1. answer.kind = "none"
      BY Zenon DEF FeedInit, NoAnswer
    <2> QED
      BY Zenon, <2>1 DEF AnswerInv
  <1>2. AnswerInv /\ [FeedNext]_feedVars => AnswerInv'
    BY Zenon, AnswerStep
  <1>3. AnswerInv => DownloadsAreJudged
    <2> SUFFICES ASSUME AnswerInv PROVE DownloadsAreJudged
      OBVIOUS
    <2>1. ChecksumIsTheOnly
      <3> SUFFICES ASSUME answer.kind = "document" PROVE ChecksumIsTheOnly
        BY Zenon DEF ChecksumIsTheOnly
      <3>1. PICK d \in Documents : d = answer.body
        BY Zenon DEF AnswerInv
      <3> QED
        BY Zenon, <3>1, DocumentJudged DEF ChecksumIsTheOnly
    <2>2. ArchiveIsComplete
      <3> SUFFICES ASSUME answer.kind = "archive" PROVE ArchiveIsComplete
        BY Zenon DEF ArchiveIsComplete
      <3>1. answer.body \in Archives
        BY Zenon DEF AnswerInv
      <3>2. PICK e : e = answer.body.entries
        BY Zenon
      <3> QED
        BY Zenon, <3>1, <3>2, ArchiveJudged DEF ArchiveIsComplete
    <2> QED
      BY Zenon, <2>1, <2>2 DEF DownloadsAreJudged
  <1> QED
    BY <1>1, <1>2, <1>3, PTL DEF FeedSpec

-----------------------------------------------------------------------------
(* The replacement of the executables: the inductive invariant.               *)

Contents == Helpers \cup {Old, None}

Dirs == [target : [Names -> Contents], staged : [Helpers -> [Names -> Contents]],
         backup : [Helpers -> [Names -> Contents]], marker : [Helpers -> SUBSET Names]]

Forward == {"check", "backup", "aside", "install", "inside"}

Backward == {"rollback", "restore"}

\* Where the fields range; a helper at work is at one of the executables.
DirInv ==
    /\ dir \in images /\ images \subseteq Dirs
    /\ DOMAIN pc = Helpers
    /\ at \in [Helpers -> 0..Len(Targets)]
    /\ flags \in [Helpers -> [Names -> SUBSET {"backedUp", "installed"}]]
    /\ DOMAIN result = Helpers
    /\ \A h \in Helpers : pc[h] \in {"prepare", "commit"} \cup Forward \cup Backward => at[h] # 0

\* What the helper's locals say of the files that only it touches.
LocalFits(h) ==
    /\ pc[h] \in {"backup", "aside", "install"} => dir.staged[h][This(h)] = h
    /\ pc[h] \in {"idle", "prepare"} => \A t \in Names : flags[h][t] = {}
    /\ pc[h] \in {"aside", "install", "restore"} => "backedUp" \in flags[h][This(h)]
    /\ pc[h] \in Forward \cup Backward =>
         \A t \in Names : "backedUp" \in flags[h][t] => dir.backup[h][t] # None

LocalInv == \A h \in Helpers : LocalFits(h)

\* A helper that has moved t aside and will not take its backup away before t
\* is there again.
Keeper(h, t) ==
    /\ dir.backup[h][t] # None
    /\ \/ pc[h] \in {"rollback", "restore", "returned", "dead", "off"}
       \/ pc[h] \in {"aside", "install"} /\ t = This(h)

\* A missing executable is in the backup of such a helper, and in whatever a
\* power failure may leave it is in some backup.
KeptInv ==
    /\ \A t \in Names : dir.target[t] # None \/ \E h \in Helpers : Keeper(h, t)
    /\ SomewhereKept

Alone(h) == \A g \in Helpers \ {h} : pc[g] = "idle"

\* The files of t are as the flags of a helper that runs alone say.
Untouched(h, t) == dir.target[t] = Old /\ dir.backup[h][t] = None

FlagsFit(h, t) ==
    \/ flags[h][t] = {} /\ Untouched(h, t)
    \/ flags[h][t] = {"backedUp"} /\ dir.target[t] = None /\ dir.backup[h][t] = Old
    \/ flags[h][t] = {"backedUp", "installed"} /\ dir.target[t] = h /\ dir.backup[h][t] = Old

\* The roll-back is done with t.
RolledBack(h, t) == Untouched(h, t) \/ (result[h] = "incomplete" /\ dir.backup[h][t] = Old)

\* How far a helper that runs alone has come.
AloneFits(h) ==
    /\ pc[h] = "idle" \/ pc[h] = "prepare" \/ pc[h] \in Forward =>
         result[h] = "none" /\ \A t \in Names : FlagsFit(h, t)
    /\ pc[h] \in Forward => \A i \in DOMAIN Targets :
         /\ i < at[h] => flags[h][Targets[i]] = {"backedUp", "installed"}
         /\ i > at[h] => flags[h][Targets[i]] = {}
    /\ pc[h] \in {"check", "backup"} => flags[h][This(h)] = {}
    /\ pc[h] \in {"aside", "install"} => flags[h][This(h)] = {"backedUp"}
    /\ pc[h] = "inside" => flags[h][This(h)] = {"backedUp", "installed"}
    /\ pc[h] \in Backward =>
         /\ result[h] \in {"none", "incomplete"}
         /\ \A i \in DOMAIN Targets : /\ i < at[h] => FlagsFit(h, Targets[i])
                                      /\ i > at[h] => RolledBack(h, Targets[i])
    /\ pc[h] = "rollback" => FlagsFit(h, This(h))
    /\ pc[h] = "restore" => dir.backup[h][This(h)] = Old
    /\ pc[h] = "commit" \/ (pc[h] = "returned" /\ result[h] = "ok") =>
         \A t \in Names : dir.target[t] = h
    /\ pc[h] = "returned" /\ result[h] \in {"failed", "refused"} =>
         \A t \in Names : Untouched(h, t)
    /\ pc[h] = "returned" /\ result[h] = "incomplete" =>
         \A t \in Names : dir.target[t] = Old \/ dir.backup[h][t] = Old

HonestInv == \A h \in Helpers : Alone(h) => AloneFits(h)

ReplaceInv == DirInv /\ LocalInv /\ KeptInv /\ HonestInv

-----------------------------------------------------------------------------
(* What a step may change.                                                    *)

\* The directory e is d but for the target t, h's backup of t and h's staged
\* files.
Near(e, d, h, t) ==
    /\ e \in Dirs
    /\ \A s \in Names : s # t => e.target[s] = d.target[s]
    /\ \A g \in Helpers, s \in Names : g # h \/ s # t => e.backup[g][s] = d.backup[g][s]
    /\ \A g \in Helpers : g # h => e.staged[g] = d.staged[g]

\* A step of h at t: it touches its own files of t and its own locals.
Frame(h, t) ==
    /\ Near(dir', dir, h, t)
    /\ dir' \in images' /\ images' \subseteq Dirs
    /\ \A d \in images' : d \in images \/ (d.target = dir'.target /\ d.backup = dir'.backup)
    /\ DOMAIN pc' = Helpers /\ DOMAIN result' = Helpers
    /\ at' \in [Helpers -> 0..Len(Targets)]
    /\ flags' \in [Helpers -> [Names -> SUBSET {"backedUp", "installed"}]]
    /\ \A g \in Helpers : g # h =>
         /\ pc'[g] = pc[g] /\ at'[g] = at[g] /\ flags'[g] = flags[g] /\ result'[g] = result[g]

\* A step of h that leaves h's own part of the invariant true keeps all of it:
\* the target is there, or h keeps it, or others go on keeping it.
LEMMA StepOf ==
    ASSUME ReplaceInv, NEW h \in Helpers, NEW t \in Names, Frame(h, t),
           pc[h] \notin {"returned", "dead", "off"}, pc'[h] # "idle",
           pc'[h] \in {"prepare", "commit"} \cup Forward \cup Backward => at'[h] # 0,
           LocalFits(h)',
           pc[h] \in Backward => pc'[h] \in Backward \cup {"returned", "dead"},
           pc[h] \in {"aside", "install"} => This(h) = t,
           \/ dir'.target[t] # None
           \/ Keeper(h, t)'
           \/ dir'.target[t] = dir.target[t] /\ ~Keeper(h, t),
           Alone(h) => AloneFits(h)'
    PROVE  ReplaceInv'
<1>1. DirInv'
  BY Zenon DEF ReplaceInv, DirInv, Frame
<1>2. LocalInv'
  <2>1. ASSUME NEW g \in Helpers, g # h PROVE LocalFits(g)'
    <3>1. dir'.staged[g] = dir.staged[g] /\ \A s \in Names : dir'.backup[g][s] = dir.backup[g][s]
      BY Zenon, <2>1 DEF Frame, Near
    <3>2. pc'[g] = pc[g] /\ at'[g] = at[g] /\ flags'[g] = flags[g]
      BY Zenon, <2>1 DEF Frame
    <3>3. LocalFits(g)
      BY Zenon DEF ReplaceInv, LocalInv
    <3> QED BY <3>1, <3>2, <3>3 DEF LocalFits, This
  <2> QED BY Zenon, <2>1 DEF LocalInv
<1>3. \A s \in Names : dir'.target[s] # None \/ \E g \in Helpers : Keeper(g, s)'
  <2>1. ASSUME NEW g \in Helpers, g # h, NEW s \in Names, Keeper(g, s) PROVE Keeper(g, s)'
    <3>1. dir'.backup[g][s] = dir.backup[g][s] /\ pc'[g] = pc[g] /\ at'[g] = at[g]
      BY Zenon, <2>1 DEF Frame, Near
    <3> QED BY Zenon, <2>1, <3>1 DEF Keeper, This
  <2>2. ASSUME NEW s \in Names, s # t, Keeper(h, s) PROVE Keeper(h, s)'
    <3>1. dir'.backup[h][s] = dir.backup[h][s]
      BY Zenon, <2>2 DEF Frame, Near
    <3>2. pc[h] \in Backward
      BY Zenon, <2>2 DEF Keeper, Backward
    <3> QED BY Zenon, <2>2, <3>1, <3>2 DEF Keeper, Backward
  <2>3. \A s \in Names : dir.target[s] # None \/ \E g \in Helpers : Keeper(g, s)
    BY Zenon DEF ReplaceInv, KeptInv
  <2>4. ASSUME NEW s \in Names, s # t PROVE dir'.target[s] # None \/ \E g \in Helpers : Keeper(g, s)'
    <3>1. dir'.target[s] = dir.target[s]
      BY Zenon, <2>4 DEF Frame, Near
    <3> QED BY Zenon, <2>1, <2>2, <2>3, <2>4, <3>1
  <2>5. dir'.target[t] # None \/ \E g \in Helpers : Keeper(g, t)'
    BY Zenon, <2>1, <2>3
  <2> QED BY Zenon, <2>4, <2>5
<1>4. SomewhereKept'
  <2>1. \A s \in Names : dir'.target[s] # None \/ \E g \in Helpers : dir'.backup[g][s] # None
    BY Zenon, <1>3 DEF Keeper
  <2> QED BY <2>1 DEF SomewhereKept, Frame, ReplaceInv, KeptInv
<1>5. HonestInv'
  <2>1. ASSUME NEW g \in Helpers, Alone(g)' PROVE g = h /\ Alone(h)
    <3>1. g = h
      BY Zenon, <2>1 DEF Alone
    <3> QED BY Zenon, <2>1, <3>1 DEF Alone, Frame
  <2> QED BY Zenon, <2>1 DEF HonestInv
<1> QED BY Zenon, <1>1, <1>2, <1>3, <1>4, <1>5 DEF ReplaceInv, KeptInv

\* A helper at work is at an executable, and at no other.
LEMMA HereIs ==
    ASSUME Sane, DirInv, NEW h \in Helpers, at[h] # 0
    PROVE  /\ at[h] \in DOMAIN Targets /\ at[h] \in 1..Len(Targets)
           /\ This(h) \in Names
           /\ \A i \in DOMAIN Targets : Targets[i] = This(h) => i = at[h]
           /\ dir \in Dirs
BY DEF Sane, DirInv, This, Names

\* What the change to the locals of h leaves alone.
LEMMA Moves ==
    ASSUME DirInv, NEW h \in Helpers, NEW l, Go(h, l)
    PROVE  DOMAIN pc' = Helpers /\ pc'[h] = l /\ \A g \in Helpers : g # h => pc'[g] = pc[g]
BY Zenon DEF DirInv, Go

\* The same with the index.
LEMMA MovesAt ==
    ASSUME DirInv, NEW h \in Helpers, NEW l, NEW i \in 0..Len(Targets), GoAt(h, l, i)
    PROVE  /\ DOMAIN pc' = Helpers /\ pc'[h] = l /\ \A g \in Helpers : g # h => pc'[g] = pc[g]
           /\ at' \in [Helpers -> 0..Len(Targets)] /\ at'[h] = i
           /\ \A g \in Helpers : g # h => at'[g] = at[g]
<1>1. pc' = [pc EXCEPT ![h] = l] /\ at' = [at EXCEPT ![h] = i]
  BY Zenon DEF GoAt, Go
<1> QED BY Zenon, <1>1 DEF DirInv

\* The same with the result.
LEMMA Says ==
    ASSUME DirInv, NEW h \in Helpers, NEW said, Say(h, said)
    PROVE  DOMAIN result' = Helpers /\ result'[h] = said
           /\ \A g \in Helpers : g # h => result'[g] = result[g]
BY Zenon DEF DirInv, Say

\* The same with the flags.
LEMMA Marks ==
    ASSUME DirInv, NEW h \in Helpers, NEW t \in Names, NEW F \in SUBSET {"backedUp", "installed"},
           flags' = [flags EXCEPT ![h][t] = F]
    PROVE  /\ flags' \in [Helpers -> [Names -> SUBSET {"backedUp", "installed"}]]
           /\ flags'[h][t] = F
           /\ \A s \in Names : s # t => flags'[h][s] = flags[h][s]
           /\ \A g \in Helpers : g # h => flags'[g] = flags[g]
BY Zenon DEF DirInv

\* The pieces of Frame.
LEMMA FrameOf ==
    ASSUME DirInv, NEW h \in Helpers, NEW t \in Names, Near(dir', dir, h, t),
           dir' \in images', images' \subseteq Dirs,
           \A d \in images' : d \in images \/ (d.target = dir'.target /\ d.backup = dir'.backup),
           DOMAIN pc' = Helpers, \A g \in Helpers : g # h => pc'[g] = pc[g],
           \/ UNCHANGED at
           \/ /\ at' \in [Helpers -> 0..Len(Targets)]
              /\ \A g \in Helpers : g # h => at'[g] = at[g],
           \/ UNCHANGED flags
           \/ /\ flags' \in [Helpers -> [Names -> SUBSET {"backedUp", "installed"}]]
              /\ \A g \in Helpers : g # h => flags'[g] = flags[g],
           \/ UNCHANGED result
           \/ /\ DOMAIN result' = Helpers
              /\ \A g \in Helpers : g # h => result'[g] = result[g]
    PROVE  Frame(h, t)
BY Zenon DEF Frame, DirInv

\* A directory is near itself.
LEMMA NearSame ==
    ASSUME DirInv, NEW h, NEW t
    PROVE  Near(dir, dir, h, t) /\ dir \in Dirs
BY Zenon DEF Near, DirInv

\* Change adds a directory to what a power failure may leave.
LEMMA Changed ==
    ASSUME DirInv, NEW d \in Dirs, Change(d)
    PROVE  /\ dir' = d /\ dir' \in images' /\ images' \subseteq Dirs
           /\ \A e \in images' : e \in images \/ (e.target = dir'.target /\ e.backup = dir'.backup)
BY Zenon DEF DirInv, Change

\* A sync or nothing at all leaves what there was.
LEMMA Still ==
    ASSUME DirInv, SameDir \/ Synced
    PROVE  /\ dir' = dir /\ dir' \in images' /\ images' \subseteq Dirs
           /\ \A e \in images' : e \in images \/ (e.target = dir'.target /\ e.backup = dir'.backup)
BY Zenon DEF DirInv, SameDir, Synced

-----------------------------------------------------------------------------
(* The changes of the directory.                                              *)

\* A directory has four fields.
LEMMA Fields ==
    ASSUME NEW d \in Dirs
    PROVE  /\ d = [target |-> d.target, staged |-> d.staged, backup |-> d.backup, marker |-> d.marker]
           /\ d.target \in [Names -> Contents] /\ d.staged \in [Helpers -> [Names -> Contents]]
           /\ d.backup \in [Helpers -> [Names -> Contents]] /\ d.marker \in [Helpers -> SUBSET Names]
BY Zenon DEF Dirs

\* prepareReplacement creates the staged file.
LEMMA StagedIs ==
    ASSUME NEW d \in Dirs, NEW h \in Helpers, NEW t \in Names
    PROVE  LET e == [d EXCEPT !.staged[h][t] = h] IN
           /\ Near(e, d, h, t) /\ e.target = d.target /\ e.backup = d.backup
<1> DEFINE e == [d EXCEPT !.staged[h][t] = h]
<1>1. /\ e \in Dirs /\ e.target = d.target /\ e.backup = d.backup
      /\ \A g \in Helpers : g # h => e.staged[g] = d.staged[g]
  BY Zenon DEF Dirs, Contents
<1> HIDE DEF e
<1>2. Near(e, d, h, t)
  BY Zenon, <1>1 DEF Near
<1> QED BY Zenon, <1>1, <1>2 DEF e

\* The cleanup of the staged files leaves the others alone.
LEMMA UnstagedIs ==
    ASSUME NEW d \in Dirs, NEW h \in Helpers, NEW t \in Names, NEW e \in Unstaged(h, d)
    PROVE  Near(e, d, h, t) /\ e.target = d.target /\ e.backup = d.backup
<1>1. PICK kept \in SUBSET Names :
         e = [d EXCEPT !.staged[h] = [s \in Names |-> IF s \in kept THEN d.staged[h][s] ELSE None]]
  BY Zenon DEF Unstaged
<1>2. /\ e \in Dirs /\ e.target = d.target /\ e.backup = d.backup
      /\ \A g \in Helpers : g # h => e.staged[g] = d.staged[g]
  <2> DEFINE row == [s \in Names |-> IF s \in kept THEN d.staged[h][s] ELSE None]
             staged == [d.staged EXCEPT ![h] = row]
  <2>1. row \in [Names -> Contents]
    BY Fields DEF Contents
  <2>2. staged \in [Helpers -> [Names -> Contents]] /\ \A g \in Helpers : g # h => staged[g] = d.staged[g]
    <3> HIDE DEF row
    <3> QED BY Zenon, <2>1, Fields
  <2>3. e = [target |-> d.target, staged |-> staged, backup |-> d.backup, marker |-> d.marker]
    <3>1. e = [d EXCEPT !.staged = staged]
      BY Zenon, <1>1
    <3> HIDE DEF row, staged
    <3> QED BY <3>1, Fields
  <2> HIDE DEF row, staged
  <2> QED BY Zenon, <2>2, <2>3, Fields DEF Dirs
<1> QED BY Zenon, <1>2 DEF Near

\* The rename that moves the target aside.
LEMMA AsideIs ==
    ASSUME NEW d \in Dirs, NEW h \in Helpers, NEW t \in Names
    PROVE  LET e == [d EXCEPT !.backup[h][t] = d.target[t], !.target[t] = None] IN
           /\ Near(e, d, h, t) /\ e.target[t] = None /\ e.backup[h][t] = d.target[t]
           /\ e.staged = d.staged
<1> DEFINE e == [d EXCEPT !.backup[h][t] = d.target[t], !.target[t] = None]
<1>1. /\ e \in Dirs
      /\ e.target = [d.target EXCEPT ![t] = None]
      /\ e.backup = [d.backup EXCEPT ![h] = [d.backup[h] EXCEPT ![t] = d.target[t]]]
      /\ e.staged = d.staged
  BY Zenon DEF Dirs, Contents
<1>2. d.target \in [Names -> Contents] /\ d.backup \in [Helpers -> [Names -> Contents]]
  BY Zenon DEF Dirs
<1> HIDE DEF e
<1>3. Near(e, d, h, t) /\ e.target[t] = None /\ e.backup[h][t] = d.target[t]
  BY <1>1, <1>2 DEF Near
<1> QED BY Zenon, <1>1, <1>3 DEF e

\* The rename that moves the staged file in.
LEMMA InsideIs ==
    ASSUME NEW d \in Dirs, NEW h \in Helpers, NEW t \in Names
    PROVE  LET e == [d EXCEPT !.target[t] = d.staged[h][t], !.staged[h][t] = None] IN
           Near(e, d, h, t) /\ e.target[t] = d.staged[h][t] /\ e.backup = d.backup
<1> DEFINE e == [d EXCEPT !.target[t] = d.staged[h][t], !.staged[h][t] = None]
<1>1. /\ e \in Dirs
      /\ e.target = [d.target EXCEPT ![t] = d.staged[h][t]]
      /\ e.staged = [d.staged EXCEPT ![h] = [d.staged[h] EXCEPT ![t] = None]]
      /\ e.backup = d.backup
  <2> DEFINE target == [d.target EXCEPT ![t] = d.staged[h][t]]
             staged == [d.staged EXCEPT ![h] = [d.staged[h] EXCEPT ![t] = None]]
  <2>1. target \in [Names -> Contents] /\ staged \in [Helpers -> [Names -> Contents]]
    BY Fields DEF Contents
  <2>2. e = [target |-> target, staged |-> staged, backup |-> d.backup, marker |-> d.marker]
    <3> DEFINE first == [d EXCEPT !.target = target]
    <3>1. e = [first EXCEPT !.staged = staged]
      OBVIOUS
    <3>2. first = [target |-> target, staged |-> d.staged, backup |-> d.backup, marker |-> d.marker]
      <4> HIDE DEF target
      <4> QED BY Fields
    <3> HIDE DEF e, target, staged, first
    <3> QED BY Zenon, <3>1, <3>2
  <2> HIDE DEF target, staged, e
  <2>3. /\ e \in Dirs /\ e.target = target /\ e.staged = staged /\ e.backup = d.backup
    BY Zenon, <2>1, <2>2, Fields DEF Dirs
  <2> QED BY Zenon, <2>3 DEF target, staged
<1>2. d.target \in [Names -> Contents] /\ d.staged \in [Helpers -> [Names -> Contents]]
  BY Zenon DEF Dirs
<1> HIDE DEF e
<1>3. Near(e, d, h, t) /\ e.target[t] = d.staged[h][t]
  BY Zenon, <1>1, <1>2 DEF Near
<1> QED BY Zenon, <1>1, <1>3 DEF e

\* The removal of the new file.
LEMMA RemovedIs ==
    ASSUME NEW d \in Dirs, NEW h \in Helpers, NEW t \in Names
    PROVE  LET e == [d EXCEPT !.target[t] = None] IN
           Near(e, d, h, t) /\ e.backup = d.backup
<1> DEFINE e == [d EXCEPT !.target[t] = None]
<1>1. /\ e \in Dirs /\ e.target = [d.target EXCEPT ![t] = None]
      /\ e.staged = d.staged /\ e.backup = d.backup
  BY Zenon DEF Dirs, Contents
<1>2. d.target \in [Names -> Contents]
  BY Zenon DEF Dirs
<1> HIDE DEF e
<1>3. Near(e, d, h, t)
  BY Zenon, <1>1, <1>2 DEF Near
<1> QED BY Zenon, <1>1, <1>3 DEF e

\* The rename that moves the old file back.
LEMMA RestoredIs ==
    ASSUME NEW d \in Dirs, NEW h \in Helpers, NEW t \in Names
    PROVE  LET e == [d EXCEPT !.target[t] = d.backup[h][t], !.backup[h][t] = None] IN
           /\ Near(e, d, h, t) /\ e.target[t] = d.backup[h][t] /\ e.backup[h][t] = None
<1> DEFINE e == [d EXCEPT !.target[t] = d.backup[h][t], !.backup[h][t] = None]
<1>1. /\ e \in Dirs
      /\ e.target = [d.target EXCEPT ![t] = d.backup[h][t]]
      /\ e.backup = [d.backup EXCEPT ![h] = [d.backup[h] EXCEPT ![t] = None]]
      /\ e.staged = d.staged
  <2> DEFINE target == [d.target EXCEPT ![t] = d.backup[h][t]]
             backup == [d.backup EXCEPT ![h] = [d.backup[h] EXCEPT ![t] = None]]
  <2>1. target \in [Names -> Contents] /\ backup \in [Helpers -> [Names -> Contents]]
    BY Fields DEF Contents
  <2>2. e = [target |-> target, staged |-> d.staged, backup |-> backup, marker |-> d.marker]
    <3> DEFINE first == [d EXCEPT !.target = target]
    <3>1. e = [first EXCEPT !.backup = backup]
      OBVIOUS
    <3>2. first = [target |-> target, staged |-> d.staged, backup |-> d.backup, marker |-> d.marker]
      <4> HIDE DEF target
      <4> QED BY Fields
    <3> HIDE DEF e, target, backup, first
    <3> QED BY Zenon, <3>1, <3>2
  <2> HIDE DEF target, backup, e
  <2>3. e \in Dirs /\ e.target = target /\ e.backup = backup /\ e.staged = d.staged
    BY Zenon, <2>1, <2>2, Fields DEF Dirs
  <2> QED BY Zenon, <2>3 DEF target, backup
<1>2. d.target \in [Names -> Contents] /\ d.backup \in [Helpers -> [Names -> Contents]]
  BY DEF Dirs
<1> HIDE DEF e
<1>3. Near(e, d, h, t) /\ e.target[t] = d.backup[h][t] /\ e.backup[h][t] = None
  BY <1>1, <1>2 DEF Near
<1> QED BY Zenon, <1>1, <1>3 DEF e

\* The removal of a backup.
LEMMA CommittedIs ==
    ASSUME NEW d \in Dirs, NEW h \in Helpers, NEW t \in Names
    PROVE  LET e == [d EXCEPT !.backup[h][t] = None] IN
           Near(e, d, h, t) /\ e.target = d.target
<1> DEFINE e == [d EXCEPT !.backup[h][t] = None]
<1>1. /\ e \in Dirs /\ e.target = d.target /\ e.staged = d.staged
      /\ e.backup = [d.backup EXCEPT ![h] = [d.backup[h] EXCEPT ![t] = None]]
  BY Zenon DEF Dirs, Contents
<1>2. d.backup \in [Helpers -> [Names -> Contents]]
  BY Zenon DEF Dirs
<1> HIDE DEF e
<1>3. Near(e, d, h, t)
  BY <1>1, <1>2 DEF Near
<1> QED BY Zenon, <1>1, <1>3 DEF e

-----------------------------------------------------------------------------
(* The steps.                                                                 *)

\* What the flags say of another executable, or of one whose files are as they
\* were, is as true after a step as before.
LEMMA FitsSame ==
    ASSUME NEW h \in Helpers, NEW s \in Names,
           dir'.target[s] = dir.target[s], dir'.backup[h][s] = dir.backup[h][s]
    PROVE  /\ flags'[h][s] = flags[h][s] /\ FlagsFit(h, s) => FlagsFit(h, s)'
           /\ (result[h] = "incomplete" => result'[h] = "incomplete") /\ RolledBack(h, s)
                => RolledBack(h, s)'
BY Zenon DEF FlagsFit, RolledBack, Untouched

\* What the flags tell a helper that runs alone.
LEMMA FlagsTell ==
    ASSUME NEW h \in Helpers, NEW s \in Names, FlagsFit(h, s)
    PROVE  /\ "backedUp" \notin flags[h][s] => flags[h][s] = {} /\ Untouched(h, s)
           /\ "backedUp" \in flags[h][s] => dir.backup[h][s] = Old
           /\ "installed" \in flags[h][s] => dir.target[s] = h
BY Zenon DEF FlagsFit

\* A step that renames and removes nothing keeps every keeper.
LEMMA StepStill ==
    ASSUME ReplaceInv, NEW h \in Helpers, NEW t \in Names, Frame(h, t),
           dir'.target = dir.target, dir'.backup = dir.backup,
           pc[h] \notin {"returned", "dead", "off"}, pc'[h] # "idle",
           pc'[h] \in {"prepare", "commit"} \cup Forward \cup Backward => at'[h] # 0,
           LocalFits(h)',
           pc[h] \in Backward => pc'[h] \in Backward \cup {"returned", "dead"},
           pc[h] \in {"aside", "install"} =>
               This(h) = t /\ (\/ pc'[h] \in Backward \cup {"returned", "dead"}
                               \/ pc'[h] = "install" /\ at'[h] = at[h]),
           Alone(h) => AloneFits(h)'
    PROVE  ReplaceInv'
<1>1. ASSUME Keeper(h, t) PROVE Keeper(h, t)'
  BY Zenon, <1>1 DEF Keeper, Backward, This
<1> QED BY Zenon, <1>1, StepOf

\* LocalFits holds of a helper that has not begun to replace or has returned.
LEMMA LocalFar ==
    ASSUME NEW h \in Helpers, pc'[h] \in {"prepare", "returned", "dead", "commit"},
           pc'[h] = "prepare" => \A t \in Names : flags'[h][t] = {}
    PROVE  LocalFits(h)'
BY Zenon DEF LocalFits, Forward, Backward

\* Begin: a helper that is refused changes nothing, and the others begin at the
\* first executable.
LEMMA BeginStep ==
    ASSUME Sane, ReplaceInv, NEW h \in Helpers, Begin(h)
    PROVE  ReplaceInv'
<1> DEFINE t == Targets[1]
<1>0. DirInv /\ LocalFits(h) /\ t \in Names /\ Len(Targets) \in Nat /\ 1 <= Len(Targets)
  BY DEF ReplaceInv, LocalInv, Sane, Names
<1>1. pc[h] = "idle" /\ SameDir /\ UNCHANGED <<snap, flags>>
  BY Zenon DEF Begin
<1>2. /\ dir' = dir /\ dir' \in images' /\ images' \subseteq Dirs
      /\ \A e \in images' : e \in images \/ (e.target = dir'.target /\ e.backup = dir'.backup)
      /\ Near(dir', dir, h, t)
  BY Zenon, <1>0, <1>1, Still, NearSame
<1>3. ASSUME Alone(h)
      PROVE  result[h] = "none" /\ \A s \in Names : flags[h][s] = {} /\ Untouched(h, s)
  <2>1. AloneFits(h)
    BY Zenon, <1>3 DEF ReplaceInv, HonestInv
  <2>2. result[h] = "none" /\ \A s \in Names : FlagsFit(h, s)
    BY Zenon, <1>1, <2>1 DEF AloneFits
  <2>3. \A s \in Names : flags[h][s] = {}
    BY Zenon, <1>0, <1>1 DEF LocalFits
  <2> QED BY Zenon, <2>2, <2>3, FlagsTell
<1>4. ASSUME NEW s \in Names, Alone(h) PROVE FlagsFit(h, s)' /\ Untouched(h, s)'
  BY Zenon, <1>1, <1>2, <1>3, <1>4 DEF FlagsFit, Untouched
<1>5. CASE GoAt(h, "prepare", 1) /\ UNCHANGED result
  <2>1. pc'[h] = "prepare" /\ at'[h] = 1 /\ Frame(h, t)
    BY <1>0, <1>1, <1>2, <1>5, MovesAt, FrameOf
  <2>2. LocalFits(h)'
    BY Zenon, <1>0, <1>1, <2>1, LocalFar DEF LocalFits
  <2>3. Alone(h) => AloneFits(h)'
    <3>1. ASSUME Alone(h) PROVE result'[h] = "none" /\ \A s \in Names : FlagsFit(h, s)'
      BY Zenon, <1>3, <1>4, <1>5, <3>1
    <3> QED BY Zenon, <2>1, <3>1 DEF AloneFits, Forward, Backward
  <2> QED BY <1>0, <1>1, <1>2, <2>1, <2>2, <2>3, StepStill DEF Forward, Backward
<1>6. CASE Go(h, "returned") /\ UNCHANGED at /\ Say(h, "refused")
  <2>1. pc'[h] = "returned" /\ result'[h] = "refused" /\ Frame(h, t)
    BY Zenon, <1>0, <1>1, <1>2, <1>6, Moves, Says, FrameOf
  <2>2. LocalFits(h)'
    BY Zenon, <2>1, LocalFar
  <2>3. Alone(h) => AloneFits(h)'
    BY Zenon, <1>4, <2>1 DEF AloneFits, Forward, Backward
  <2> QED BY Zenon, <1>0, <1>1, <1>2, <2>1, <2>2, <2>3, StepStill DEF Forward, Backward
<1> QED BY Zenon, <1>5, <1>6 DEF Begin

\* prepareReplacement stages a file and touches no other.
LEMMA PrepareStep ==
    ASSUME Sane, ReplaceInv, NEW h \in Helpers, Prepare(h) \/ PrepareFails(h)
    PROVE  ReplaceInv'
<1> DEFINE t == This(h)
<1>0. DirInv /\ LocalFits(h) /\ pc[h] = "prepare" /\ at[h] # 0
  BY Zenon DEF ReplaceInv, LocalInv, DirInv, Prepare, PrepareFails
<1>1. /\ at[h] \in 1..Len(Targets) /\ t \in Names /\ dir \in Dirs
      /\ Len(Targets) \in Nat /\ 1 \in DOMAIN Targets
  BY <1>0, HereIs DEF Sane
<1>2. UNCHANGED flags /\ \A s \in Names : flags[h][s] = {}
  BY Zenon, <1>0 DEF Prepare, PrepareFails, LocalFits
<1>3. /\ Near(dir', dir, h, t) /\ dir'.target = dir.target /\ dir'.backup = dir.backup
      /\ dir' \in images' /\ images' \subseteq Dirs
      /\ \A e \in images' : e \in images \/ (e.target = dir'.target /\ e.backup = dir'.backup)
  <2>1. \E d \in Dirs : /\ Change(d) /\ Near(d, dir, h, t)
                        /\ d.target = dir.target /\ d.backup = dir.backup
    <3>1. CASE Prepare(h)
      <4>1. Change([dir EXCEPT !.staged[h][t] = h])
        BY Zenon, <3>1 DEF Prepare
      <4> DEFINE d == [dir EXCEPT !.staged[h][t] = h]
      <4>2. Near(d, dir, h, t) /\ d.target = dir.target /\ d.backup = dir.backup
        BY Zenon, <1>1, StagedIs
      <4> HIDE DEF d
      <4>3. d \in Dirs
        BY Zenon, <4>2 DEF Near
      <4> QED BY Zenon, <4>1, <4>2, <4>3 DEF d
    <3>2. CASE PrepareFails(h)
      BY <1>1, <3>2, UnstagedIs DEF PrepareFails, Near
    <3> QED BY Zenon, <3>1, <3>2
  <2> QED BY Zenon, <1>0, <2>1, Changed
<1>4. ASSUME Alone(h) PROVE result[h] = "none" /\ \A s \in Names : Untouched(h, s)' /\ FlagsFit(h, s)'
  <2>1. result[h] = "none" /\ \A s \in Names : FlagsFit(h, s) /\ Untouched(h, s)
    BY <1>0, <1>2, <1>4 DEF ReplaceInv, HonestInv, AloneFits, FlagsFit
  <2> QED BY Zenon, <1>2, <1>3, <2>1 DEF FlagsFit, Untouched
<1>5. CASE Prepare(h)
  <2>1. \/ GoAt(h, "check", 1)
        \/ at[h] # Len(Targets) /\ GoAt(h, "prepare", at[h] + 1)
    BY Zenon, <1>5 DEF Prepare
  <2>2. \E i \in 1..Len(Targets) : (GoAt(h, "check", 1) /\ i = 1) \/ GoAt(h, "prepare", i)
    BY <1>1, <2>1
  <2>3. PICK i \in 1..Len(Targets), l \in {"check", "prepare"} : GoAt(h, l, i) /\ (l = "check" => i = 1)
    BY Zenon, <2>2
  <2>4. i \in 0..Len(Targets) /\ i # 0 /\ UNCHANGED result
    BY <1>5 DEF Prepare
  <2>5. pc'[h] = l /\ at'[h] = i /\ Frame(h, t)
    BY <1>0, <1>1, <1>2, <1>3, <2>3, <2>4, MovesAt, FrameOf
  <2>6. LocalFits(h)'
    BY Zenon, <1>2, <2>5 DEF LocalFits, Forward, Backward
  <2>7. ASSUME Alone(h) PROVE AloneFits(h)'
    <3>1. result'[h] = "none" /\ \A s \in Names : FlagsFit(h, s)' /\ flags'[h][s] = {}
      BY Zenon, <1>2, <1>4, <2>4, <2>7
    <3>2. This(h)' \in Names /\ \A j \in DOMAIN Targets : Targets[j] \in Names
      BY <2>5, <1>1 DEF This, Names, Sane
    <3>3. pc'[h] = "check" => \A j \in DOMAIN Targets : ~(j < at'[h])
      BY <2>3, <2>5 DEF Sane
    <3> QED BY Zenon, <2>5, <3>1, <3>2, <3>3 DEF AloneFits, Forward, Backward
  <2> QED BY Zenon, <1>0, <1>1, <1>3, <2>4, <2>5, <2>6, <2>7, StepStill DEF Forward, Backward
<1>6. CASE PrepareFails(h)
  <2>1. Go(h, "returned") /\ Say(h, "failed") /\ UNCHANGED at
    BY Zenon, <1>6 DEF PrepareFails
  <2>2. pc'[h] = "returned" /\ result'[h] = "failed" /\ Frame(h, t)
    BY <1>0, <1>1, <1>2, <1>3, <2>1, Moves, Says, FrameOf
  <2>3. LocalFits(h)'
    BY Zenon, <2>2, LocalFar
  <2>4. Alone(h) => AloneFits(h)'
    BY Zenon, <1>4, <2>2 DEF AloneFits, Forward, Backward
  <2> QED BY Zenon, <1>0, <1>1, <1>3, <2>2, <2>3, <2>4, StepStill DEF Forward, Backward
<1> QED BY Zenon, <1>5, <1>6

\* Where a helper that fails enters the roll-back.
LEMMA FailIs ==
    ASSUME Sane, DirInv, NEW h \in Helpers, Fail(h)
    PROVE  /\ DOMAIN pc' = Helpers /\ pc'[h] = "rollback"
           /\ \A g \in Helpers : g # h => pc'[g] = pc[g]
           /\ at' \in [Helpers -> 0..Len(Targets)] /\ at'[h] = Len(Targets) /\ at'[h] # 0
           /\ \A g \in Helpers : g # h => at'[g] = at[g]
<1>1. Len(Targets) \in 0..Len(Targets) /\ Len(Targets) # 0
  BY DEF Sane
<1> QED BY <1>1, MovesAt DEF Fail

\* A failure between two replacements leaves every file as the flags say it is.
LEMMA FailStep ==
    ASSUME Sane, ReplaceInv, NEW h \in Helpers, pc[h] \in Forward, Fail(h),
           SameDir \/ Synced, SameLocals
    PROVE  ReplaceInv'
<1> DEFINE t == This(h)
<1>0. DirInv /\ LocalFits(h) /\ at[h] # 0
  BY Zenon DEF ReplaceInv, LocalInv, DirInv
<1>1. t \in Names /\ dir \in Dirs /\ Len(Targets) \in Nat
  BY <1>0, HereIs DEF Sane
<1>2. dir' = dir /\ UNCHANGED <<flags, result>> /\ pc'[h] = "rollback" /\ at'[h] = Len(Targets) /\ at'[h] # 0
  BY Zenon, <1>0, Still, FailIs DEF SameLocals
<1>3. Frame(h, t)
  BY Zenon, <1>0, <1>1, <1>2, Still, NearSame, FailIs, FrameOf DEF SameLocals
<1>4. LocalFits(h)'
  BY Zenon, <1>0, <1>2 DEF LocalFits, Backward, Forward
<1>5. ASSUME Alone(h) PROVE AloneFits(h)'
  <2>1. result'[h] = "none" /\ \A s \in Names : FlagsFit(h, s)'
    <3>1. result[h] = "none" /\ \A s \in Names : FlagsFit(h, s)
      BY Zenon, <1>5 DEF ReplaceInv, HonestInv, AloneFits
    <3> QED BY Zenon, <1>2, <3>1, FitsSame
  <2>2. This(h)' \in Names /\ \A i \in DOMAIN Targets : Targets[i] \in Names /\ ~(i > at'[h])
    BY <1>1, <1>2 DEF This, Names, Sane
  <2> QED BY Zenon, <1>2, <2>1, <2>2 DEF AloneFits, Forward, Backward
<1> QED BY Zenon, <1>0, <1>1, <1>2, <1>3, <1>4, <1>5, StepStill DEF Forward, Backward

\* A check that passes leads to the next rename.
LEMMA CheckStep ==
    ASSUME Sane, ReplaceInv, NEW h \in Helpers, CheckTarget(h) \/ CheckBackup(h)
    PROVE  ReplaceInv'
<1> DEFINE t == This(h)
<1>0. /\ DirInv /\ LocalFits(h) /\ at[h] # 0 /\ pc[h] \in {"check", "aside"}
      /\ (SameDir \/ Synced) /\ SameLocals
  BY Zenon DEF ReplaceInv, LocalInv, DirInv, CheckTarget, CheckBackup, Forward
<1>1. t \in Names /\ dir \in Dirs
  BY Zenon, <1>0, HereIs
<1>2. CASE Fail(h)
  BY Zenon, <1>0, <1>2, FailStep DEF Forward
<1>3. ASSUME NEW l, l = IF pc[h] = "check" THEN "backup" ELSE "install", Go(h, l), UNCHANGED at,
             pc[h] = "check" => dir.staged[h][t] = h
      PROVE  ReplaceInv'
  <2>1. dir' = dir /\ UNCHANGED <<flags, result, at>> /\ pc'[h] = l
    BY Zenon, <1>0, <1>3, Still, Moves DEF SameLocals
  <2>2. Frame(h, t)
    BY Zenon, <1>0, <1>1, <1>3, <2>1, Still, NearSame, Moves, FrameOf
  <2>3. LocalFits(h)'
    BY Zenon, <1>0, <1>3, <2>1 DEF LocalFits, Backward, Forward, This
  <2>4. ASSUME Alone(h) PROVE AloneFits(h)'
    <3>1. AloneFits(h)
      BY Zenon, <2>4 DEF ReplaceInv, HonestInv
    <3>2. result'[h] = "none" /\ \A s \in Names : FlagsFit(h, s)'
      BY Zenon, <1>0, <2>1, <3>1, FitsSame DEF AloneFits, Forward
    <3> QED BY Zenon, <1>0, <1>3, <2>1, <3>1, <3>2 DEF AloneFits, Forward, Backward, This
  <2> QED BY Zenon, <1>0, <1>1, <1>3, <2>1, <2>2, <2>3, <2>4, StepStill DEF Forward, Backward
<1>4. \/ Fail(h)
      \/ pc[h] = "check" /\ dir.staged[h][t] = h /\ Go(h, "backup") /\ UNCHANGED at
      \/ pc[h] = "aside" /\ Go(h, "install") /\ UNCHANGED at
  BY Zenon DEF CheckTarget, CheckBackup
<1> QED BY Zenon, <1>2, <1>3, <1>4

\* The old file is moved aside: h keeps it from now on.
LEMMA BackupStep ==
    ASSUME Sane, ReplaceInv, NEW h \in Helpers, Backup(h)
    PROVE  ReplaceInv'
<1> DEFINE t == This(h)
           d == [dir EXCEPT !.backup[h][t] = dir.target[t], !.target[t] = None]
<1>0. DirInv /\ LocalFits(h) /\ at[h] # 0 /\ pc[h] = "backup"
  BY Zenon DEF ReplaceInv, LocalInv, DirInv, Backup, Forward
<1>1. /\ t \in Names /\ dir \in Dirs
      /\ \A i \in DOMAIN Targets : Targets[i] \in Names /\ (Targets[i] = t => i = at[h])
  BY Zenon, <1>0, HereIs DEF Names
<1>2. /\ Change(d) /\ flags' = [flags EXCEPT ![h][t] = {"backedUp"}] /\ Go(h, "aside")
      /\ UNCHANGED <<at, result>> /\ dir.target[t] # None
  BY Zenon DEF Backup
<1>3. /\ Near(d, dir, h, t) /\ d.target[t] = None /\ d.backup[h][t] = dir.target[t]
      /\ d.staged = dir.staged
  BY Zenon, <1>1, AsideIs
<1> HIDE DEF d
<1>4. /\ dir' = d /\ dir' \in images' /\ images' \subseteq Dirs
      /\ \A e \in images' : e \in images \/ (e.target = dir'.target /\ e.backup = dir'.backup)
  BY Zenon, <1>0, <1>2, <1>3, Changed DEF Near
<1>5. /\ flags' \in [Helpers -> [Names -> SUBSET {"backedUp", "installed"}]]
      /\ flags'[h][t] = {"backedUp"}
      /\ \A s \in Names : s # t => flags'[h][s] = flags[h][s]
      /\ \A g \in Helpers : g # h => flags'[g] = flags[g]
  BY Zenon, <1>0, <1>1, <1>2, Marks
<1>6. pc'[h] = "aside" /\ at'[h] = at[h] /\ This(h)' = t
  BY Zenon, <1>0, <1>2, Moves DEF This
<1>7. Frame(h, t)
  BY Zenon, <1>0, <1>1, <1>2, <1>3, <1>4, <1>5, Moves, FrameOf
<1>8. LocalFits(h)'
  <2>1. ASSUME NEW s \in Names, "backedUp" \in flags'[h][s] PROVE dir'.backup[h][s] # None
    <3>1. CASE s = t
      BY Zenon, <1>2, <1>3, <1>4, <3>1
    <3>2. CASE s # t
      BY Zenon, <1>0, <1>3, <1>4, <1>5, <2>1, <3>2 DEF LocalFits, Forward, Near
    <3> QED BY Zenon, <3>1, <3>2
  <2>2. dir'.staged[h][t] = h
    BY Zenon, <1>0, <1>3, <1>4 DEF LocalFits
  <2> QED BY Zenon, <1>5, <1>6, <2>1, <2>2 DEF LocalFits
<1>9. Keeper(h, t)'
  BY Zenon, <1>2, <1>3, <1>4, <1>6 DEF Keeper
<1>10. ASSUME Alone(h) PROVE AloneFits(h)'
  <2>1. AloneFits(h)
    BY <1>10 DEF ReplaceInv, HonestInv
  <2>2. result'[h] = "none" /\ flags[h][t] = {} /\ \A s \in Names : FlagsFit(h, s)
    BY Zenon, <1>0, <1>2, <2>1 DEF AloneFits, Forward
  <2>3. ASSUME NEW s \in Names PROVE FlagsFit(h, s)'
    <3>1. CASE s = t
      BY Zenon, <1>1, <1>3, <1>4, <1>5, <2>2, <3>1, FlagsTell DEF FlagsFit, Untouched
    <3>2. CASE s # t
      <4>1. dir'.target[s] = dir.target[s] /\ dir'.backup[h][s] = dir.backup[h][s]
        BY Zenon, <1>3, <1>4, <3>2 DEF Near
      <4> QED BY Zenon, <1>5, <2>2, <3>2, <4>1, FitsSame
    <3> QED BY Zenon, <3>1, <3>2
  <2>4. \A i \in DOMAIN Targets : i # at[h] => flags'[h][Targets[i]] = flags[h][Targets[i]]
    BY Zenon, <1>1, <1>5
  <2>5. \A i \in DOMAIN Targets : /\ i < at'[h] => flags'[h][Targets[i]] = {"backedUp", "installed"}
                                  /\ i > at'[h] => flags'[h][Targets[i]] = {}
    <3>1. at[h] \in Nat /\ \A i \in DOMAIN Targets : i \in Nat
      BY <1>0 DEF DirInv, Sane
    <3>2. \A i \in DOMAIN Targets : /\ i < at[h] => flags[h][Targets[i]] = {"backedUp", "installed"}
                                    /\ i > at[h] => flags[h][Targets[i]] = {}
      BY Zenon, <1>0, <2>1 DEF AloneFits, Forward
    <3> QED BY Zenon, <1>6, <2>4, <3>1, <3>2
  <2> QED BY Zenon, <1>5, <1>6, <2>2, <2>3, <2>5 DEF AloneFits, Forward, Backward
<1> QED BY Zenon, <1>0, <1>1, <1>6, <1>7, <1>8, <1>9, <1>10, StepOf DEF Forward, Backward

\* The new file is moved in: the target is there again.
LEMMA InstallStep ==
    ASSUME Sane, ReplaceInv, NEW h \in Helpers, Install(h)
    PROVE  ReplaceInv'
<1> DEFINE t == This(h)
           d == [dir EXCEPT !.target[t] = dir.staged[h][t], !.staged[h][t] = None]
<1>0. DirInv /\ LocalFits(h) /\ at[h] # 0 /\ pc[h] = "install"
  BY Zenon DEF ReplaceInv, LocalInv, DirInv, Install, Forward
<1>1. /\ t \in Names /\ dir \in Dirs
      /\ \A i \in DOMAIN Targets : Targets[i] \in Names /\ (Targets[i] = t => i = at[h])
  BY Zenon, <1>0, HereIs DEF Names
<1>2. /\ Change(d) /\ flags' = [flags EXCEPT ![h][t] = {"backedUp", "installed"}] /\ Go(h, "inside")
      /\ UNCHANGED <<at, result>>
  BY Zenon DEF Install
<1>3. Near(d, dir, h, t) /\ d.target[t] = dir.staged[h][t] /\ d.backup = dir.backup
  BY Zenon, <1>1, InsideIs
<1> HIDE DEF d
<1>4. /\ dir' = d /\ dir' \in images' /\ images' \subseteq Dirs
      /\ \A e \in images' : e \in images \/ (e.target = dir'.target /\ e.backup = dir'.backup)
  BY Zenon, <1>0, <1>2, <1>3, Changed DEF Near
<1>5. /\ flags' \in [Helpers -> [Names -> SUBSET {"backedUp", "installed"}]]
      /\ flags'[h][t] = {"backedUp", "installed"}
      /\ \A s \in Names : s # t => flags'[h][s] = flags[h][s]
      /\ \A g \in Helpers : g # h => flags'[g] = flags[g]
  BY Zenon, <1>0, <1>1, <1>2, Marks
<1>6. pc'[h] = "inside" /\ at'[h] = at[h] /\ This(h)' = t
  BY Zenon, <1>0, <1>2, Moves DEF This
<1>7. Frame(h, t)
  BY Zenon, <1>0, <1>1, <1>2, <1>3, <1>4, <1>5, Moves, FrameOf
<1>8. LocalFits(h)'
  <2>1. ASSUME NEW s \in Names, "backedUp" \in flags'[h][s] PROVE dir'.backup[h][s] # None
    BY Zenon, <1>0, <1>3, <1>4, <1>5, <2>1 DEF LocalFits, Forward
  <2> QED BY Zenon, <1>6, <2>1 DEF LocalFits
<1>9. dir'.target[t] = h /\ h # None
  BY Zenon, <1>0, <1>3, <1>4 DEF LocalFits, Sane
<1>10. ASSUME Alone(h) PROVE AloneFits(h)'
  <2>1. AloneFits(h)
    BY <1>10 DEF ReplaceInv, HonestInv
  <2>2. result'[h] = "none" /\ flags[h][t] = {"backedUp"} /\ \A s \in Names : FlagsFit(h, s)
    BY Zenon, <1>0, <1>2, <2>1 DEF AloneFits, Forward
  <2>3. ASSUME NEW s \in Names PROVE FlagsFit(h, s)'
    <3>1. CASE s = t
      <4>1. dir.backup[h][t] = Old
        BY Zenon, <1>1, <2>2, FlagsTell
      <4> QED BY Zenon, <1>3, <1>4, <1>5, <1>9, <3>1, <4>1 DEF FlagsFit
    <3>2. CASE s # t
      <4>1. dir'.target[s] = dir.target[s] /\ dir'.backup[h][s] = dir.backup[h][s]
        BY Zenon, <1>3, <1>4, <3>2 DEF Near
      <4> QED BY Zenon, <1>5, <2>2, <3>2, <4>1, FitsSame
    <3> QED BY <3>1, <3>2
  <2>4. \A i \in DOMAIN Targets : i # at[h] => flags'[h][Targets[i]] = flags[h][Targets[i]]
    BY Zenon, <1>1, <1>5
  <2>5. \A i \in DOMAIN Targets : /\ i < at'[h] => flags'[h][Targets[i]] = {"backedUp", "installed"}
                                  /\ i > at'[h] => flags'[h][Targets[i]] = {}
    <3>1. at[h] \in Nat /\ \A i \in DOMAIN Targets : i \in Nat
      BY <1>0 DEF DirInv, Sane
    <3>2. \A i \in DOMAIN Targets : /\ i < at[h] => flags[h][Targets[i]] = {"backedUp", "installed"}
                                    /\ i > at[h] => flags[h][Targets[i]] = {}
      BY Zenon, <1>0, <2>1 DEF AloneFits, Forward
    <3> QED BY <1>6, <2>4, <3>1, <3>2
  <2> QED BY Zenon, <1>5, <1>6, <2>2, <2>3, <2>5 DEF AloneFits, Forward, Backward
<1> QED BY Zenon, <1>0, <1>1, <1>6, <1>7, <1>8, <1>9, <1>10, StepOf DEF Forward, Backward

\* After the last file is in, and seen to be, all of them are.
LEMMA InstalledStep ==
    ASSUME Sane, ReplaceInv, NEW h \in Helpers, CheckInstalled(h)
    PROVE  ReplaceInv'
<1> DEFINE t == This(h)
<1>0. DirInv /\ LocalFits(h) /\ at[h] # 0 /\ pc[h] = "inside" /\ Synced /\ SameLocals
  BY Zenon DEF ReplaceInv, LocalInv, DirInv, CheckInstalled, Forward
<1>1. /\ t \in Names /\ dir \in Dirs /\ at[h] \in 1..Len(Targets) /\ Len(Targets) \in Nat
      /\ DOMAIN Targets = 1..Len(Targets) /\ \A i \in DOMAIN Targets : Targets[i] \in Names
  BY <1>0, HereIs DEF Sane, Names
<1>2. CASE Fail(h)
  BY Zenon, <1>0, <1>2, FailStep DEF Forward
<1>3. dir' = dir /\ UNCHANGED <<flags, result>>
  BY Zenon, <1>0, Still DEF SameLocals
<1>4. ASSUME Alone(h)
      PROVE  /\ result'[h] = "none" /\ \A s \in Names : FlagsFit(h, s) /\ FlagsFit(h, s)'
             /\ \A i \in DOMAIN Targets :
                  /\ i <= at[h] => flags[h][Targets[i]] = {"backedUp", "installed"}
                  /\ i > at[h] => flags[h][Targets[i]] = {}
  <2>1. AloneFits(h)
    BY <1>4 DEF ReplaceInv, HonestInv
  <2>2. result'[h] = "none" /\ \A s \in Names : FlagsFit(h, s)
    BY Zenon, <1>0, <1>3, <2>1 DEF AloneFits, Forward
  <2>3. \A s \in Names : FlagsFit(h, s)'
    BY Zenon, <1>3, <2>2, FitsSame
  <2>4. \A i \in DOMAIN Targets : /\ i < at[h] => flags[h][Targets[i]] = {"backedUp", "installed"}
                                  /\ i > at[h] => flags[h][Targets[i]] = {}
    BY Zenon, <1>0, <2>1 DEF AloneFits, Forward
  <2>5. flags[h][Targets[at[h]]] = {"backedUp", "installed"}
    BY Zenon, <1>0, <2>1 DEF AloneFits, This
  <2>6. \A i \in DOMAIN Targets : i <= at[h] => i < at[h] \/ i = at[h]
    BY <1>1
  <2> QED BY Zenon, <2>2, <2>3, <2>4, <2>5, <2>6
<1>5. CASE at[h] < Len(Targets) /\ GoAt(h, "check", at[h] + 1)
  <2>0. at[h] + 1 \in 0..Len(Targets) /\ at[h] + 1 # 0 /\ at[h] + 1 \in DOMAIN Targets
    BY <1>1, <1>5
  <2>1. pc'[h] = "check" /\ at'[h] = at[h] + 1 /\ Frame(h, t)
    BY Zenon, <1>0, <1>1, <1>3, <1>5, <2>0, Still, NearSame, MovesAt, FrameOf
  <2>2. LocalFits(h)'
    BY Zenon, <1>0, <1>3, <2>1 DEF LocalFits, Forward, Backward
  <2>3. ASSUME Alone(h) PROVE AloneFits(h)'
    <3>1. flags'[h][This(h)'] = {}
      BY <1>1, <1>3, <1>4, <2>0, <2>1, <2>3 DEF This
    <3>2. \A i \in DOMAIN Targets : /\ i < at'[h] => flags'[h][Targets[i]] = {"backedUp", "installed"}
                                    /\ i > at'[h] => flags'[h][Targets[i]] = {}
      BY <1>1, <1>3, <1>4, <2>1, <2>3
    <3> QED BY Zenon, <1>4, <2>1, <2>3, <3>1, <3>2 DEF AloneFits, Forward, Backward
  <2> QED BY Zenon, <1>0, <1>1, <1>3, <2>0, <2>1, <2>2, <2>3, StepStill DEF Forward, Backward
<1>6. CASE at[h] = Len(Targets) /\ GoAt(h, "commit", 1)
  <2>0. 1 \in 0..Len(Targets) /\ 1 # 0
    BY <1>1, <1>6
  <2>1. pc'[h] = "commit" /\ at'[h] = 1 /\ Frame(h, t)
    BY <1>0, <1>1, <1>3, <1>6, <2>0, Still, NearSame, MovesAt, FrameOf
  <2>2. LocalFits(h)'
    BY Zenon, <2>1, LocalFar
  <2>3. ASSUME Alone(h) PROVE AloneFits(h)'
    <3>1. ASSUME NEW s \in Names PROVE dir'.target[s] = h
      <4>1. PICK i \in DOMAIN Targets : s = Targets[i]
        BY Zenon DEF Names
      <4>2. i <= at[h]
        BY <1>1, <1>6
      <4> QED BY Zenon, <1>3, <1>4, <2>3, <4>1, <4>2, FlagsTell
    <3> QED BY Zenon, <2>1, <3>1 DEF AloneFits, Forward, Backward
  <2> QED BY Zenon, <1>0, <1>1, <1>3, <2>0, <2>1, <2>2, <2>3, StepStill DEF Forward, Backward
<1> QED BY <1>1, <1>2, <1>5, <1>6 DEF CheckInstalled

\* Removing staged files at the end of the loop leaves targets and backups alone.
LEMMA SweptIs ==
    ASSUME Sane, DirInv, NEW h \in Helpers, NEW t \in Names, NEW d, Near(d, dir, h, t),
           NEW e \in Swept(h, d)
    PROVE  /\ Near(e, dir, h, t) /\ e \in Dirs /\ d \in Dirs
           /\ e.target = d.target /\ e.backup = d.backup
<1>1. d \in Dirs
  BY Zenon DEF Near
<1>2. Near(e, d, h, t) /\ e.target = d.target /\ e.backup = d.backup
  <2>1. CASE e = d
    BY Zenon, <1>1, <2>1 DEF Near
  <2>2. CASE e \in Unstaged(h, d)
    BY Zenon, <1>1, <2>2, UnstagedIs
  <2> QED BY Zenon, <2>1, <2>2 DEF Swept
<1> QED BY <1>1, <1>2 DEF Near

\* The step touches nothing but t and leaves it at its place or where it was.
Settles(h, t) ==
    /\ Near(dir', dir, h, t) /\ dir' \in images' /\ images' \subseteq Dirs
    /\ \A e \in images' : e \in images \/ (e.target = dir'.target /\ e.backup = dir'.backup)
    /\ flags' \in [Helpers -> [Names -> SUBSET {"backedUp", "installed"}]]
    /\ \A g \in Helpers : g # h => flags'[g] = flags[g]
    /\ \A s \in Names : s # t => flags'[h][s] = flags[h][s]
    /\ "backedUp" \in flags'[h][t] => dir'.backup[h][t] # None
    /\ \/ dir'.target[t] # None
       \/ dir'.target[t] = dir.target[t] /\ dir'.backup[h][t] = dir.backup[h][t]

\* A helper that runs alone answers what became of t.
Answers(h, t, said) ==
    Alone(h) => /\ result[h] = "incomplete" => said = "incomplete"
                /\ said \in {"none", "incomplete"}
                /\ \/ dir'.target[t] = Old /\ dir'.backup[h][t] = None
                   \/ said = "incomplete" /\ dir'.backup[h][t] = Old

\* A step of the roll-back that leaves t as it should be goes on to the
\* executable before it, or ends with the result the steps earned.
LEMMA PreviousStep ==
    ASSUME Sane, ReplaceInv, NEW h \in Helpers, NEW said, pc[h] \in Backward, Previous(h, said),
           NEW t \in Names, t = This(h), Settles(h, t), Answers(h, t, said)
    PROVE  ReplaceInv'
<1>0. DirInv /\ LocalFits(h) /\ at[h] # 0
  BY Zenon DEF ReplaceInv, LocalInv, DirInv
<1>1. /\ at[h] \in 1..Len(Targets) /\ Len(Targets) \in Nat /\ DOMAIN Targets = 1..Len(Targets)
      /\ \A i \in DOMAIN Targets : Targets[i] \in Names /\ (Targets[i] = t => i = at[h])
  BY <1>0, HereIs DEF Sane, Names
<1>2. ASSUME NEW s \in Names, s # t
      PROVE  /\ dir'.target[s] = dir.target[s] /\ dir'.backup[h][s] = dir.backup[h][s]
             /\ flags'[h][s] = flags[h][s]
  BY Zenon, <1>2 DEF Near, Settles
<1>3. ASSUME NEW s \in Names, "backedUp" \in flags'[h][s] PROVE dir'.backup[h][s] # None
  <2>1. CASE s = t
    BY Zenon, <1>3, <2>1 DEF Settles
  <2>2. CASE s # t
    BY Zenon, <1>0, <1>2, <1>3, <2>2 DEF LocalFits
  <2> QED BY Zenon, <2>1, <2>2
<1>4. ASSUME Alone(h)
      PROVE  \A i \in DOMAIN Targets :
               /\ i < at[h] => FlagsFit(h, Targets[i])'
               /\ i >= at[h] => \/ Untouched(h, Targets[i])'
                                \/ said = "incomplete" /\ dir'.backup[h][Targets[i]] = Old
  <2>1. AloneFits(h)
    BY Zenon, <1>4 DEF ReplaceInv, HonestInv
  <2>2. \A i \in DOMAIN Targets : /\ i < at[h] => FlagsFit(h, Targets[i])
                                  /\ i > at[h] => RolledBack(h, Targets[i])
    BY Zenon, <2>1 DEF AloneFits
  <2>3. ASSUME NEW i \in DOMAIN Targets, i < at[h] PROVE FlagsFit(h, Targets[i])'
    <3>1. Targets[i] \in Names /\ Targets[i] # t
      BY <1>1, <2>3
    <3> QED BY Zenon, <1>2, <2>2, <2>3, <3>1, FitsSame
  <2>4. ASSUME NEW i \in DOMAIN Targets, i > at[h]
        PROVE  Untouched(h, Targets[i])' \/ (said = "incomplete" /\ dir'.backup[h][Targets[i]] = Old)
    <3>1. Targets[i] \in Names /\ Targets[i] # t
      BY <1>1, <2>4
    <3>2. result[h] = "incomplete" => said = "incomplete"
      BY Zenon, <1>4 DEF Answers
    <3> QED BY Zenon, <1>2, <2>2, <2>4, <3>1, <3>2 DEF RolledBack, Untouched
  <2>5. \A i \in DOMAIN Targets : i >= at[h] => i > at[h] \/ i = at[h]
    BY <1>1
  <2>6. Targets[at[h]] = t /\ (Untouched(h, t)' \/ (said = "incomplete" /\ dir'.backup[h][t] = Old))
    BY Zenon, <1>4 DEF This, Answers, Untouched
  <2> QED BY Zenon, <2>3, <2>4, <2>5, <2>6
<1>5. CASE at[h] > 1 /\ GoAt(h, "rollback", at[h] - 1) /\ Say(h, said)
  <2>0. at[h] - 1 \in 0..Len(Targets) /\ at[h] - 1 # 0 /\ at[h] - 1 \in DOMAIN Targets
    BY <1>1, <1>5
  <2>1. pc'[h] = "rollback" /\ at'[h] = at[h] - 1 /\ result'[h] = said /\ Frame(h, t)
    <3>1. /\ DOMAIN pc' = Helpers /\ pc'[h] = "rollback" /\ \A g \in Helpers : g # h => pc'[g] = pc[g]
          /\ at' \in [Helpers -> 0..Len(Targets)] /\ at'[h] = at[h] - 1
          /\ \A g \in Helpers : g # h => at'[g] = at[g]
      BY Zenon, <1>0, <1>5, <2>0, MovesAt
    <3>2. /\ DOMAIN result' = Helpers /\ result'[h] = said
          /\ \A g \in Helpers : g # h => result'[g] = result[g]
      BY Zenon, <1>0, <1>5, Says
    <3> QED BY Zenon, <1>0, <3>1, <3>2, FrameOf DEF Settles
  <2>2. LocalFits(h)'
    BY Zenon, <1>3, <2>1 DEF LocalFits
  <2>3. ASSUME Alone(h) PROVE AloneFits(h)'
    <3>1. \A i \in DOMAIN Targets : /\ i < at'[h] => FlagsFit(h, Targets[i])'
                                    /\ i > at'[h] => RolledBack(h, Targets[i])'
      <4>1. \A i \in DOMAIN Targets : (i < at'[h] => i < at[h]) /\ (i > at'[h] => i >= at[h])
        BY <1>1, <2>1
      <4> QED BY Zenon, <1>4, <2>1, <2>3, <4>1 DEF RolledBack
    <3>2. FlagsFit(h, This(h))'
      <4>1. at[h] - 1 < at[h]
        BY <1>1
      <4> QED BY Zenon, <1>4, <2>0, <2>1, <2>3, <4>1 DEF This, FlagsFit, Untouched
    <3>3. said \in {"none", "incomplete"}
      BY Zenon, <2>3 DEF Answers
    <3> QED BY Zenon, <2>1, <3>1, <3>2, <3>3 DEF AloneFits, Forward, Backward
  <2>4. \/ dir'.target[t] # None
        \/ Keeper(h, t)'
        \/ dir'.target[t] = dir.target[t] /\ ~Keeper(h, t)
    BY Zenon, <2>1 DEF Keeper, Settles
  <2> QED BY Zenon, <2>0, <2>1, <2>2, <2>3, <2>4, StepOf DEF Forward, Backward
<1>6. CASE /\ at[h] = 1 /\ Go(h, "returned") /\ UNCHANGED at
           /\ Say(h, IF said = "none" THEN "failed" ELSE said)
  <2>1. /\ pc'[h] = "returned" /\ result'[h] = (IF said = "none" THEN "failed" ELSE said)
        /\ Frame(h, t)
    <3>1. DOMAIN pc' = Helpers /\ pc'[h] = "returned" /\ \A g \in Helpers : g # h => pc'[g] = pc[g]
      BY Zenon, <1>0, <1>6, Moves
    <3>2. /\ DOMAIN result' = Helpers /\ result'[h] = (IF said = "none" THEN "failed" ELSE said)
          /\ \A g \in Helpers : g # h => result'[g] = result[g]
      BY Zenon, <1>0, <1>6, Says
    <3> QED BY Zenon, <1>0, <1>6, <3>1, <3>2, FrameOf DEF Settles
  <2>2. LocalFits(h)'
    BY Zenon, <2>1, LocalFar
  <2>3. ASSUME Alone(h) PROVE AloneFits(h)'
    <3>1. ASSUME NEW s \in Names
          PROVE  Untouched(h, s)' \/ (said = "incomplete" /\ dir'.backup[h][s] = Old)
      <4>1. PICK i \in DOMAIN Targets : s = Targets[i]
        BY Zenon DEF Names
      <4>2. i >= at[h]
        BY <1>1, <1>6
      <4> QED BY Zenon, <1>4, <2>3, <4>1, <4>2
    <3>2. CASE said = "none"
      <4>1. result'[h] = "failed" /\ \A s \in Names : Untouched(h, s)'
        BY Zenon, <2>1, <3>1, <3>2
      <4> QED BY Zenon, <2>1, <4>1 DEF AloneFits, Forward, Backward
    <3>3. CASE said = "incomplete"
      <4>1. result'[h] = "incomplete" /\ \A s \in Names : dir'.target[s] = Old \/ dir'.backup[h][s] = Old
        BY Zenon, <2>1, <3>1, <3>3 DEF Untouched
      <4> QED BY Zenon, <2>1, <4>1 DEF AloneFits, Forward, Backward
    <3> QED BY Zenon, <2>3, <3>2, <3>3 DEF Answers
  <2>4. \/ dir'.target[t] # None
        \/ Keeper(h, t)'
        \/ dir'.target[t] = dir.target[t] /\ ~Keeper(h, t)
    BY Zenon, <2>1 DEF Keeper, Settles
  <2> QED BY Zenon, <2>1, <2>2, <2>3, <2>4, StepOf DEF Forward, Backward
<1>7. at[h] > 1 \/ at[h] = 1
  BY <1>1
<1> QED BY Zenon, <1>1, <1>5, <1>6, <1>7 DEF Previous

\* An executable that was not moved aside needs no restoring, and one that
\* cannot be restored keeps its backup.
LEMMA KeepStep ==
    ASSUME Sane, ReplaceInv, NEW h \in Helpers, NothingToRestore(h) \/ RestoreFails(h)
    PROVE  ReplaceInv'
<1>0. DirInv /\ LocalFits(h) /\ at[h] # 0 /\ pc[h] \in Backward /\ UNCHANGED flags
  BY Zenon DEF ReplaceInv, LocalInv, DirInv, NothingToRestore, RestoreFails, Backward
<1>1. PICK t \in Names : t = This(h) /\ dir \in Dirs
  BY Zenon, <1>0, HereIs
<1>2. \E d \in Dirs : /\ Change(d) /\ Near(d, dir, h, t)
                      /\ d.target = dir.target /\ d.backup = dir.backup
  <2>1. CASE NothingToRestore(h)
    BY <1>0, <1>1, <2>1, NearSame, SweptIs DEF NothingToRestore
  <2>2. CASE RestoreFails(h)
    <3>1. PICK m \in {{}, {t}} : \E d \in Swept(h, [dir EXCEPT !.marker[h] = @ \cup m]) : Change(d)
      BY Zenon, <1>1, <2>2 DEF RestoreFails
    <3>2. PICK b : b = [dir EXCEPT !.marker[h] = @ \cup m]
      BY Zenon
    <3>3. dir \in Dirs /\ m \in SUBSET Names
      BY Zenon, <1>1
    <3>4. Near(b, dir, h, t) /\ b.target = dir.target /\ b.backup = dir.backup
      <4>1. b \in Dirs /\ b.target = dir.target /\ b.backup = dir.backup /\ b.staged = dir.staged
        BY Zenon, <3>2, <3>3 DEF Dirs, Contents
      <4> QED BY Zenon, <4>1 DEF Near
    <3>5. \E d \in Swept(h, b) : Change(d)
      BY Zenon, <3>1, <3>2
    <3> QED BY <1>0, <1>1, <3>4, <3>5, SweptIs
  <2> QED BY Zenon, <2>1, <2>2
<1>3. /\ Near(dir', dir, h, t) /\ dir'.target = dir.target /\ dir'.backup = dir.backup
      /\ dir' \in images' /\ images' \subseteq Dirs
      /\ \A e \in images' : e \in images \/ (e.target = dir'.target /\ e.backup = dir'.backup)
  BY Zenon, <1>0, <1>2, Changed
<1>4. "backedUp" \in flags'[h][t] => dir'.backup[h][t] # None
  BY Zenon, <1>0, <1>1, <1>3 DEF LocalFits
<1>5. flags' \in [Helpers -> [Names -> SUBSET {"backedUp", "installed"}]]
  BY Zenon, <1>0 DEF DirInv
<1>6. /\ Settles(h, t)
      /\ Alone(h) => AloneFits(h)
  BY Zenon, <1>0, <1>3, <1>4, <1>5 DEF Settles, ReplaceInv, HonestInv
<1>7. CASE NothingToRestore(h)
  <2>1. pc[h] = "rollback" /\ "backedUp" \notin flags[h][t] /\ Previous(h, result[h])
    BY Zenon, <1>1, <1>7 DEF NothingToRestore
  <2>2. ASSUME Alone(h)
        PROVE  /\ result[h] \in {"none", "incomplete"}
               /\ dir'.target[t] = Old /\ dir'.backup[h][t] = None
    <3>1. result[h] \in {"none", "incomplete"} /\ FlagsFit(h, t)
      BY Zenon, <1>1, <1>6, <2>1, <2>2 DEF AloneFits, Backward
    <3>2. Untouched(h, t)
      BY Zenon, <1>1, <2>1, <3>1, FlagsTell
    <3> QED BY Zenon, <1>3, <3>1, <3>2 DEF Untouched
  <2>3. PICK said : said = result[h]
    OBVIOUS
  <2>4. Answers(h, t, said)
    BY Zenon, <2>2, <2>3 DEF Answers
  <2> QED BY Zenon, <1>0, <1>1, <1>6, <2>1, <2>3, <2>4, PreviousStep
<1>8. CASE RestoreFails(h)
  <2>1. pc[h] = "restore" /\ Previous(h, "incomplete")
    BY Zenon, <1>8 DEF RestoreFails
  <2>2. ASSUME Alone(h) PROVE dir'.backup[h][t] = Old
    BY Zenon, <1>1, <1>3, <1>6, <2>1, <2>2 DEF AloneFits
  <2>3. Answers(h, t, "incomplete")
    BY Zenon, <2>2 DEF Answers
  <2> QED BY Zenon, <1>0, <1>1, <1>6, <2>1, <2>3, PreviousStep
<1> QED BY Zenon, <1>7, <1>8

\* The new file is removed while the old one is kept.
LEMMA RemoveStep ==
    ASSUME Sane, ReplaceInv, NEW h \in Helpers, RemoveInstalled(h)
    PROVE  ReplaceInv'
<1> DEFINE t == This(h)
<1>0. DirInv /\ LocalFits(h) /\ at[h] # 0 /\ pc[h] = "rollback"
  BY Zenon DEF ReplaceInv, LocalInv, DirInv, RemoveInstalled, Backward
<1>1. /\ t \in Names /\ dir \in Dirs
      /\ \A i \in DOMAIN Targets : Targets[i] \in Names /\ (Targets[i] = t => i = at[h])
  BY Zenon, <1>0, HereIs DEF Names
<1>2. /\ "backedUp" \in flags[h][t] /\ Go(h, "restore") /\ UNCHANGED <<at, flags, result>>
      /\ SameDir \/ Change([dir EXCEPT !.target[t] = None])
  BY Zenon DEF RemoveInstalled, SameLocals
<1>3. /\ Near(dir', dir, h, t) /\ dir'.backup = dir.backup
      /\ dir' \in images' /\ images' \subseteq Dirs
      /\ \A e \in images' : e \in images \/ (e.target = dir'.target /\ e.backup = dir'.backup)
  <2>1. CASE SameDir
    BY Zenon, <1>0, <2>1, Still, NearSame
  <2>2. CASE Change([dir EXCEPT !.target[t] = None])
    <3> DEFINE d == [dir EXCEPT !.target[t] = None]
    <3>1. Near(d, dir, h, t) /\ d.backup = dir.backup
      BY Zenon, <1>1, RemovedIs
    <3>2. Change(d)
      BY Zenon, <2>2
    <3> HIDE DEF d
    <3> QED BY Zenon, <1>0, <3>1, <3>2, Changed DEF Near
  <2> QED BY Zenon, <1>2, <2>1, <2>2
<1>4. pc'[h] = "restore" /\ at'[h] = at[h] /\ This(h)' = t /\ Frame(h, t)
  BY Zenon, <1>0, <1>1, <1>2, <1>3, Moves, FrameOf DEF This
<1>5. LocalFits(h)'
  BY Zenon, <1>0, <1>2, <1>3, <1>4 DEF LocalFits, Backward, Forward
<1>6. Keeper(h, t)'
  BY Zenon, <1>0, <1>1, <1>2, <1>3, <1>4 DEF Keeper, LocalFits, Backward
<1>7. ASSUME Alone(h) PROVE AloneFits(h)'
  <2>1. AloneFits(h)
    BY <1>7 DEF ReplaceInv, HonestInv
  <2>2. /\ result[h] \in {"none", "incomplete"} /\ FlagsFit(h, t)
        /\ \A i \in DOMAIN Targets : /\ i < at[h] => FlagsFit(h, Targets[i])
                                     /\ i > at[h] => RolledBack(h, Targets[i])
    BY Zenon, <1>0, <2>1 DEF AloneFits, Backward
  <2>3. dir'.backup[h][t] = Old
    BY <1>1, <1>2, <1>3, <2>2, FlagsTell
  <2>4. \A i \in DOMAIN Targets : /\ i < at'[h] => FlagsFit(h, Targets[i])'
                                  /\ i > at'[h] => RolledBack(h, Targets[i])'
    <3>1. ASSUME NEW i \in DOMAIN Targets, i < at[h] \/ i > at[h]
          PROVE  /\ Targets[i] \in Names /\ dir'.target[Targets[i]] = dir.target[Targets[i]]
                 /\ dir'.backup[h][Targets[i]] = dir.backup[h][Targets[i]]
      <4>1. Targets[i] \in Names /\ Targets[i] # t
        BY <1>0, <1>1, <3>1 DEF DirInv, Sane
      <4> QED BY Zenon, <1>3, <4>1 DEF Near
    <3> QED BY Zenon, <1>2, <1>4, <2>2, <3>1, FitsSame
  <2> QED BY Zenon, <1>2, <1>4, <2>2, <2>3, <2>4 DEF AloneFits, Forward, Backward
<1> QED BY Zenon, <1>0, <1>1, <1>4, <1>5, <1>6, <1>7, StepOf DEF Forward, Backward

\* The old file is moved back.
LEMMA RestoreStep ==
    ASSUME Sane, ReplaceInv, NEW h \in Helpers, Restore(h)
    PROVE  ReplaceInv'
<1>0. DirInv /\ LocalFits(h) /\ at[h] # 0 /\ pc[h] = "restore" /\ pc[h] \in Backward
  BY Zenon DEF ReplaceInv, LocalInv, DirInv, Restore, Backward
<1>1. PICK t \in Names : t = This(h) /\ dir \in Dirs
  BY Zenon, <1>0, HereIs
<1> DEFINE d == [dir EXCEPT !.target[t] = dir.backup[h][t], !.backup[h][t] = None]
<1>2. /\ flags' = [flags EXCEPT ![h][t] = {}]
      /\ \/ dir' \in Swept(h, d) /\ images' = {d, dir'} /\ Previous(h, result[h])
         \/ (\E e \in Swept(h, d) : Change(e)) /\ Previous(h, "incomplete")
  BY Zenon, <1>1 DEF Restore
<1>3. Near(d, dir, h, t) /\ d.target[t] = dir.backup[h][t] /\ d.backup[h][t] = None
  BY Zenon, <1>1, RestoredIs
<1> HIDE DEF d
<1>4. dir.backup[h][t] # None
  BY Zenon, <1>0, <1>1 DEF LocalFits
<1>5. /\ Near(dir', dir, h, t) /\ dir'.target[t] = dir.backup[h][t] /\ dir'.backup[h][t] = None
      /\ dir' \in images' /\ images' \subseteq Dirs
      /\ \A e \in images' : e \in images \/ (e.target = dir'.target /\ e.backup = dir'.backup)
  <2>1. CASE dir' \in Swept(h, d) /\ images' = {d, dir'}
    BY <1>0, <1>1, <1>3, <2>1, SweptIs
  <2>2. CASE \E e \in Swept(h, d) : Change(e)
    <3>1. PICK e \in Swept(h, d) : Change(e)
      BY Zenon, <2>2
    <3>2. Near(e, dir, h, t) /\ e \in Dirs /\ e.target = d.target /\ e.backup = d.backup
      BY <1>0, <1>1, <1>3, SweptIs
    <3> QED BY Zenon, <1>0, <1>3, <3>1, <3>2, Changed
  <2> QED BY Zenon, <1>2, <2>1, <2>2
<1>6. /\ flags' \in [Helpers -> [Names -> SUBSET {"backedUp", "installed"}]]
      /\ flags'[h][t] = {}
      /\ \A s \in Names : s # t => flags'[h][s] = flags[h][s]
      /\ \A g \in Helpers : g # h => flags'[g] = flags[g]
  <2>1. {} \in SUBSET {"backedUp", "installed"}
    OBVIOUS
  <2>2. PICK F \in SUBSET {"backedUp", "installed"} : F = {}
    BY Zenon, <2>1
  <2>3. flags' = [flags EXCEPT ![h][t] = F]
    BY Zenon, <1>2, <2>2
  <2> QED BY Zenon, <1>0, <2>2, <2>3, Marks
<1>7. ASSUME Alone(h)
      PROVE  /\ result[h] \in {"none", "incomplete"}
             /\ dir'.target[t] = Old /\ dir'.backup[h][t] = None
  <2>1. AloneFits(h)
    BY Zenon, <1>7 DEF ReplaceInv, HonestInv
  <2>2. result[h] \in {"none", "incomplete"}
    BY Zenon, <1>0, <2>1 DEF AloneFits
  <2>3. dir.backup[h][t] = Old
    BY Zenon, <1>0, <1>1, <2>1 DEF AloneFits
  <2> QED BY Zenon, <1>5, <2>2, <2>3
<1>8. PICK said \in {result[h], "incomplete"} : Previous(h, said)
  BY Zenon, <1>2
<1>9. Answers(h, t, said)
  BY Zenon, <1>7, <1>8 DEF Answers
<1>10. Settles(h, t)
  BY Zenon, <1>4, <1>5, <1>6 DEF Settles
<1> QED BY Zenon, <1>0, <1>1, <1>8, <1>9, <1>10, PreviousStep

\* The backups are removed only when every new file is in place.
LEMMA CommitStep ==
    ASSUME Sane, ReplaceInv, NEW h \in Helpers, Commit(h)
    PROVE  ReplaceInv'
<1> DEFINE t == This(h)
           d == [dir EXCEPT !.backup[h][t] = None]
<1>0. DirInv /\ LocalFits(h) /\ at[h] # 0 /\ pc[h] = "commit" /\ UNCHANGED flags
  BY Zenon DEF ReplaceInv, LocalInv, DirInv, Commit
<1>1. t \in Names /\ dir \in Dirs /\ at[h] \in 1..Len(Targets) /\ Len(Targets) \in Nat
  BY <1>0, HereIs DEF Sane
<1>2. SameDir \/ Change(d) \/ (dir' = d /\ images' = {d})
  BY Zenon DEF Commit
<1>3. Near(d, dir, h, t) /\ d.target = dir.target
  BY Zenon, <1>1, CommittedIs
<1> HIDE DEF d
<1>4. /\ Near(dir', dir, h, t) /\ dir'.target = dir.target
      /\ dir' \in images' /\ images' \subseteq Dirs
      /\ \A e \in images' : e \in images \/ (e.target = dir'.target /\ e.backup = dir'.backup)
  <2>1. d \in Dirs
    BY Zenon, <1>3 DEF Near
  <2>2. CASE SameDir
    BY Zenon, <1>0, <2>2, Still, NearSame
  <2>3. CASE Change(d)
    BY Zenon, <1>0, <1>3, <2>1, <2>3, Changed
  <2>4. CASE dir' = d /\ images' = {d}
    BY Zenon, <1>3, <2>1, <2>4
  <2> QED BY Zenon, <1>2, <2>2, <2>3, <2>4
<1>5. ASSUME Alone(h) PROVE \A s \in Names : dir'.target[s] = h
  <2>1. AloneFits(h)
    BY <1>5 DEF ReplaceInv, HonestInv
  <2> QED BY Zenon, <1>0, <1>4, <2>1 DEF AloneFits
<1>6. CASE GoAt(h, "commit", at[h] + 1) /\ UNCHANGED result /\ at[h] < Len(Targets)
  <2>0. at[h] + 1 \in 0..Len(Targets) /\ at[h] + 1 # 0
    BY <1>1, <1>6
  <2>1. pc'[h] = "commit" /\ at'[h] # 0 /\ Frame(h, t)
    BY <1>0, <1>1, <1>4, <1>6, <2>0, MovesAt, FrameOf
  <2>2. LocalFits(h)'
    BY Zenon, <2>1, LocalFar
  <2>3. Alone(h) => AloneFits(h)'
    BY Zenon, <1>5, <2>1 DEF AloneFits, Forward, Backward
  <2> QED BY Zenon, <1>0, <1>1, <1>4, <2>1, <2>2, <2>3, StepOf DEF Forward, Backward, Keeper
<1>7. CASE Go(h, "returned") /\ UNCHANGED at /\ Say(h, "ok")
  <2>1. pc'[h] = "returned" /\ result'[h] = "ok" /\ Frame(h, t)
    BY <1>0, <1>1, <1>4, <1>7, Moves, Says, FrameOf
  <2>2. LocalFits(h)'
    BY Zenon, <2>1, LocalFar
  <2>3. Alone(h) => AloneFits(h)'
    BY Zenon, <1>5, <2>1 DEF AloneFits, Forward, Backward
  <2> QED BY Zenon, <1>0, <1>1, <1>4, <2>1, <2>2, <2>3, StepOf DEF Forward, Backward, Keeper
<1> QED BY Zenon, <1>6, <1>7 DEF Commit

\* A killed helper leaves its files where they are.
LEMMA KillStep ==
    ASSUME Sane, ReplaceInv, NEW h \in Helpers, Kill(h)
    PROVE  ReplaceInv'
<1> DEFINE t == IF at[h] # 0 THEN This(h) ELSE Targets[1]
<1>0. DirInv /\ (pc[h] \in {"aside", "install"} => at[h] # 0)
  BY Zenon DEF ReplaceInv, DirInv, Forward
<1>1. t \in Names
  BY <1>0, HereIs DEF Sane, Names
<1>2. /\ pc[h] \notin {"idle", "returned", "dead", "off"} /\ Go(h, "dead") /\ SameDir
      /\ UNCHANGED <<at, flags, result>>
  BY Zenon DEF Kill, SameDir
<1>3. pc[h] \in {"aside", "install"} => This(h) = t
  BY Zenon, <1>0
<1> HIDE DEF t
<1>4. pc'[h] = "dead" /\ dir' = dir /\ Frame(h, t)
  BY <1>0, <1>1, <1>2, Still, NearSame, Moves, FrameOf
<1>5. LocalFits(h)'
  BY Zenon, <1>4, LocalFar
<1>6. AloneFits(h)'
  BY Zenon, <1>4 DEF AloneFits, Forward, Backward
<1> QED BY Zenon, <1>1, <1>2, <1>3, <1>4, <1>5, <1>6, StepStill DEF Forward, Backward

\* What a power failure leaves has every executable somewhere.
LEMMA PowerStep ==
    ASSUME Sane, ReplaceInv, PowerLoss
    PROVE  ReplaceInv'
<1>0. DirInv /\ SomewhereKept
  BY Zenon DEF ReplaceInv, KeptInv
<1>1. /\ dir' \in images /\ images' = {dir'} /\ UNCHANGED <<at, flags, result>>
      /\ DOMAIN pc' = Helpers /\ \A h \in Helpers : pc'[h] = "off"
  BY Zenon DEF PowerLoss
<1>2. DirInv'
  BY Zenon, <1>0, <1>1 DEF DirInv, Forward, Backward
<1>3. LocalInv'
  BY Zenon, <1>1 DEF LocalInv, LocalFits, Forward, Backward
<1>4. KeptInv'
  <2>1. \A t \in Names : dir'.target[t] # None \/ \E h \in Helpers : dir'.backup[h][t] # None
    BY Zenon, <1>0, <1>1 DEF SomewhereKept
  <2>2. SomewhereKept'
    BY Zenon, <1>1, <2>1 DEF SomewhereKept
  <2>3. \A h \in Helpers, t \in Names : dir'.backup[h][t] # None => Keeper(h, t)'
    BY Zenon, <1>1 DEF Keeper
  <2> QED BY Zenon, <2>1, <2>2, <2>3 DEF KeptInv
<1>5. HonestInv'
  BY Zenon, <1>1 DEF HonestInv, AloneFits, Forward, Backward
<1> QED BY Zenon, <1>2, <1>3, <1>4, <1>5 DEF ReplaceInv

\* The installation starts with every executable at its place.
LEMMA ReplaceInit ==
    ASSUME Sane, Init
    PROVE  ReplaceInv
<1>1. /\ dir.target = [t \in Names |-> Old] /\ dir.backup = [h \in Helpers |-> [t \in Names |-> None]]
      /\ dir \in Dirs /\ images = {dir}
  BY Zenon DEF Init, Dirs, Contents
<1>2. /\ DOMAIN pc = Helpers /\ DOMAIN result = Helpers
      /\ at \in [Helpers -> 0..Len(Targets)]
      /\ flags \in [Helpers -> [Names -> SUBSET {"backedUp", "installed"}]]
      /\ \A h \in Helpers : pc[h] = "idle" /\ result[h] = "none"
      /\ \A h \in Helpers, t \in Names : flags[h][t] = {}
  BY DEF Init, Sane
<1>3. DirInv
  BY Zenon, <1>1, <1>2 DEF DirInv, Forward, Backward
<1>4. LocalInv
  BY Zenon, <1>2 DEF LocalInv, LocalFits, Forward, Backward
<1>5. KeptInv
  BY <1>1 DEF KeptInv, SomewhereKept, Sane
<1>6. HonestInv
  <2>1. \A h \in Helpers, t \in Names : FlagsFit(h, t)
    BY <1>1, <1>2 DEF FlagsFit, Untouched
  <2> QED BY Zenon, <1>2, <2>1 DEF HonestInv, AloneFits, Forward, Backward
<1> QED BY Zenon, <1>3, <1>4, <1>5, <1>6 DEF ReplaceInv

\* The invariant is inductive: every rename, check, sync, removal, failure, kill
\* and power loss of install.go keeps it.
THEOREM ReplaceInvariance == Spec => []ReplaceInv
<1>0. Sane
  BY SaneAssumption
<1> USE <1>0
<1>1. Init => ReplaceInv
  BY Zenon, ReplaceInit
<1>2. ASSUME ReplaceInv, [Next]_vars PROVE ReplaceInv'
  <2>1. CASE UNCHANGED vars
    <3>1. DirInv'
      BY Zenon, <1>2, <2>1 DEF vars, ReplaceInv, DirInv
    <3>2. LocalInv'
      BY Zenon, <1>2, <2>1 DEF vars, ReplaceInv, LocalInv, LocalFits, This
    <3>3. KeptInv'
      BY Zenon, <1>2, <2>1 DEF vars, ReplaceInv, KeptInv, Keeper, SomewhereKept, This
    <3>4. ASSUME NEW h \in Helpers, Alone(h)' PROVE AloneFits(h)'
      <4>1. UNCHANGED <<dir, pc, at, flags, result>>
        BY Zenon, <2>1 DEF vars
      <4>2. AloneFits(h)
        BY Zenon, <1>2, <3>4, <4>1 DEF ReplaceInv, HonestInv, Alone
      <4> QED BY Zenon, <4>1, <4>2 DEF AloneFits, FlagsFit, RolledBack, Untouched, This
    <3> QED BY Zenon, <3>1, <3>2, <3>3, <3>4 DEF ReplaceInv, HonestInv
  <2>2. CASE PowerLoss
    BY Zenon, <1>2, <2>2, PowerStep
  <2>3. ASSUME NEW h \in Helpers, HelperStep(h) PROVE ReplaceInv'
    <3>1. CASE Begin(h)
      BY Zenon, <1>2, <3>1, BeginStep
    <3>2. CASE Prepare(h) \/ PrepareFails(h)
      BY Zenon, <1>2, <3>2, PrepareStep
    <3>3. CASE CheckTarget(h) \/ CheckBackup(h)
      BY <1>2, <3>3, CheckStep
    <3>4. CASE Backup(h)
      BY <1>2, <3>4, BackupStep
    <3>5. CASE Install(h)
      BY <1>2, <3>5, InstallStep
    <3>6. CASE CheckInstalled(h)
      BY <1>2, <3>6, InstalledStep
    <3>7. CASE InstallFails(h)
      BY Zenon, <1>2, <3>7, FailStep DEF InstallFails, Forward
    <3>8. CASE NothingToRestore(h) \/ RestoreFails(h)
      BY <1>2, <3>8, KeepStep
    <3>9. CASE RemoveInstalled(h)
      BY <1>2, <3>9, RemoveStep
    <3>10. CASE Restore(h)
      BY <1>2, <3>10, RestoreStep
    <3>11. CASE Commit(h)
      BY <1>2, <3>11, CommitStep
    <3> QED BY Zenon, <2>3, <3>1, <3>2, <3>3, <3>4, <3>5, <3>6, <3>7, <3>8, <3>9, <3>10, <3>11 DEF HelperStep
  <2>4. ASSUME NEW h \in Helpers, Kill(h) PROVE ReplaceInv'
    BY <1>2, <2>4, KillStep
  <2> QED BY Zenon, <1>2, <2>1, <2>2, <2>3, <2>4 DEF Next
<1> QED BY <1>1, <1>2, PTL DEF Spec

\* No executable is ever lost: whatever helpers overlap, fail, are killed or lose
\* power, in any directory that may be on the disk each executable is at its
\* place or in a backup (installReplacements and rollbackReplacements).
THEOREM NothingIsLost == Spec => []NothingLost
<1>1. ReplaceInv => NothingLost
  BY Zenon DEF ReplaceInv, DirInv, KeptInv, NothingLost, TypeOK, Dirs, Contents
<1> QED BY <1>1, ReplaceInvariance, PTL

\* A helper that ran alone says what it did: "ok" means every executable is the
\* new one, a plain failure that every one is the old one, and only
\* ErrRollbackIncomplete may leave one in its backup.
THEOREM ResultIsHonest == Spec => []HonestResult
<1>1. ReplaceInv => HonestResult
  BY Zenon DEF ReplaceInv, HonestInv, Alone, AloneFits, Untouched, HonestResult
<1> QED BY <1>1, ReplaceInvariance, PTL
=============================================================================
