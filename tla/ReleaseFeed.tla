----------------------------- MODULE ReleaseFeed -----------------------------
(* How an update is chosen and fetched (internal/update/github.go, archive.go *)
(* and the first half of install.go): the client asks for the latest stable   *)
(* release and offers it, the privileged helper asks again, finds the release *)
(* of that version, fetches its checksums and its archive and unpacks two     *)
(* executables.  The release service is external and may answer every request *)
(* differently: releases are published, withdrawn and edited in between.      *)
(* One client and its helper are modelled step by step; other helpers, of     *)
(* other clients or left behind by this one, by what they install.            *)
EXTENDS Integers, Sequences, FiniteSets, Functions, Slices

CONSTANTS
    Feeds,         \* answers to the request for the releases
    Documents,     \* contents of checksums.txt: lines [fields, hex, name, digest]
    Archives,      \* archives: [digest, gzip, entries, trailing]
    First,         \* the tag of the version installed first
    Bad,           \* what a failed conversion or search returns
    MaxBinary,     \* maxBinaryBytes
    MaxExtracted,  \* maxExtractedBytes
    MaxEntries     \* maxArchiveEntryCount

\* What the JSON decoder and parseStableVersion make of an answer.
ASSUME FeedAssumption ==
    /\ Bad \notin Int
    /\ \A feed \in Feeds :
         /\ feed \in Seq(Range(feed)) /\ Bad \notin Range(feed)
         /\ \A r \in Range(feed) : r.tag.parts \in Seq(Nat \cup {Bad}) /\ r.tag.parts # Bad

\* A digest of the proper length is not empty; a size is an int64.
ASSUME DownloadAssumption ==
    /\ Bad # "" /\ MaxBinary \in Nat /\ MaxExtracted \in Nat /\ MaxEntries \in Nat
    /\ \A d \in Documents : d \in Seq(Range(d)) /\ \A line \in Range(d) : line.hex => line.digest \notin {"", Bad}
    /\ \A a \in Archives : a.entries \in Seq(Range(a.entries)) /\ \A e \in Range(a.entries) : e.size \in Int

-----------------------------------------------------------------------------
(* Versions.  A tag is [v, parts]: whether it begins with "v" and its parts   *)
(* between dots, each a number or a part ParseUint refuses.                   *)

parseStableVersion(tag) ==
    IF Len(tag.parts) = 3 /\ \A i \in 1..3 : tag.parts[i] # Bad THEN tag.parts ELSE Bad

\* The version of a release build is stable.
ASSUME FirstAssumption == parseStableVersion(First) # Bad

\* MUTANT: the number compared last decides.
CompareVersions_LastFirst(l, r) ==
    LET D == {i \in 1..3 : l[i] # r[i]} IN
    IF D = {} THEN 0 ELSE LET i == CHOOSE i \in D : \A j \in D : j <= i IN IF l[i] < r[i] THEN -1 ELSE 1

\* The first number in which two versions differ decides.
CompareVersions(l, r) ==
    LET D == {i \in 1..3 : l[i] # r[i]} IN
    IF D = {} THEN 0 ELSE LET i == CHOOSE i \in D : \A j \in D : i <= j IN IF l[i] < r[i] THEN -1 ELSE 1

\* compareStableVersions: Bad is its ok = false.
compareStableVersions(left, right) ==
    LET l == parseStableVersion(left)  r == parseStableVersion(right) IN
    IF l = Bad \/ r = Bad THEN Bad ELSE CompareVersions(l, r)

\* canonicalVersion writes the parts with a "v".
canonicalVersion(tag) ==
    LET p == parseStableVersion(tag) IN IF p = Bad THEN Bad ELSE [v |-> TRUE, parts |-> p]

Published(r) == ~r.draft /\ ~r.prerelease

\* One turn of the loop of latestStableRelease.
Latest(chosen, r) ==
    IF ~Published(r) \/ parseStableVersion(r.tag) = Bad THEN chosen
    ELSE IF chosen = Bad THEN r
    ELSE IF compareStableVersions(r.tag, chosen.tag) > 0 THEN r ELSE chosen

latestStableRelease(feed) == FoldLeft(Latest, Bad, feed)

\* MUTANT: a draft or a prerelease of that version is found as well.
findStableRelease_Draft(feed, version) ==
    LET S == {i \in DOMAIN feed : /\ canonicalVersion(feed[i].tag) = canonicalVersion(version)
                                  /\ parseStableVersion(feed[i].tag) # Bad} IN
    IF S = {} THEN Bad ELSE feed[CHOOSE i \in S : \A j \in S : i <= j]

\* findStableRelease: the first published release of the version.
findStableRelease(feed, version) ==
    LET S == {i \in DOMAIN feed : /\ Published(feed[i])
                                  /\ canonicalVersion(feed[i].tag) = canonicalVersion(version)
                                  /\ parseStableVersion(feed[i].tag) # Bad} IN
    IF S = {} THEN Bad ELSE feed[CHOOSE i \in S : \A j \in S : i <= j]

-----------------------------------------------------------------------------
(* Assets, checksums, archives.                                               *)

\* selectAssets: each of the two names exactly once, with a proper URL.
selectAssets(r) ==
    LET Of(name) == {i \in DOMAIN r.assets : r.assets[i].name = name} IN
    \A name \in {"archive", "checksums"} :
        Cardinality(Of(name)) = 1 /\ \A i \in Of(name) : r.assets[i].https

\* MUTANT: the first line that names the archive is taken.
ReadLine_First(digest, line) ==
    IF digest = Bad \/ line.fields = 0 THEN digest
    ELSE IF line.fields # 2 \/ ~line.hex THEN Bad
    ELSE IF line.name # "archive" \/ digest # "" THEN digest
    ELSE line.digest

\* One line of parseChecksum: "" while the archive has not been named, Bad is
\* an error.
ReadLine(digest, line) ==
    IF digest = Bad \/ line.fields = 0 THEN digest
    ELSE IF line.fields # 2 \/ ~line.hex THEN Bad
    ELSE IF line.name # "archive" THEN digest
    ELSE IF digest # "" THEN Bad ELSE line.digest

parseChecksum(document) == FoldLeft(ReadLine, "", document)

\* A path is its components between slashes; one trailing slash is dropped.
safeArchivePath(path) ==
    LET c == IF Len(path) > 1 /\ path[Len(path)] = "" THEN Front(path) ELSE path IN
    \A i \in DOMAIN c : c[i] \notin {"", ".", ".."}

Wanted == {<<"tuibox">>, <<"tuiboxd">>}

\* One entry of readTarBinaries: s is [ok, count, bytes, seen].
ReadEntry(s, e) ==
    LET n == [s EXCEPT !.count = @ + 1]
        m == [n EXCEPT !.bytes = @ + e.size]
        broken == [n EXCEPT !.ok = FALSE] IN
    IF ~s.ok THEN s
    ELSE IF n.count > MaxEntries \/ ~safeArchivePath(e.path) \/ e.type \notin {"file", "dir"} THEN broken
    ELSE IF e.type = "dir" THEN n
    ELSE IF e.size \notin 0..MaxBinary \/ s.bytes > MaxExtracted - e.size THEN broken
    ELSE IF e.path \notin Wanted THEN (IF e.whole THEN m ELSE broken)
    ELSE IF e.path \in s.seen \/ e.size = 0 \/ ~e.whole THEN broken
    ELSE [m EXCEPT !.seen = @ \cup {e.path}]

NothingRead == [ok |-> TRUE, count |-> 0, bytes |-> 0, seen |-> {}]

\* MUTANT: the entries that are not needed are left out of the limits.
readTarBinaries_Skipped(entries) ==
    LET s == FoldLeft(ReadEntry, NothingRead, SelectSeq(entries, LAMBDA e : e.path \in Wanted)) IN
    s.ok /\ s.seen = Wanted

\* readTarBinaries: every entry passes, and both executables were among them.
readTarBinaries(entries) ==
    LET s == FoldLeft(ReadEntry, NothingRead, entries) IN
    s.ok /\ s.seen = Wanted

extractBinaries(a) == a.gzip /\ readTarBinaries(a.entries) /\ ~a.trailing

-----------------------------------------------------------------------------
VARIABLES
    running,    \* the version of the client that runs
    installed,  \* the version of the executables on disk, the helper's among them
    info,       \* the UpdateInfo the client holds
    helper,     \* [stage, version, selected, digest]
    overtaken,  \* another has installed since this helper compared (history)
    answer      \* what the release service answered last: [kind, body]

feedVars == <<running, installed, info, helper, overtaken, answer>>

NoHelper == [stage |-> "none", version |-> Bad, selected |-> Bad, digest |-> ""]
NoAnswer == [kind |-> "none", body |-> Bad]

FeedInit ==
    /\ running = First /\ installed = First
    /\ info = Bad /\ helper = NoHelper /\ overtaken = FALSE /\ answer = NoAnswer

\* Check: an offer, or an error that leaves the client without one.
Check ==
    /\ helper.stage = "none"
    /\ \E feed \in Feeds :
         LET latest == latestStableRelease(feed) IN
         /\ answer' = [kind |-> "feed", body |-> feed]
         /\ info' = IF latest = Bad THEN Bad
                    ELSE [current |-> running, latest |-> canonicalVersion(latest.tag),
                          available |-> compareStableVersions(running, latest.tag) < 0]
    /\ UNCHANGED <<running, installed, helper, overtaken>>

\* Apply: validApplyRequest, then the helper is run with the version.
Apply ==
    /\ helper.stage = "none" /\ info # Bad
    /\ info.available
    /\ canonicalVersion(info.current) = canonicalVersion(running)
    /\ compareStableVersions(info.current, info.latest) = -1
    /\ helper' = [NoHelper EXCEPT !.stage = "started", !.version = info.latest]
    /\ answer' = NoAnswer
    /\ UNCHANGED <<running, installed, info, overtaken>>

Refuse == helper' = NoHelper /\ overtaken' = FALSE /\ UNCHANGED <<running, installed, info>>

\* MUTANT: the helper trusts the comparison the client has made.
HelperSelects_Trusting ==
    /\ helper.stage = "started"
    /\ \E feed \in Feeds :
         LET r == findStableRelease(feed, helper.version) IN
         /\ answer' = [kind |-> "feed", body |-> feed]
         /\ IF r = Bad THEN Refuse
            ELSE IF ~selectAssets(r) THEN Refuse
            ELSE /\ helper' = [helper EXCEPT !.stage = "selected", !.selected = r]
                 /\ UNCHANGED <<running, installed, info, overtaken>>

\* applyPrivilegedValidated up to the choice of the assets.  The helper is one
\* of the executables, so its own version is the one installed when sudo runs it;
\* it compares once.
HelperSelects ==
    /\ helper.stage = "started"
    /\ compareStableVersions(installed, helper.version) = -1
    /\ \E feed \in Feeds :
         LET r == findStableRelease(feed, helper.version) IN
         /\ answer' = [kind |-> "feed", body |-> feed]
         /\ IF r = Bad THEN Refuse
            ELSE IF ~selectAssets(r) THEN Refuse
            ELSE /\ helper' = [helper EXCEPT !.stage = "selected", !.selected = r]
                 /\ UNCHANGED <<running, installed, info, overtaken>>

HelperRefuses ==
    /\ helper.stage = "started"
    /\ compareStableVersions(installed, helper.version) # -1
    /\ answer' = NoAnswer
    /\ Refuse

HelperReadsChecksums ==
    /\ helper.stage = "selected"
    /\ \E document \in Documents :
         LET digest == parseChecksum(document) IN
         /\ answer' = [kind |-> "document", body |-> document]
         /\ IF digest \in {"", Bad} THEN Refuse
            ELSE /\ helper' = [helper EXCEPT !.stage = "summed", !.digest = digest]
                 /\ UNCHANGED <<running, installed, info, overtaken>>

\* MUTANT: the archive is unpacked whatever its digest is.
HelperInstalls_Unsummed ==
    /\ helper.stage = "summed"
    /\ \E a \in Archives :
         /\ answer' = [kind |-> "archive", body |-> a]
         /\ IF ~extractBinaries(a) THEN Refuse
            ELSE /\ installed' = canonicalVersion(helper.selected.tag)
                 /\ helper' = NoHelper /\ overtaken' = FALSE
                 /\ UNCHANGED <<running, info>>

HelperInstalls ==
    /\ helper.stage = "summed"
    /\ \E a \in Archives :
         /\ answer' = [kind |-> "archive", body |-> a]
         /\ IF a.digest # helper.digest \/ ~extractBinaries(a) THEN Refuse
            ELSE /\ installed' = canonicalVersion(helper.selected.tag)
                 /\ helper' = NoHelper /\ overtaken' = FALSE
                 /\ UNCHANGED <<running, info>>

\* A request fails, is too large or is no JSON.  Or the client's context ends:
\* that kills sudo, and its helper goes on as one of the others.
RequestFails ==
    /\ answer' = NoAnswer
    /\ \/ helper.stage = "none" /\ info' = Bad /\ UNCHANGED <<running, installed, helper, overtaken>>
       \/ helper.stage # "none" /\ Refuse

\* The versions that releases have.
Stable ==
    {canonicalVersion(r.tag) :
        r \in {r \in UNION {Range(feed) : feed \in Feeds} : Published(r) /\ parseStableVersion(r.tag) # Bad}}

\* Another helper, which has compared at a time of its own, installs a release.
OtherInstalls ==
    /\ installed' \in Stable
    /\ overtaken' = (helper.stage \in {"selected", "summed"})
    /\ answer' = NoAnswer
    /\ UNCHANGED <<running, info, helper>>

\* The client is started again, now of the installed version.
Restart ==
    /\ helper.stage = "none" /\ running # installed
    /\ running' = installed /\ info' = Bad /\ answer' = NoAnswer
    /\ UNCHANGED <<installed, helper, overtaken>>

FeedNext ==
    \/ Check \/ Apply \/ HelperSelects \/ HelperRefuses
    \/ HelperReadsChecksums \/ HelperInstalls \/ RequestFails \/ OtherInstalls \/ Restart

FeedSpec == FeedInit /\ [][FeedNext]_feedVars

-----------------------------------------------------------------------------
FeedTypeOK ==
    /\ parseStableVersion(running) # Bad /\ parseStableVersion(installed) # Bad
    /\ helper.stage \in {"none", "started", "selected", "summed"}
    /\ helper.stage # "none" => parseStableVersion(helper.version) # Bad
    /\ overtaken \in BOOLEAN
    /\ answer.kind \in {"none", "feed", "document", "archive"}

\* The lexicographic order of versions.
AtMost(p, q) ==
    p[1] < q[1] \/ (p[1] = q[1] /\ (p[2] < q[2] \/ (p[2] = q[2] /\ p[3] <= q[3])))

\* latestStableRelease returns, of the published releases with a stable
\* version, the first of those with the greatest version, and nothing only if
\* there is none.
LatestIsGreatest ==
    answer.kind = "feed" =>
        LET f == answer.body
            S == {i \in DOMAIN f : Published(f[i]) /\ parseStableVersion(f[i].tag) # Bad}
            G == {i \in S : \A j \in S : AtMost(f[j].tag.parts, f[i].tag.parts)} IN
        latestStableRelease(f) = IF S = {} THEN Bad ELSE f[CHOOSE i \in G : \A j \in G : i <= j]

\* The helper, which is given only the version, finds in the same feed the very
\* release the client has offered.
OfferedIsFound ==
    answer.kind = "feed" =>
        LET latest == latestStableRelease(answer.body) IN
        latest # Bad => findStableRelease(answer.body, canonicalVersion(latest.tag)) = latest

\* The choice of a release is right on both sides of the hand-over, in the
\* client (latestStableRelease) and in the helper (findStableRelease).
ChoiceIsRight == FeedTypeOK /\ LatestIsGreatest /\ OfferedIsFound

\* parseChecksum accepts a document only if every line that is not blank is a
\* digest and a name, and exactly one of them names the archive.
ChecksumIsTheOnly ==
    answer.kind = "document" =>
        LET L == {i \in DOMAIN answer.body : answer.body[i].fields # 0}
            A == {i \in L : answer.body[i].name = "archive"}
            good == (\A i \in L : answer.body[i].fields = 2 /\ answer.body[i].hex) /\ \E i \in A : A = {i} IN
        IF good THEN \A i \in A : parseChecksum(answer.body) = answer.body[i].digest
        ELSE parseChecksum(answer.body) \in {"", Bad}

\* The size of the files of an archive.
AddSize(n, e) == IF e.type = "file" THEN n + e.size ELSE n

\* readTarBinaries accepts an archive only if all its entries are safe, within
\* the limits and together within the limit, and it holds each of the two
\* executables exactly once and not empty.
ArchiveIsComplete ==
    answer.kind = "archive" =>
        LET e == answer.body.entries
            F == {i \in DOMAIN e : e[i].type = "file"} IN
        readTarBinaries(e) <=>
            /\ Len(e) <= MaxEntries
            /\ \A i \in DOMAIN e : safeArchivePath(e[i].path) /\ e[i].type \in {"file", "dir"}
            /\ \A i \in F : e[i].size \in 0..MaxBinary /\ e[i].whole
            /\ FoldLeft(AddSize, 0, e) <= MaxExtracted
            /\ \A n \in Wanted :
                 \E i \in F : /\ e[i].path = n /\ e[i].size > 0
                              /\ \A j \in F : e[j].path = n => j = i

\* The downloaded files are accepted exactly when they are what they should be
\* (parseChecksum and readTarBinaries against their reference definitions).
DownloadsAreJudged == ChecksumIsTheOnly /\ ArchiveIsComplete

\* What a helper installs is the version its client was offered, of a release
\* that is published, from an archive with the digest the release states; and
\* unless another helper has overtaken it since it compared versions, it is never
\* older than what was there, not even when a client that was started before an
\* update applies an offer of its own.
InstalledAsOffered ==
    [][installed' # installed /\ helper' # helper =>
        /\ overtaken \/ compareStableVersions(installed, installed') = -1
        /\ canonicalVersion(info.latest) = installed'
        /\ Published(helper.selected)
        /\ answer'.kind = "archive" /\ answer'.body.digest = helper.digest]_feedVars
=============================================================================
