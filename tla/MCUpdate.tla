------------------------------- MODULE MCUpdate -------------------------------
(* The update for TLC: the choice and the download of a release, and the      *)
(* replacement of the executables by one or two helpers.  The second begins   *)
(* where the first ends and shares no state with it, so a behaviour is about  *)
(* one part, as focus says: the feeds, the contents of the downloaded files,  *)
(* or the replacement.                                                        *)
EXTENDS ReleaseFeed, Replacement, TLC

VARIABLE focus

\* The first executable to be replaced and the last.
FirstAndLast == <<"tuiboxd", "helper">>

Tag(v, a, b, c) == [v |-> v, parts |-> <<a, b, c>>]
InstalledFirst == Tag(TRUE, 1, 0, 0)

Assets == <<[name |-> "archive", https |-> TRUE], [name |-> "checksums", https |-> TRUE]>>
Release(tag, draft, assets) == [tag |-> tag, draft |-> draft, prerelease |-> FALSE, assets |-> assets]

\* Two releases of one version, an older one whose last part is greater, a
\* draft, a prerelease, one with an archive too many and one without a version.
Releases ==
    {Release(Tag(TRUE, 1, 2, 0), FALSE, Assets),
     Release(Tag(FALSE, 1, 2, 0), FALSE, <<Assets[1]>> \o Assets),
     Release(Tag(TRUE, 1, 1, 9), FALSE, Assets),
     Release(Tag(TRUE, 1, 1, 9), TRUE, Assets),
     [Release(Tag(TRUE, 1, 2, 0), FALSE, Assets) EXCEPT !.prerelease = TRUE],
     Release([v |-> TRUE, parts |-> <<2, Bad, 0>>], FALSE, Assets)}

UpTo(S, n) == UNION {[1..k -> S] : k \in 0..n}

AllFeeds == UpTo(Releases, 3)
OneFeed == {<<Release(Tag(TRUE, 1, 2, 0), FALSE, Assets)>>}

Line(fields, hex, name, digest) == [fields |-> fields, hex |-> hex, name |-> name, digest |-> digest]
Lines ==
    {Line(2, TRUE, "archive", "d1"), Line(2, TRUE, "archive", "d2"), Line(2, TRUE, "other", "d2"),
     Line(0, FALSE, "", ""), Line(1, TRUE, "", "d1"), Line(2, FALSE, "archive", "d1")}
AllDocuments == UpTo(Lines, 3)
OneDocument == {<<Line(2, TRUE, "archive", "d1")>>}

Entry(path, type, size) == [path |-> path, type |-> type, size |-> size, whole |-> TRUE]
Entries ==
    {Entry(<<"tuibox">>, "file", 2), Entry(<<"tuiboxd">>, "file", 2), Entry(<<"tuiboxd">>, "file", 0),
     Entry(<<"other">>, "file", 2), Entry(<<"docs", "">>, "dir", 0), Entry(<<"..", "tuibox">>, "file", 1),
     Entry(<<"other">>, "link", 0), Entry(<<"other">>, "file", 4), Entry(<<"other">>, "file", -1),
     [Entry(<<"tuibox">>, "file", 2) EXCEPT !.whole = FALSE]}
Archive(entries) == [digest |-> "d1", gzip |-> TRUE, entries |-> entries, trailing |-> FALSE]
Good == Archive(<<Entry(<<"tuibox">>, "file", 2), Entry(<<"tuiboxd">>, "file", 2)>>)
TwoArchives == {Good, [Good EXCEPT !.digest = "d2"]}
AllArchives ==
    {Archive(e) : e \in UpTo(Entries, 3) \cup
        {<<Entry(<<"docs", "">>, "dir", 0)>> \o e : e \in {Good.entries \o <<x>> : x \in Entries}}}
    \cup {[Good EXCEPT !.gzip = FALSE], [Good EXCEPT !.trailing = TRUE]} \cup TwoArchives

\* Unusual feeds, and helpers that overtake, come with the usual files, and
\* unusual files with the usual feed.
Usual ==
    /\ focus = "downloads" => ~overtaken /\ installed \in {InstalledFirst, Tag(TRUE, 1, 2, 0)}
    /\ CASE answer.kind = "document" -> focus = "downloads" \/ answer.body \in OneDocument
         [] answer.kind = "archive"  -> focus = "downloads" \/ answer.body \in TwoArchives
         [] answer.kind = "feed"     -> focus = "feeds" \/ answer.body \in OneFeed
         [] OTHER                    -> TRUE

allVars == <<feedVars, vars, focus>>

MCInit == FeedInit /\ Init /\ focus \in {"feeds", "downloads", "files"}

\* When the helpers are done, or the power is off, nothing more happens to the
\* executables.
MCNext ==
    \/ focus # "files" /\ FeedNext /\ UNCHANGED <<vars, focus>> /\ Usual'
    \/ focus = "files" /\ Next /\ UNCHANGED <<feedVars, focus>>
    \/ /\ focus = "files" /\ \A h \in Helpers : pc[h] \in {"returned", "dead", "off"}
       /\ UNCHANGED allVars

MCSpec == MCInit /\ [][MCNext]_allVars

\* Helpers differ in nothing but their names.
HelperSymmetry == Permutations(Helpers)
=============================================================================
