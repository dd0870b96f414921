---------------------------- MODULE LibraryBuild -----------------------------
(* The release of the libraries (xr publish-libs, patch-libs, set-latest):  *)
(* every library is compiled into a directory of its own, all at once; then *)
(* one after the other they take in the libraries they import, as a peer    *)
(* dependency or as an embedded copy, and are published or copied into      *)
(* another project.  What is published is immutable (npm); a run may be     *)
(* killed at any step and started again.                                    *)
EXTENDS Naturals, Sequences, FiniteSets

CONSTANTS
    Libraries,
    Mode,         \* libraryMode of each library: "PEER" or "EMBEDDED"
    Packages,     \* dependencies of the root's package.json
    LastVersion,  \* bound on the version
    Requires,     \* what each library imports by name, in each version
    Scans,        \* the orders in which directories can be visited, without
                  \* the libraries whose configuration could not be read
    MaxRuns,      \* bound on the commands
    None

VARIABLES
    version,      \* of the root's package.json
    run,          \* the command that runs, or None
    phase,        \* where it is
    children,     \* the libraries it has loaded, later arranged
    output,       \* the build directories: copies of compiled libraries by path
    imports,      \* of each builder, not yet digested
    peers,        \* peerDependencies of each builder
    at,           \* index of the library at hand
    registry,     \* what is published
    target,       \* the project that is patched
    latest,       \* the version tagged `latest`
    finished,     \* versions a run has published and ended well
    runs

released == <<registry, target, latest, finished>>
building == <<output, imports, peers>>
vars == <<version, run, phase, children, building, at, released, runs>>

Elements(s) == {s[i] : i \in DOMAIN s}
Loaded == Elements(children)

Init ==
    /\ version = 1 /\ run = None /\ phase = "idle" /\ children = <<>>
    /\ output = [l \in Libraries |-> {}] /\ target = output
    /\ imports = output /\ peers = output
    /\ at = 1
    /\ registry = {} /\ finished = {} /\ runs = 0
    /\ latest = [l \in Libraries |-> None]

NewVersion ==
    /\ run = None /\ version < LastVersion
    /\ version' = version + 1
    /\ UNCHANGED <<run, phase, children, building, at, released, runs>>

(* circulateFilesRecursive reports an error of loadPackage and goes on, so  *)
(* a library that cannot be loaded is not a child.                          *)
scanRoot == Scans

Start ==
    /\ run = None /\ runs < MaxRuns
    /\ runs' = runs + 1
    /\ \E cmd \in {"publish", "patch", "set-latest"}, s \in scanRoot :
          /\ run' = cmd
          /\ children' = s
          /\ phase' = IF cmd = "set-latest" THEN "tag" ELSE "prebuild"
    /\ imports' = [l \in Libraries |-> {}]
    /\ peers' = [l \in Libraries |-> {None}]
    /\ at' = 1
    /\ UNCHANGED <<version, output, released>>

Ended(well) ==
    /\ run' = None /\ phase' = "idle" /\ children' = <<>>
    /\ finished' = finished \union
          (IF well /\ run = "publish" THEN {[version |-> version, of |-> Loaded]} ELSE {})
    /\ imports' = [l \in Libraries |-> {}] /\ peers' = imports' /\ at' = 1
    /\ UNCHANGED <<version, runs>>

Killed ==
    /\ run # None
    /\ Ended(FALSE)
    /\ UNCHANGED <<output, registry, target, latest>>

-----------------------------------------------------------------------------
(* prebuild: the directory is removed and filled by tsc, then read again    *)
(* for what it imports.  The builds run side by side, each in its own       *)
(* directory.                                                               *)
Compiled(l) ==
    {[path |-> <<>>, from |-> version, raw |-> Requires[version][l], peers |-> {}]}

Cleared(l) == {}

collectImports(l) == Requires[version][l] \intersect Loaded
Notbuilt(l) == peers[l] = {None}

prebuild(l) ==
    /\ phase = "prebuild" /\ l \in Loaded /\ Notbuilt(l)
    /\ output' = [output EXCEPT ![l] = Cleared(l) \union Compiled(l)]
    /\ imports' = [imports EXCEPT ![l] = collectImports(l)]
    /\ peers' = [peers EXCEPT ![l] = Requires[version][l] \intersect Packages]
    /\ UNCHANGED <<version, run, phase, children, at, released, runs>>

(* A failed compilation ends the run, once the other builds have come to    *)
(* their ends too; what tsc reports errors for may be written or not.       *)
PrebuildFails ==
    /\ phase = "prebuild"
    /\ LET rest == {l \in Loaded : Notbuilt(l)} IN
          /\ rest # {}
          /\ \E written \in SUBSET rest :
                output' = [l \in Libraries |-> IF l \in written THEN Compiled(l)
                                               ELSE IF l \in rest THEN {} ELSE output[l]]
    /\ Ended(FALSE)
    /\ UNCHANGED <<registry, target, latest>>

(* `sort` by the number of imports keeps the order of equals.               *)
Position(l) == CHOOSE i \in DOMAIN children : children[i] = l

Earlier_ByPosition(k, l) ==   \* bug: the builders are not sorted
    Position(k) < Position(l)

Earlier(k, l) ==
    LET n(m) == Cardinality(imports[m]) IN
    n(k) < n(l) \/ (n(k) = n(l) /\ Position(k) < Position(l))
Arranged ==
    CHOOSE s \in [1..Len(children) -> Loaded] :
        \A i, j \in 1..Len(children) : i < j => Earlier(s[i], s[j])

Arrange ==
    /\ phase = "prebuild" /\ \A l \in Loaded : ~Notbuilt(l)
    /\ children' = Arranged
    /\ phase' = "digest"
    /\ UNCHANGED <<version, run, building, at, released, runs>>

-----------------------------------------------------------------------------
(* digest: an import of a PEER becomes a peer dependency; an EMBEDDED one   *)
(* is copied as it is now and the imports of it are replaced, but not       *)
(* those of the copies.                                                     *)
Replaced(l, x) == {IF r.path = <<>> THEN [r EXCEPT !.raw = @ \ {x}] ELSE r : r \in output[l]}
Embedded(x) == {[r EXCEPT !.path = <<x>> \o @] : r \in output[x]}

digest(l, x) ==
    /\ IF Mode[x] = "PEER"
       THEN peers' = [peers EXCEPT ![l] = @ \union {x}] /\ UNCHANGED output
       ELSE output' = [output EXCEPT ![l] = Replaced(l, x) \union Embedded(x)] /\ UNCHANGED peers
    /\ imports' = [imports EXCEPT ![l] = @ \ {x}]

Digest ==
    /\ phase = "digest" /\ at <= Len(children)
    /\ \E x \in imports[children[at]] : digest(children[at], x)
    /\ UNCHANGED <<version, run, phase, children, at, released, runs>>

writePackage ==
    /\ phase = "digest" /\ at <= Len(children)
    /\ LET l == children[at] IN
          /\ imports[l] = {}
          /\ output' = [output EXCEPT ![l] =
                {IF r.path = <<>> THEN [r EXCEPT !.peers = peers[l]] ELSE r : r \in @}]
    /\ at' = at + 1
    /\ UNCHANGED <<version, run, phase, children, imports, peers, released, runs>>

Built ==
    /\ phase = "digest" /\ at > Len(children)
    /\ phase' = "deliver" /\ at' = 1
    /\ UNCHANGED <<version, run, children, building, released, runs>>

-----------------------------------------------------------------------------
Published(l, v) == \E p \in registry : p.name = l /\ p.version = v
Onwards ==
    /\ at' = at + 1
    /\ UNCHANGED <<version, run, phase, children, imports, peers, finished, output, runs>>
Here == children[at]

(* publishOnNpm with --direct (without it, packages are staged and wait for *)
(* an approval at the registry): the registry refuses a version it has.     *)
(* The first refusal ends the run.                                          *)
publishOnNpm ==
    /\ phase = "deliver" /\ run = "publish" /\ at <= Len(children) /\ Mode[Here] = "PEER"
    /\ IF Published(Here, version)
       THEN Ended(FALSE) /\ UNCHANGED <<registry, output>>
       ELSE /\ registry' = registry \union
                  {[name |-> Here, version |-> version, copies |-> output[Here], of |-> Loaded]}
            /\ Onwards
    /\ UNCHANGED <<target, latest>>

(* Copied over what is there.                                               *)
PatchAnother ==
    /\ phase = "deliver" /\ run = "patch" /\ at <= Len(children) /\ Mode[Here] = "PEER"
    /\ target' = [target EXCEPT ![Here] =
          {r \in @ : \A s \in output[Here] : s.path # r.path} \union output[Here]]
    /\ Onwards
    /\ UNCHANGED <<registry, latest>>

SkipEmbedded ==
    /\ phase \in {"deliver", "tag"} /\ at <= Len(children) /\ Mode[Here] # "PEER"
    /\ Onwards
    /\ UNCHANGED <<registry, target, latest>>

(* set-latest: npm refuses to tag a version that is not published.          *)
SetLatest ==
    /\ phase = "tag" /\ at <= Len(children) /\ Mode[Here] = "PEER"
    /\ IF Published(Here, version)
       THEN latest' = [latest EXCEPT ![Here] = version] /\ Onwards
       ELSE Ended(FALSE) /\ UNCHANGED <<latest, output>>
    /\ UNCHANGED <<registry, target>>

Succeed ==
    /\ phase \in {"deliver", "tag"} /\ at > Len(children)
    /\ Ended(TRUE)
    /\ UNCHANGED <<output, registry, target, latest>>

Next ==
    \/ NewVersion \/ Start \/ Killed
    \/ (\E l \in Libraries : prebuild(l)) \/ PrebuildFails
    \/ Arrange \/ Digest \/ writePackage \/ Built
    \/ publishOnNpm \/ PatchAnother \/ SkipEmbedded \/ SetLatest \/ Succeed

Spec == Init /\ [][Next]_vars

-----------------------------------------------------------------------------
(* Whatever the earlier runs have left and wherever they were killed, a     *)
(* package that is published consists of copies compiled from the version   *)
(* it has.                                                                  *)
OneVersion == \A p \in registry : \A r \in p.copies : r.from = p.version

(* What a published package itself imports of the libraries that were       *)
(* loaded is with it: declared as a peer dependency, or copied and no       *)
(* longer imported by name.                                                 *)
OwnImportsResolve ==
    \A p \in registry : \A x \in Requires[p.version][p.name] \intersect p.of :
        IF Mode[x] = "PEER"
        THEN \E r \in p.copies : r.path = <<>> /\ x \in r.peers
        ELSE /\ \E r \in p.copies : r.path = <<x>>
             /\ \A r \in p.copies : r.path = <<>> => x \notin r.raw

(* The libraries a copy embeds are replaced in the copy too, if a library   *)
(* always has more imports than what it embeds: otherwise it can be copied  *)
(* before it is finished, as the order is that of the numbers of imports    *)
(* and not that of the imports themselves.                                  *)
MoreThanEmbedded(v, of) ==
    \A l \in of : \A x \in Requires[v][l] \intersect of :
        Mode[x] = "EMBEDDED" =>
            Cardinality(Requires[v][x] \intersect of) < Cardinality(Requires[v][l] \intersect of)

EmbedsAreFinished ==
    \A p \in registry : MoreThanEmbedded(p.version, p.of) =>
        \A r \in p.copies : \A x \in r.raw \intersect p.of : Mode[x] = "PEER"

(* Once a run has published a version to the end, every peer dependency of  *)
(* a package of that run is published in the same version.                  *)
FinishedIsClosed ==
    \A f \in finished : \A p \in registry :
        p.version = f.version /\ p.name \in f.of =>
            \A r \in p.copies : r.path = <<>> =>
                \A x \in r.peers \intersect Libraries : Published(x, p.version)

(* The packages that are released hold together: see the four parts.        *)
LibrariesHold == OneVersion /\ OwnImportsResolve /\ EmbedsAreFinished /\ FinishedIsClosed
=============================================================================
