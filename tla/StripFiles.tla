------------------------------ MODULE StripFiles ------------------------------
(***************************************************************************)
(* internal/strip at work in one directory of a Library: the workers that  *)
(* remux a video, write a sidecar and remove the ones it replaces, file    *)
(* operation by file operation, and the Watcher's clean-up of stray temp   *)
(* files at start, which runs beside them.  A file name is the sequence of *)
(* its dot-separated segments; the content of a video is its subtitle      *)
(* streams, the content of a sidecar is the video its Marker is bound to.  *)
(***************************************************************************)
EXTENDS Naturals, Sequences, SequencesExt, FiniteSets

CONSTANTS
  Video,      \* names of the directory's videos
  Other,      \* names of the sidecars that may lie beside them at first
  Language,   \* segments and stream tags that parse as a language
  Tag,        \* random parts of temp names; bounds how many are drawn
  Library,    \* settings of the Library and what is in the directory at first
  Worker,     \* goroutines working on pairs of this directory
  Stops,      \* bound: how often the daemon is stopped
  Foreign,    \* content of a sidecar without a Marker
  Partial,    \* content of a file that is being written
  Absent,     \* dir[n] when there is no such file
  NoJob       \* job of an idle worker

Stem(v) == Front(v)

\* WriteSidecar's final name, and newTempPath.
SidecarName(v, l) == Stem(v) \o <<l, "srt">>
TempName(v, t, ext) == Stem(v) \o <<t, ext>>

IsStray(n) == \E i \in DOMAIN n : n[i] \in Tag

Final == Video \cup Other \cup {SidecarName(v, l) : v \in Video, l \in Language}
Temp == {TempName(v, t, Last(v)) : v \in Video, t \in Tag}
          \cup {TempName(v, t, "srt") : v \in Video, t \in Tag}
Name == Final \cup Temp

\* The hash of a video tells its content, and two videos, apart.
Film == [video : Video, stream : Seq(Language)]
Content == Film \cup {Foreign, Partial}

Scope == {"all", "per_language"}

ASSUME StripConstants ==
  /\ \A v \in Video : v # <<>> /\ v \in Seq({v[i] : i \in DOMAIN v})
  /\ \A n \in Final : ~IsStray(n)
  /\ \A n \in Temp : IsStray(n)
  /\ Library \subseteq [scope : Scope, langs : SUBSET Language,
                        stream : [Video -> Seq(Language)], beside : SUBSET Other]
  /\ Stops \in Nat
  /\ Foreign \notin Film /\ Partial \notin Film \cup {Foreign} /\ Absent \notin Content

\* What a worker knows: its pair, its fence on the Content Hash, the stream
\* indices to drop, the file it writes to, what it writes, the sidecars to look at.
Job == [video : Video, lang : Language, hash : Film, drop : SUBSET Nat,
        temp : Name \cup {Absent}, film : Film, todo : SUBSET Name, next : Name \cup {Absent}]

ASSUME StripNoJob == NoJob \notin Job

VARIABLES
  dir,       \* the directory: content of each file
  lib,       \* strip_scope, languages; embedded streams and sidecars at first
  recorded,  \* Content Hash of each video in the state store
  status,    \* Sync Status of each pair
  pc, job,   \* where each worker is, and what it knows
  drawn,     \* tags used in temp names so far
  watcher,   \* where Watcher.Start is
  strays,    \* temp files its clean-up has listed and not visited yet
  old,       \* temp files left by a process that has stopped
  stops      \* what is left of Stops

workerVars == <<pc, job>>
storeVars == <<recorded, status>>
startVars == <<watcher, strays, old, stops>>
vars == <<dir, lib, storeVars, workerVars, drawn, startVars>>

Label == {"idle", "probe", "remux", "remuxing", "rename", "rehash", "record", "write",
          "writing", "place", "list", "strip", "remove", "finish", "failed"}

TypeOK ==
  /\ dir \in [Name -> Content \cup {Absent}]
  /\ lib \in Library
  /\ recorded \in [Video -> Film]
  /\ status \in [Video -> [Language -> {"pending", "in_progress", "synced", "failed"}]]
  /\ pc \in [Worker -> Label]
  /\ job \in [Worker -> Job \cup {NoJob}]
  /\ \A w \in Worker : pc[w] = "idle" <=> job[w] = NoJob
  /\ drawn \subseteq Tag
  /\ watcher \in {"down", "start", "clean", "watching", "stopped"}
  /\ strays \subseteq Name /\ old \subseteq Name
  /\ stops \in 0..Stops

-----------------------------------------------------------------------------
(* Names and contents. *)

InitFilm(v) == [video |-> v, stream |-> lib.stream[v]]

Exists(n) == dir[n] # Absent

\* Mutated: the codec is registered under another extension.
HasCodecElsewhere(n) == Last(n) = "ass"

\* The extensions a Marker can be written to, and those known as sidecars.
HasCodec(n) == Last(n) = "srt"
IsSidecar(n) == Last(n) \in {"srt", "ass", "ssa", "vtt", "sub"}

ASSUME StripVideos ==
  (\A v \in Video : ~IsSidecar(v)) /\ (\A n \in Other : IsSidecar(n))

\* ListSidecars: everything that begins with the stem and a dot, and what
\* parseSidecarSuffix makes of the rest.
ListSidecars(v) == {n \in Name : Exists(n) /\ IsStrictPrefix(Stem(v), n) /\ IsSidecar(n)}

Tagged(v, n, l) == Len(n) >= Len(v) + 1 /\ n[Len(n) - 1] = l

\* IsSidecarTrusted.  A half-written or unmarked file has no valid Marker.
IsTrusted(n, hash) == HasCodec(n) /\ dir[n] = hash

NeedsFetch(v, l, hash) == ~\E n \in ListSidecars(v) : Tagged(v, n, l) /\ IsTrusted(n, hash)

\* Mutated: the language of a stream is not looked at.
ToDropAll(stream, l) == DOMAIN stream

\* StripEmbedded's choice of streams, and StripSidecars' of sidecars.
ToDrop(stream, l) == {i \in DOMAIN stream : lib.scope = "all" \/ stream[i] = l}

Candidates(v, l) ==
  {n \in ListSidecars(v) : n # SidecarName(v, l) /\ (lib.scope = "all" \/ Tagged(v, n, l))}

\* ffmpeg -map 0 -map -0:i: what is left without the streams at these indices.
Kept(stream, drop) ==
  LET kept[i \in 0 .. Len(stream)] ==
        IF i = 0 THEN <<>>
        ELSE IF i \in drop THEN kept[i - 1] ELSE Append(kept[i - 1], stream[i])
  IN  kept[Len(stream)]

Without(film, drop) == [film EXCEPT !.stream = Kept(@, drop)]

-----------------------------------------------------------------------------
(* One worker on one pair. *)

At(w, label) == pc[w] = label
Goto(w, label) == pc' = [pc EXCEPT ![w] = label]
Knows(w, j) == job' = [job EXCEPT ![w] = j]
V(w) == job[w].video
L(w) == job[w].lang

Outside == <<lib, startVars>>

\* A step of w that only looks; a step that gives the attempt up.
Look(w, label, j) == Goto(w, label) /\ Knows(w, j) /\ UNCHANGED <<dir, storeVars, drawn, Outside>>
GiveUp(w) == Look(w, "failed", job[w])

\* Mutated: the job is not given back.
ReturnKeepsJob(w) == Goto(w, "idle") /\ UNCHANGED job

Return(w) == Goto(w, "idle") /\ Knows(w, NoJob)

\* The status write of w, refused if the recorded hash is not the one it knows.
Settle(w, outcome) ==
  /\ status' = IF recorded[V(w)] = job[w].hash
               THEN [status EXCEPT ![V(w)][L(w)] = outcome] ELSE status
  /\ Return(w)
  /\ UNCHANGED <<dir, recorded, drawn, Outside>>

\* A Pending pair: nothing to do if its sidecar is there, else it is fetched.
Claim(w, v, l) ==
  /\ At(w, "idle") /\ watcher # "down" /\ status[v][l] = "pending"
  /\ LET j == [video |-> v, lang |-> l, hash |-> recorded[v], drop |-> {}, temp |-> Absent,
               film |-> recorded[v], todo |-> {}, next |-> Absent]
     IN  \/ /\ NeedsFetch(v, l, recorded[v])
            /\ status' = [status EXCEPT ![v][l] = "in_progress"]
            /\ Goto(w, "probe") /\ Knows(w, j)
         \/ /\ ~NeedsFetch(v, l, recorded[v])
            /\ status' = [status EXCEPT ![v][l] = "synced"]
            /\ UNCHANGED workerVars
  /\ UNCHANGED <<dir, recorded, drawn, Outside>>

\* ffprobe: if there is nothing to drop the video is not touched.
Probe(w) ==
  /\ At(w, "probe")
  /\ LET drop == ToDrop(dir[V(w)].stream, L(w))
     IN  Look(w, IF drop = {} THEN "write" ELSE "remux", [job[w] EXCEPT !.drop = drop])

\* A temp file beside the video.  Its tag is random: any unused one will do.
OpenTemp(w, label, ext, film) ==
  LET t == CHOOSE t \in Tag : t \notin drawn
      n == TempName(V(w), t, ext)
  IN  /\ drawn # Tag /\ drawn' = drawn \cup {t}
      /\ dir' = [dir EXCEPT ![n] = Partial]
      /\ Goto(w, label) /\ Knows(w, [job[w] EXCEPT !.temp = n, !.film = film])
      /\ UNCHANGED <<storeVars, Outside>>

\* ffmpeg opens the video that is there by now.  It refuses an index it lacks.
Remux(w) ==
  /\ At(w, "remux")
  /\ IF job[w].drop \subseteq DOMAIN dir[V(w)].stream
     THEN OpenTemp(w, "remuxing", Last(V(w)), Without(dir[V(w)], job[w].drop))
     ELSE GiveUp(w)

\* The file is complete, unless it was unlinked while it was written.
CloseTemp(w, label) ==
  /\ dir' = [dir EXCEPT ![job[w].temp] = IF @ = Absent THEN Absent ELSE job[w].film]
  /\ Goto(w, label)
  /\ UNCHANGED <<storeVars, job, drawn, Outside>>

Remuxed(w) == At(w, "remuxing") /\ CloseTemp(w, "rename")

\* ffmpeg fails or is killed, the disk is full: the temp file stays behind.
TempFails(w) == pc[w] \in {"remuxing", "writing"} /\ GiveUp(w)

\* renameOver
Rename(w, final, label) ==
  IF Exists(job[w].temp)
  THEN /\ dir' = [dir EXCEPT ![final] = dir[job[w].temp], ![job[w].temp] = Absent]
       /\ Goto(w, label) /\ Knows(w, [job[w] EXCEPT !.temp = Absent])
       /\ UNCHANGED <<storeVars, drawn, Outside>>
  ELSE GiveUp(w)

RenameVideo(w) == At(w, "rename") /\ Rename(w, V(w), "rehash")

Rehash(w) == At(w, "rehash") /\ Look(w, "record", [job[w] EXCEPT !.film = dir[V(w)]])

\* UpdateContentHash.  Refused, the attempt ends and the pair's row is not written.
Record(w) ==
  /\ At(w, "record")
  /\ IF recorded[V(w)] = job[w].hash
     THEN /\ recorded' = [recorded EXCEPT ![V(w)] = job[w].film]
          /\ Goto(w, "write") /\ Knows(w, [job[w] EXCEPT !.hash = job[w].film])
     ELSE Return(w) /\ UNCHANGED recorded
  /\ UNCHANGED <<dir, status, drawn, Outside>>

\* Mutated: the sidecar is written in place.
WriteTempInPlace(w) ==
  /\ At(w, "write")
  /\ LET n == SidecarName(V(w), L(w))
     IN  /\ dir' = [dir EXCEPT ![n] = Partial]
         /\ Goto(w, "writing")
         /\ Knows(w, [job[w] EXCEPT !.temp = n, !.film = job[w].hash])
  /\ UNCHANGED <<storeVars, drawn, Outside>>

\* Mutated: the old sidecars are removed first.
WriteTempLast(w) ==
  /\ At(w, "write")
  /\ \E n \in Candidates(V(w), L(w)) :
       dir' = [dir EXCEPT ![n] = Absent, ![SidecarName(V(w), L(w))] = Absent]
  /\ UNCHANGED <<lib, storeVars, workerVars, drawn, startVars>>

\* Swap: WriteSidecar ...
WriteTemp(w) == At(w, "write") /\ OpenTemp(w, "writing", "srt", job[w].hash)

WrittenTemp(w) == At(w, "writing") /\ CloseTemp(w, "place")

PlaceSidecar(w) == At(w, "place") /\ Rename(w, SidecarName(V(w), L(w)), "list")

\* ... and StripSidecars, one sidecar after the other.
List(w) ==
  /\ At(w, "list")
  /\ Look(w, "strip", [job[w] EXCEPT !.todo = Candidates(V(w), L(w))])

\* Reading a sidecar that is gone by now is an error; a trusted one is kept.
CheckTrust(w, n) ==
  /\ At(w, "strip") /\ n \in job[w].todo
  /\ LET j == [job[w] EXCEPT !.todo = @ \ {n}, !.next = n]
     IN  IF HasCodec(n) /\ ~Exists(n) THEN GiveUp(w)
         ELSE Look(w, IF IsTrusted(n, job[w].hash) THEN "strip" ELSE "remove", j)

RemoveSidecar(w) ==
  /\ At(w, "remove")
  /\ IF Exists(job[w].next)
     THEN /\ dir' = [dir EXCEPT ![job[w].next] = Absent]
          /\ Goto(w, "strip")
          /\ UNCHANGED <<storeVars, job, drawn, Outside>>
     ELSE GiveUp(w)

Stripped(w) == At(w, "strip") /\ job[w].todo = {} /\ Look(w, "finish", job[w])

Finish(w) == At(w, "finish") /\ Settle(w, "synced")
Fail(w) == At(w, "failed") /\ Settle(w, "failed")

WorkerStep(w) ==
  \/ \E v \in Video, l \in lib.langs : Claim(w, v, l)
  \/ Probe(w) \/ Remux(w) \/ Remuxed(w) \/ TempFails(w) \/ RenameVideo(w)
  \/ Rehash(w) \/ Record(w)
  \/ WriteTemp(w) \/ WrittenTemp(w) \/ PlaceSidecar(w)
  \/ List(w) \/ \E n \in Name : CheckTrust(w, n)
  \/ RemoveSidecar(w) \/ Stripped(w) \/ Finish(w) \/ Fail(w)

-----------------------------------------------------------------------------
(* Start and stop; Watcher.Start begins with CleanStrayTempFiles. *)

Inside == <<lib, recorded, workerVars, drawn>>

StrayFiles == {n \in Name : Exists(n) /\ IsStray(n)}

\* RecoverInProgress, then workers and Watcher run beside each other.
Start ==
  /\ watcher = "down" /\ watcher' = "start"
  /\ status' = [v \in Video |-> [l \in Language |->
                  IF status[v][l] = "in_progress" THEN "pending" ELSE status[v][l]]]
  /\ old' = StrayFiles
  /\ UNCHANGED <<dir, Inside, strays, stops>>

\* Mutated: temp videos are not recognised.
CleanListSidecars ==
  /\ watcher = "start" /\ watcher' = "clean"
  /\ strays' = {n \in StrayFiles : IsSidecar(n)}
  /\ UNCHANGED <<dir, status, Inside, old, stops>>

\* WalkDir reads the whole directory, then visits what it has read.
CleanList ==
  /\ watcher = "start" /\ watcher' = "clean"
  /\ strays' = StrayFiles
  /\ UNCHANGED <<dir, status, Inside, old, stops>>

\* A file that is gone by now is an error, which ends Watcher.Start.
CleanStray(n) ==
  /\ watcher = "clean" /\ n \in strays
  /\ strays' = strays \ {n}
  /\ IF Exists(n)
     THEN dir' = [dir EXCEPT ![n] = Absent] /\ UNCHANGED watcher
     ELSE watcher' = "stopped" /\ UNCHANGED dir
  /\ UNCHANGED <<status, Inside, old, stops>>

Cleaned ==
  /\ watcher = "clean" /\ strays = {}
  /\ watcher' = "watching"
  /\ UNCHANGED <<dir, status, Inside, strays, old, stops>>

\* A crash, or the end of a shutdown that interrupted the workers.
Stop ==
  /\ watcher # "down" /\ watcher' = "down"
  /\ stops > 0 /\ stops' = stops - 1
  /\ pc' = [w \in Worker |-> "idle"] /\ job' = [w \in Worker |-> NoJob]
  /\ strays' = {}
  /\ UNCHANGED <<dir, lib, storeVars, drawn, old>>

CleanStep == CleanList \/ Cleaned \/ \E n \in Name : CleanStray(n)

-----------------------------------------------------------------------------
Init ==
  /\ lib \in Library
  /\ dir = [n \in Name |-> IF n \in Video THEN InitFilm(n)
                           ELSE IF n \in lib.beside THEN Foreign ELSE Absent]
  /\ recorded = [v \in Video |-> InitFilm(v)]
  /\ status = [v \in Video |-> [l \in Language |-> "pending"]]
  /\ pc = [w \in Worker |-> "idle"] /\ job = [w \in Worker |-> NoJob]
  /\ drawn = {}
  /\ watcher = "down" /\ strays = {} /\ old = {} /\ stops = Stops

Next ==
  \/ \E w \in Worker : WorkerStep(w)
  \/ Start \/ CleanStep \/ Stop

Spec == Init /\ [][Next]_vars

-----------------------------------------------------------------------------
(* Properties. *)

\* A reader never finds a partly written sidecar or video under its final name,
\* whatever fails, stops or is cleaned up in the middle (WriteSidecar).
NoHalfFile == \A n \in Final : dir[n] # Partial

\* Temp files left by a stopped process are gone once the Watcher watches,
\* although workers make new ones while it cleans up.
StraysCleared == watcher = "watching" => \A n \in old : ~Exists(n)

\* Never a moment with zero sidecars for a language that had one (Swap): not
\* while it is replaced, not after an attempt that fails half-way or is stopped.
\* (With scope "all" the swap of another language takes it, on purpose.)
HasSidecar(v, l) == \E n \in ListSidecars(v) : Tagged(v, n, l)

SidecarStays ==
  [][\A v \in Video, l \in lib.langs :
       lib.scope = "per_language" \/ lib.langs = {l}
         => (HasSidecar(v, l) => HasSidecar(v, l)')]_vars

\* A sidecar Sublime made for a video is left in place as long as the video
\* keeps its content (CONTEXT.md, Strip), whoever strips beside it.
TrustedKept ==
  [][\A v \in Video, l \in lib.langs :
       LET n == SidecarName(v, l)
       IN  dir[n] = dir[v] /\ dir'[v] = dir[v] => dir'[n] = dir[n]]_vars

\* Per language, only subtitles of the Library's languages are ever removed:
\* the others keep their sidecars and their streams, in order.
Unwanted(stream) == Kept(stream, {i \in DOMAIN stream : stream[i] \in lib.langs})

OthersKept ==
  [][lib.scope = "per_language" =>
       /\ \A v \in Video : Unwanted(dir'[v].stream) = Unwanted(dir[v].stream)
       /\ \A n \in Other :
            dir'[n] # dir[n] => \E v \in Video, l \in lib.langs : Tagged(v, n, l)]_vars
=============================================================================
