--------------------------------- MODULE SubDL ---------------------------------
(***************************************************************************)
(* internal/provider/subdl, as the Pipeline's fetch uses it: Search walks  *)
(* the pages of the server's listing, scoring picks a Candidate, Download  *)
(* takes one subtitle out of what the server sends.  Workers share one     *)
(* Provider and its Suspension.  A request is one attempt of an operation; *)
(* pacing and backoff between attempts are in Retry.                       *)
(***************************************************************************)
EXTENDS Scoring

CONSTANTS
  Worker,
  Video,
  Text, Url,   \* words of titles, attributes of releases; download paths
  Name,        \* Name[v]: its file name, tokenized
  Titled,      \* Titled[v]: the title and year of a video that is well named
  Listing,     \* what the server may have for v is one of Listing[v] ...
  Pages,       \* ... and Pages[l] is a listing l, page by page
  Body,        \* Body[u]: what it sends for the download path u
  MaxRetries,  \* retry.Policy
  Day, Reset,  \* length of a day; times X-RateLimit-Reset may name
  Horizon,     \* bound on time
  Fetches      \* bound on fetches

ASSUME SubDLConstants ==
  /\ Video # {}
  /\ MaxRetries \in Nat /\ Day \in Nat \ {0} /\ Reset \subseteq Nat
  /\ Horizon \in Nat \ {0} /\ Fetches \in Nat

Class == [type : {"movie", "episode"}, season : Nat, episode : Nat]
Release == [source : Text, group : Text, resolution : Text, codec : Text]

\* One entry of a listing, which may be a pack of many files; one page of it.
FileEntry == [url : Url, name : Class, release : Class, wire : Class, cosmetics : Release]
Item == [url : Url, fullSeason : BOOLEAN, season : Nat, episode : Nat, cosmetics : Release,
         files : Seq(FileEntry)]
PageOfListing ==
  [title : Seq(Text), year : Nat, items : Seq(Item), current : Nat, total : Nat]

ASSUME SubDLListings ==
  \A v \in Video : /\ Name[v].class \in Class
                   /\ Listing[v] # {}
                   /\ \A l \in Listing[v] : Pages[l] \in Seq(PageOfListing)

ASSUME SubDLBodies ==
  \A u \in Url : Body[u].entries \in Seq([srt : BOOLEAN, class : Class])

Token == [kind : STRING, text : Text, number : Nat]

\* A film is named with its year.
ASSUME SubDLNames ==
  \A v \in DOMAIN Titled :
    /\ v \in Video /\ Name[v].tokens \in Seq(Token) /\ Name[v].class # Episode(0, 0)
    /\ Names(Name[v].tokens, Titled[v].title, Titled[v].year)
    /\ Name[v].class.type = "movie" => Titled[v].year # 0

\* domain.Candidate, as this Provider makes it.
Candidates ==
  [id : Url, title : Seq(Text), year : Nat, season : Nat, episode : Nat,
   source : Text, group : Text, resolution : Text, codec : Text, hashMatch : {FALSE}]

VARIABLES
  paid,            \* Config.Paid
  now,
  suspendedUntil,  \* 0 for the zero time
  call,            \* call[w]: the fetch worker w is at
  fetches          \* fetches left

vars == <<paid, now, suspendedUntil, call, fetches>>

searchMaxPages == 3

Label == {"idle", "search", "choose", "download", "done"}
Outcome == {"none", "suspended", "failed", "miss", "fetched"}

NoBest == 0
\* What is known of a video; a name that cannot be parsed has no title to ask for.
Unparsed == [type |-> "none", season |-> 0, episode |-> 0]
Info(v) == IF Parseable(Name[v]) THEN Parse(Name[v]) ELSE Unparsed

Fetch(pc, v, l) ==
  [pc |-> pc, video |-> v, info |-> Info(v), listing |-> l, page |-> 1, attempt |-> 0,
   gathered |-> <<>>, best |-> NoBest, outcome |-> "none", got |-> Movie]

Idle == LET v == CHOOSE v \in Video : TRUE IN Fetch("idle", v, CHOOSE l \in Listing[v] : TRUE)

Calls ==
  [pc : Label, video : Video, info : {Info(v) : v \in Video},
   listing : UNION {Listing[v] : v \in Video},
   page : 1 .. searchMaxPages, attempt : 0 .. MaxRetries, gathered : Seq(Candidates), best : Nat,
   outcome : Outcome, got : Class]

TypeOK ==
  /\ paid \in BOOLEAN
  /\ now \in 1 .. Horizon /\ suspendedUntil \in Nat /\ fetches \in 0 .. Fetches
  /\ call \in [Worker -> Calls]
  /\ \A w \in Worker :
       /\ call[w].info = Info(call[w].video) /\ call[w].listing \in Listing[call[w].video]
       /\ call[w].best \in 0 .. Len(call[w].gathered)
       /\ call[w].outcome # "none" <=> call[w].pc = "done"

-----------------------------------------------------------------------------
(* candidatesFromResponse. *)

Candidate(page, id, season, episode, release) ==
  [id |-> id, title |-> page.title, year |-> page.year, season |-> season, episode |-> episode,
   source |-> release.source, group |-> release.group, resolution |-> release.resolution,
   codec |-> release.codec, hashMatch |-> FALSE]

\* Mutated: the listing's own season and episode.
ResolveWire(file) == file.wire

\* A pack's entry is what its name says it is, or else its release name.
Resolve(file) == IF file.name.type = "episode" THEN file.name ELSE file.release

CandidatesFromFile(page, file) ==
  IF Resolve(file).type = "episode"
  THEN << Candidate(page, file.url, Resolve(file).season, Resolve(file).episode, file.cosmetics) >>
  ELSE <<>>

CandidatesFromUnpackFiles(page, files) ==
  FlattenSeq([i \in DOMAIN files |-> CandidatesFromFile(page, files[i])])

\* The server breaks packs down only for a query with unpack=1: an episode's.
CandidatesFromItem(page, item, unpack) ==
  IF item.fullSeason
  THEN CandidatesFromUnpackFiles(page, IF unpack THEN item.files ELSE <<>>)
  ELSE << Candidate(page, item.url, item.season, item.episode, item.cosmetics) >>

CandidatesFromResponse(page, unpack) ==
  FlattenSeq([i \in DOMAIN page.items |-> CandidatesFromItem(page, page.items[i], unpack)])

\* extractSubtitleFromZip: the .srt entries, or those named for the Candidate's
\* episode.
Matching(candidate, entries) ==
  {i \in DOMAIN entries : /\ entries[i].srt
                          /\ candidate.episode # 0
                               => entries[i].class = Episode(candidate.season, candidate.episode)}

-----------------------------------------------------------------------------
(* The Suspension. *)

Suspended == suspendedUntil # 0 /\ now < suspendedUntil

\* suspendedError clears a Suspension that is over.
Looked == suspendedUntil' = IF Suspended THEN suspendedUntil ELSE 0

NextUTCMidnight == (now \div Day + 1) * Day

\* suspend: until the time in the header, or midnight if there is none to read.
Suspend == \E resumeAt \in Reset \cup {NextUTCMidnight} : suspendedUntil' = resumeAt

Step(w, c) == call' = [call EXCEPT ![w] = c]
Returns(w, outcome) == Step(w, [call[w] EXCEPT !.pc = "done", !.outcome = outcome])
Server == <<paid, now, fetches>>

-----------------------------------------------------------------------------
(* Search. *)

BeginFetch(w, v, l) ==
  /\ call[w].pc = "idle" /\ fetches > 0 /\ fetches' = fetches - 1
  /\ Looked
  /\ Step(w, IF Suspended THEN [Fetch("done", v, l) EXCEPT !.outcome = "suspended"]
                          ELSE Fetch("search", v, l))
  /\ UNCHANGED <<paid, now>>

NoPage == [title |-> <<>>, year |-> 0, items |-> <<>>, current |-> 0, total |-> 0]

Page(w) ==
  LET pages == Pages[call[w].listing]
  IN  IF call[w].page \in DOMAIN pages THEN pages[call[w].page] ELSE NoPage

LastPage(page) == page.current >= page.total

PageArrives(w) ==
  /\ call[w].pc = "search"
  /\ LET unpack == call[w].info.episode # 0
         c == [call[w] EXCEPT !.gathered = @ \o CandidatesFromResponse(Page(w), unpack)]
     IN  Step(w, IF LastPage(Page(w)) \/ c.page = searchMaxPages
                 THEN [c EXCEPT !.pc = "choose"]
                 ELSE [c EXCEPT !.page = @ + 1, !.attempt = 0])
  /\ UNCHANGED <<Server, suspendedUntil>>

-----------------------------------------------------------------------------
(* selectCandidate, and the start of Download. *)

Choose(w) ==
  /\ call[w].pc = "choose"
  /\ LET best == IF call[w].info = Unparsed THEN NoBest ELSE Select(call[w].info, call[w].gathered)
     IN  \/ /\ call[w].info = Unparsed
            /\ Returns(w, "failed") /\ UNCHANGED suspendedUntil
         \/ /\ call[w].info # Unparsed /\ best = NoBest
            /\ Returns(w, "miss") /\ UNCHANGED suspendedUntil
         \/ /\ call[w].info # Unparsed /\ best # NoBest
            /\ Looked
            /\ Step(w, IF Suspended
                       THEN [call[w] EXCEPT !.pc = "done", !.best = best, !.outcome = "suspended"]
                       ELSE [call[w] EXCEPT !.pc = "download", !.best = best, !.attempt = 0])
  /\ UNCHANGED Server

Best(w) == call[w].gathered[call[w].best]

\* Raw bytes are taken as they are; an archive must have one entry that fits.
BodyArrives(w) ==
  /\ call[w].pc = "download"
  /\ LET body == Body[Best(w).id]
         fits == IF body.zip THEN Matching(Best(w), body.entries) ELSE DOMAIN body.entries
     IN  \/ \E i \in fits :
              /\ fits = {i}
              /\ Step(w, [call[w] EXCEPT !.pc = "done", !.outcome = "fetched",
                                         !.got = body.entries[i].class])
         \/ (~\E i \in fits : fits = {i}) /\ Returns(w, "failed")
  /\ UNCHANGED <<Server, suspendedUntil>>

-----------------------------------------------------------------------------
(* Responses that are not what was asked for: classifyResponse, retry.Do.  *)

Asking(w) == call[w].pc \in {"search", "download"}

\* Mutated: one attempt more than the policy allows.
BusyOnceMore(w) ==
  /\ Asking(w)
  /\ IF call[w].attempt <= MaxRetries
     THEN Step(w, [call[w] EXCEPT !.attempt = @ + 1])
     ELSE Returns(w, "failed")
  /\ UNCHANGED <<Server, suspendedUntil>>

\* Mutated: tried again from the first attempt.
BusyStartsOver(w) ==
  /\ Asking(w)
  /\ Step(w, [call[w] EXCEPT !.attempt = IF @ < MaxRetries THEN @ + 1 ELSE 0])
  /\ UNCHANGED <<Server, suspendedUntil>>

\* 429 or 5xx: again, as often as the policy allows.
Busy(w) ==
  /\ Asking(w)
  /\ IF call[w].attempt < MaxRetries
     THEN Step(w, [call[w] EXCEPT !.attempt = @ + 1])
     ELSE Returns(w, "failed")
  /\ UNCHANGED <<Server, suspendedUntil>>

\* Mutated: what arrived before the failure is returned.
RefusedPartial(w) ==
  /\ Asking(w)
  /\ IF call[w].pc = "search" /\ call[w].page > 1
     THEN Step(w, [call[w] EXCEPT !.pc = "choose"]) ELSE Returns(w, "failed")
  /\ UNCHANGED <<Server, suspendedUntil>>

\* Another status, no response, or one that cannot be decoded.
Refused(w) ==
  /\ Asking(w)
  /\ Returns(w, "failed")
  /\ UNCHANGED <<Server, suspendedUntil>>

\* Mutated: on either path.
QuotaExceededAnyPath(w) ==
  /\ Asking(w)
  /\ Suspend /\ Returns(w, "suspended")
  /\ UNCHANGED Server

\* 429 with quota_exceeded: never tried again.  On the anonymous download path
\* it is an error like any other.
QuotaExceeded(w) ==
  /\ Asking(w)
  /\ IF call[w].pc = "search" \/ paid
     THEN Suspend /\ Returns(w, "suspended")
     ELSE Returns(w, "failed") /\ UNCHANGED suspendedUntil
  /\ UNCHANGED Server

\* The worker is done with the fetch.
EndFetch(w) ==
  /\ call[w].pc = "done"
  /\ Step(w, Idle)
  /\ UNCHANGED <<Server, suspendedUntil>>

Tick ==
  /\ now < Horizon /\ now' = now + 1
  /\ UNCHANGED <<paid, suspendedUntil, call, fetches>>

-----------------------------------------------------------------------------
Init ==
  /\ paid \in BOOLEAN
  /\ now = 1 /\ suspendedUntil = 0
  /\ call = [w \in Worker |-> Idle] /\ fetches = Fetches

Answer(w) == Busy(w) \/ Refused(w) \/ QuotaExceeded(w) \/ PageArrives(w) \/ BodyArrives(w)

WorkerStep(w) == EndFetch(w) \/ Answer(w) \/ Choose(w)

Next ==
  \/ \E w \in Worker : WorkerStep(w) \/ \E v \in Video : \E l \in Listing[v] : BeginFetch(w, v, l)
  \/ Tick

Spec == Init /\ [][Next]_vars

\* Goroutines run, and the server answers somehow or the connection breaks.
FairSpec == Spec /\ \A w \in Worker : WF_vars(WorkerStep(w))

-----------------------------------------------------------------------------
(* Properties. *)

\* What the server lists for episodes or films like info, by names alone, on the
\* pages a search may ask for.
Offers(info, pages) ==
  \E k \in DOMAIN pages : k <= 3 /\
    LET page == pages[k]
        Fits(season, episode) ==
          SameIdentity(info, [title |-> page.title, year |-> page.year,
                              season |-> season, episode |-> episode])
    IN  \E i \in DOMAIN page.items :
          LET item == page.items[i]
          IN  \/ ~item.fullSeason /\ Fits(item.season, item.episode)
              \/ /\ item.fullSeason /\ info.type = "episode"
                 /\ \E j \in DOMAIN item.files :
                      LET f == item.files[j]
                      IN  \/ f.name.type = "episode" /\ Fits(f.name.season, f.name.episode)
                          \/ /\ f.name.type = "movie" /\ f.release.type = "episode"
                             /\ Fits(f.release.season, f.release.episode)

\* A video that is well named is looked for by its title and year, although there may
\* be years in the title and the description (parse.go).
TitleRecovered ==
  \A w \in Worker :
    LET v == call[w].video
    IN  v \in DOMAIN Titled =>
          /\ call[w].info # Unparsed
          /\ call[w].info.title = Titled[v].title /\ call[w].info.year = Titled[v].year

\* A miss is recorded for good, so it must mean that the server has nothing:
\* never that a page failed, or was not asked for.
MissJustified ==
  \A w \in Worker :
    call[w].outcome = "miss" => ~Offers(call[w].info, Pages[call[w].listing])

\* What is downloaded has the video's identity, and nothing else with it is
\* better in the order of the attributes, or as good and listed before
\* (CONTEXT.md, Candidate).
BestTaken ==
  \A w \in Worker :
    LET info == call[w].info
        cs == call[w].gathered
        best == call[w].best
    IN  best # NoBest =>
          /\ SameIdentity(info, cs[best])
          /\ \A i \in DOMAIN cs : SameIdentity(info, cs[i]) =>
               /\ ~Better(info, cs[i], cs[best])
               /\ Matches(info, cs[i]) = Matches(info, cs[best]) => best <= i

\* The subtitle of an episode is that episode's, whatever else its archive holds
\* and whatever the listing says of a pack's entries (ADR 0011, ADR 0012).
RightEpisode ==
  \A w \in Worker :
    call[w].outcome = "fetched" /\ Name[call[w].video].class.type = "episode"
      => call[w].got = Name[call[w].video].class

\* Only a search or a paid download suspends the Provider (ADR 0007).
SuspensionEarned ==
  [][suspendedUntil' \notin {0, suspendedUntil} =>
       \E w \in Worker : /\ call[w].pc = "search" \/ (call[w].pc = "download" /\ paid)
                         /\ call'[w].outcome = "suspended"]_vars

\* A fetch comes back, however often the server is busy.
FetchReturns == <>[](\A w \in Worker : call[w].pc = "idle")
=============================================================================
