------------------------------- MODULE Whisper -------------------------------
(***************************************************************************)
(* internal/provider/whisper: one Download.  The film is cut into chunks,  *)
(* each chunk's audio is sent to the sidecar up to MaxAttempts times, and  *)
(* what was heard is joined to a transcript.  The sidecar hears each word  *)
(* of the film a little late, or returns nothing, loops, fails or is down. *)
(* Other workers share the Suspension.                                     *)
(***************************************************************************)
EXTENDS Chunking

CONSTANTS
  MaxAttempts,   \* maxChunkAttempts
  Lateness,      \* how late, in ticks, a word may be heard
  Film           \* films: [total, silences, words], words in order of time

ASSUME WhisperConstants ==
  /\ MaxAttempts \in Nat \ {0} /\ Lateness \subseteq Nat
  /\ \A f \in Film : f.total \in Nat \ {0} /\ \A s \in f.silences : s.from \in Nat /\ s.to \in Nat

\* Words come in the order they are spoken in, numbered.
Unit == [text : STRING, at : Int, word : Nat]

ASSUME WhisperFilms ==
  \A f \in Film :
    /\ f.words \in Seq(Unit)
    /\ \A i \in DOMAIN f.words : f.words[i].word = i /\ f.words[i].at \in 0 .. f.total - 1
    /\ \A i, j \in DOMAIN f.words : i < j => f.words[i].at <= f.words[j].at

VARIABLES
  film, stage,
  start, extractStart, keepFrom, chunks,   \* planChunks
  index, attempt, looped, transcript,      \* Download and transcribeChunk
  result, suspended,
  loops,      \* history: chunks for which some attempt looped
  wordless    \* history: chunks accepted as holding no speech

planVars == <<start, extractStart, keepFrom, chunks>>
chunkVars == <<index, attempt, looped, transcript, loops, wordless>>
vars == <<film, stage, planVars, chunkVars, result, suspended>>

Stage == {"off", "plan", "chunk", "done"}
Result == {"none", "subtitle", "miss", "error", "suspended"}

Init ==
  /\ film \in Film /\ stage = "off"
  /\ start = 0 /\ extractStart = 0 /\ keepFrom = Nothing /\ chunks = << >>
  /\ index = 1 /\ attempt = 1 /\ looped = FALSE /\ transcript = << >>
  /\ loops = {} /\ wordless = {}
  /\ result = "none" /\ suspended = FALSE

\* The call is over.
Return(r) ==
  /\ stage' = "done" /\ result' = r
  /\ UNCHANGED <<film, planVars, chunkVars>>

-----------------------------------------------------------------------------
(* planChunks *)

Long == film.total - start > Target + Window

\* The video's duration is read; a long one's silences as well.
Download ==
  /\ stage \in {"off", "done"} /\ ~suspended
  /\ stage' = "plan" /\ result' = "none"
  /\ start' = 0 /\ extractStart' = 0 /\ keepFrom' = Nothing /\ chunks' = << >>
  /\ index' = 1 /\ attempt' = 1 /\ looped' = FALSE /\ transcript' = << >>
  /\ loops' = {} /\ wordless' = {}
  /\ UNCHANGED <<film, suspended>>

\* While the Suspension lasts the sidecar is not contacted.
TurnedAway == stage \in {"off", "done"} /\ suspended /\ Return("suspended") /\ UNCHANGED suspended

ProbeFails == stage = "plan" /\ chunks = << >> /\ Return("error") /\ UNCHANGED suspended

CutAtSilence ==
  /\ stage = "plan" /\ Long
  /\ \E cut \in SilenceCuts(film.silences, start) :
       /\ chunks' = Append(chunks, Chunk(extractStart, cut, keepFrom, Nothing))
       /\ start' = cut /\ extractStart' = cut /\ keepFrom' = Nothing
  /\ UNCHANGED <<film, stage, chunkVars, result, suspended>>

\* Mutated: the two shares meet at the cut.
CutFixedBare ==
  /\ stage = "plan" /\ Long /\ SilenceCuts(film.silences, start) = {}
  /\ start' = start + Target
  /\ chunks' = Append(chunks, Chunk(extractStart, start' + SeamShare, keepFrom, start'))
  /\ extractStart' = start' - SeamShare /\ keepFrom' = start'
  /\ UNCHANGED <<film, stage, chunkVars, result, suspended>>

\* Mutated: the next chunk begins at the end of the previous one's audio.
CutFixedApart ==
  /\ stage = "plan" /\ Long /\ SilenceCuts(film.silences, start) = {}
  /\ start' = start + Target
  /\ chunks' = Append(chunks, Chunk(extractStart, start' + SeamShare, keepFrom, start' + SeamSlack))
  /\ extractStart' = start' + SeamShare /\ keepFrom' = start' - SeamSlack
  /\ UNCHANGED <<film, stage, chunkVars, result, suspended>>

\* No silence to cut at: the two chunks overlap, and each keeps a little more
\* than its side of the cut.
CutFixed ==
  /\ stage = "plan" /\ Long /\ SilenceCuts(film.silences, start) = {}
  /\ start' = start + Target
  /\ chunks' = Append(chunks, Chunk(extractStart, start' + SeamShare, keepFrom, start' + SeamSlack))
  /\ extractStart' = start' - SeamShare /\ keepFrom' = start' - SeamSlack
  /\ UNCHANGED <<film, stage, chunkVars, result, suspended>>

\* The last chunk runs to the end of the stream.
CutLast ==
  /\ stage = "plan" /\ ~Long
  /\ chunks' = Append(chunks, Chunk(extractStart, film.total, keepFrom, Nothing))
  /\ stage' = "chunk"
  /\ UNCHANGED <<film, start, extractStart, keepFrom, chunkVars, result, suspended>>

-----------------------------------------------------------------------------
(* transcribeChunk *)

\* A chunk waits for its audio, or for the answer to its next attempt.
AtChunk == stage = "chunk" /\ index <= Len(chunks)

Here == chunks[index]

\* The words of the film that are spoken in a chunk.
SpokenIn(c) == Keeping(film.words, {i \in DOMAIN film.words : film.words[i].at \in c.from .. c.to - 1})

\* What the sidecar may return for them: the same, in order, each a little late.
Hearings(said) ==
  {[i \in DOMAIN said |-> [said[i] EXCEPT !.at = @ + late[i]]] :
     late \in {l \in [DOMAIN said -> Lateness] :
                 \A i, j \in DOMAIN said : i < j => said[i].at + l[i] <= said[j].at + l[j]}}

\* The chunk is done with; what is new goes to the transcript.
Accept(new) ==
  /\ transcript' = transcript \o new
  /\ index' = index + 1 /\ attempt' = 1 /\ looped' = FALSE
  /\ UNCHANGED <<film, stage, planVars, result>>

\* The transcript of a chunk whose output can be trusted is joined.
Heard ==
  /\ AtChunk
  /\ \E said \in {SpokenIn(Here)} : \E units \in Hearings(said) :
       /\ units # << >>
       /\ LET mine == Trim(units, Here.keepFrom, Here.keepUntil)
          IN  Accept(IF Here.keepFrom = Nothing THEN mine ELSE DropRepeatedSeam(transcript, mine))
  /\ suspended' = FALSE
  /\ UNCHANGED <<loops, wordless>>

\* Another attempt, at a higher temperature.
TryAgain ==
  /\ attempt' = attempt + 1
  /\ UNCHANGED <<film, stage, planVars, index, transcript, wordless, result>>

\* The chunk's output is a decoding loop.
Loops ==
  /\ AtChunk
  /\ suspended' = FALSE
  /\ IF attempt < MaxAttempts THEN TryAgain /\ looped' = TRUE /\ loops' = loops \cup {index}
     ELSE Return("miss")

\* Mutated: only the last attempt counts.
NothingHeardForgets ==
  /\ AtChunk
  /\ suspended' = FALSE
  /\ IF attempt < MaxAttempts THEN TryAgain /\ UNCHANGED <<looped, loops>>
     ELSE Accept(<< >>) /\ wordless' = wordless \cup {index} /\ UNCHANGED loops

\* Mutated: one attempt too many.
NothingHeardOnceMore ==
  /\ AtChunk
  /\ suspended' = FALSE
  /\ IF attempt <= MaxAttempts THEN TryAgain /\ UNCHANGED <<looped, loops>>
     ELSE IF looped THEN Return("miss")
     ELSE Accept(<< >>) /\ wordless' = wordless \cup {index} /\ UNCHANGED loops

\* The chunk's output holds no speech: taken at its word if every attempt is
\* spent and none looped.
NothingHeard ==
  /\ AtChunk
  /\ suspended' = FALSE
  /\ IF attempt < MaxAttempts THEN TryAgain /\ UNCHANGED <<looped, loops>>
     ELSE IF looped THEN Return("miss")
     ELSE Accept(<< >>) /\ wordless' = wordless \cup {index} /\ UNCHANGED loops

\* Mutated: a lost attempt starts the chunk over.
NoAnswerStartsOver ==
  /\ AtChunk
  /\ IF attempt < MaxAttempts
     THEN attempt' = 1 /\ UNCHANGED <<film, stage, planVars, index, transcript, looped, loops, wordless, result>>
     ELSE Return(IF looped THEN "miss" ELSE "error")
  /\ UNCHANGED suspended

\* The request times out or is lost, or its answer is garbled.
NoAnswer ==
  /\ AtChunk
  /\ IF attempt < MaxAttempts THEN TryAgain /\ UNCHANGED <<looped, loops>>
     ELSE Return(IF looped THEN "miss" ELSE "error")
  /\ UNCHANGED suspended

\* The sidecar answers with an error, for a 5xx after the Executor's retries.
Refused ==
  /\ AtChunk
  /\ suspended' = FALSE
  /\ Return(IF looped THEN "miss" ELSE "error")

\* No connection to the sidecar.
Unreachable == AtChunk /\ Return("suspended") /\ suspended' = TRUE

\* The audio cannot be extracted, or the daemon is stopping.
Broken == AtChunk /\ Return("error") /\ UNCHANGED suspended

\* All chunks are in: transcriptProblem refuses an empty transcript, one with a
\* loop or one with too few words.
Assemble ==
  /\ stage = "chunk" /\ index > Len(chunks)
  /\ \/ Return("miss")
     \/ transcript # << >> /\ Return("subtitle")
  /\ UNCHANGED suspended

\* Another worker finds the sidecar down, or hears from it; or time passes.
Elsewhere ==
  /\ suspended' \in BOOLEAN
  /\ UNCHANGED <<film, stage, planVars, chunkVars, result>>

-----------------------------------------------------------------------------

Proceed ==
  \/ ProbeFails \/ CutAtSilence \/ CutFixed \/ CutLast
  \/ Heard \/ Loops \/ NothingHeard \/ NoAnswer \/ Refused \/ Unreachable \/ Broken
  \/ Assemble

Next == Download \/ TurnedAway \/ Proceed \/ Elsewhere

Spec == Init /\ [][Next]_vars

\* Every request has a timeout, so a worker inside Download always goes on.
FairSpec == Spec /\ WF_vars(Proceed)

-----------------------------------------------------------------------------
(* Properties. *)

TypeOK ==
  /\ film \in Film /\ stage \in Stage /\ result \in Result
  /\ start \in Int /\ extractStart \in Int /\ keepFrom \in Int \cup {Nothing}
  /\ chunks \in Seq(Chunks)
  /\ index \in 1..Len(chunks) + 1 /\ attempt \in 1..MaxAttempts
  /\ looped \in BOOLEAN /\ suspended \in BOOLEAN

\* A chunk sent from an instant, with a share kept from another, leaves nothing
\* out after chunk c: at a silence they meet, and at a fixed cut their shares
\* overlap and lie within what both of them hear.
Joins(c, from, keep) ==
  IF c.keepUntil = Nothing THEN keep = Nothing /\ from = c.to
  ELSE keep # Nothing /\ from <= keep /\ keep <= c.keepUntil /\ c.keepUntil <= c.to

\* No instant of the film is left out: the chunks begin at its beginning, end at
\* its end, and each joins the one before (chunking.go, planChunks).
ChunksCover ==
  stage = "chunk" =>
    /\ chunks # << >>
    /\ chunks[1].from = 0 /\ chunks[1].keepFrom = Nothing
    /\ chunks[Len(chunks)].to = film.total /\ chunks[Len(chunks)].keepUntil = Nothing
    /\ \A k \in 1 .. Len(chunks) - 1 :
         /\ chunks[k].from < chunks[k].to
         /\ Joins(chunks[k], chunks[k + 1].from, chunks[k + 1].keepFrom)

\* The words of the film that were heard at all: outside of chunks in which the
\* sidecar found no speech.
Audible ==
  {i \in DOMAIN film.words :
     \A k \in wordless : film.words[i].at \notin chunks[k].from .. chunks[k].to - 1}

Times(i) == Cardinality({k \in DOMAIN transcript : transcript[k].word = i})

\* Every word heard reaches the subtitle, whatever seam it is spoken at
\* (chunking.go, seamSlack; seams.go, dropRepeatedSeam).
NothingLost == result = "subtitle" => \A i \in Audible : Times(i) >= 1

\* No word reaches the subtitle twice, although two chunks hear it (seams.go,
\* dropRepeatedSeam).
NothingTwice ==
  result = "subtitle" =>
    \A i \in DOMAIN film.words : film.words[i].text \notin Punctuation => Times(i) <= 1

\* A subtitle has no chunk passed over as wordless for which the sidecar had
\* looped, at whatever attempt (whisper.go, transcribeChunk).
NoHiddenLoop == result = "subtitle" => wordless \cap loops = {}

\* Download returns, even if the sidecar never answers (chunking.go, timeout;
\* whisper.go, transcribeChunk).
DownloadReturns == (stage = "plan") ~> (stage = "done")
=============================================================================
