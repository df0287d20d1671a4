-------------------------------- MODULE Media --------------------------------
(***************************************************************************)
(* One video: its row and its objects on the server (routers/media.py,     *)
(* services/storage.py), and one phone that plays it, in several places at *)
(* once (decrypted_media.dart), while it is being converted                *)
(* (services/media_service.dart, core/crypto/chunked_crypto.dart,          *)
(* core/media/video_stream_server.dart, core/storage/local_cache.dart).    *)
(*                                                                         *)
(* An object is an upload of the one plaintext, positions                  *)
(* 0 .. PlainSize - 1, under a salt of its own: either a single blob or a  *)
(* header and chunks.  Ciphertext is a record of its object and the        *)
(* interval of its bytes there; it verifies as a chunk if and only if it is *)
(* exactly that chunk of the object whose header the phone goes by.        *)
(***************************************************************************)
EXTENDS Integers, Sequences, FiniteSetsExt

CONSTANTS
  Uploads,      \* requests that bring a file, each handled once
  Players,      \* places where the phone plays the video
  PlainSizes,   \* how long the video may be
  ChunkSize,    \* defaultChunkSize
  Header,       \* headerLength
  Overhead,     \* nonce and tag
  BatchChunks,  \* chunks fetched per round trip
  MaxRange,     \* _MAX_RANGE_BYTES
  Absent,       \* no key, no row, no file
  Torn          \* a cache file of which only a part was written

\* The sizes as they are written down in the code: a batch fits into a range.
ASSUME MediaAssumption ==
  /\ PlainSizes \subseteq Nat
  /\ ChunkSize \in Nat \ {0} /\ Header \in Nat \ {0} /\ Overhead \in Nat \ {0}
  /\ BatchChunks \in Nat \ {0} /\ MaxRange \in Nat
  /\ MaxRange >= BatchChunks * (ChunkSize + Overhead) /\ MaxRange >= Header
  /\ {Absent, Torn} \cap Uploads = {} /\ Absent # Torn

VARIABLES
  plainSize,    \* of the video
  stored,       \* objects in the bucket, named after their uploads
  asset,        \* the row of media_assets, or Absent
  at,           \* where each upload stands
  job,          \* what each upload is to do
  loaded,         \* the row as an upload's session has loaded it
  cached,       \* the phone's cache: the header ("shdr") and chunks ("c<i>")
  writing,      \* writes of cache files under way: by whom, which file and what
  player        \* each player's request: what it wants and what it has got

serverVars == <<stored, asset, at, job, loaded>>
phoneVars == <<cached, writing, player>>
mediaVars == <<plainSize, serverVars, phoneVars>>

Lesser(a, b) == IF a < b THEN a ELSE b
Greater(a, b) == IF a < b THEN b ELSE a

-----------------------------------------------------------------------------
(* The chunked format. *)

\* What encrypt() writes: chunk after chunk until the plaintext is used up.
ChunkCount(n) == IF n = 0 THEN 1 ELSE (n + ChunkSize - 1) \div ChunkSize
Sealed(n, i) == Lesser((i + 1) * ChunkSize, n) - i * ChunkSize + Overhead
ChunkStart(n, i) ==
  LET start[j \in 0 .. ChunkCount(n)] == IF j = 0 THEN Header ELSE start[j - 1] + Sealed(n, j - 1)
  IN  start[i]
SizeOf(n) == ChunkStart(n, ChunkCount(n))

\* Where ChunkedHeader looks for chunk i.
PlainLength(n, i) ==
  IF i < ChunkCount(n) - 1 THEN ChunkSize ELSE n - ChunkSize * (ChunkCount(n) - 1)
EncLength(n, i) == PlainLength(n, i) + Overhead
EncOffset(i) == Header + i * (ChunkSize + Overhead)

-----------------------------------------------------------------------------
(* A range of an object, routers/media.py:111-129. *)

\* 'bytes=a-b', 'bytes=a-' and 'bytes=-n' are <<a, b>>, <<a, Absent>> and <<Absent, n>>.
ParseRange(spec, total) ==
  LET start == IF spec[1] = Absent THEN Greater(total - spec[2], 0) ELSE spec[1]
      end == IF spec[1] = Absent \/ spec[2] = Absent THEN total - 1 ELSE spec[2]
  IN <<start, Lesser(Lesser(end, total - 1), start + MaxRange - 1)>>

Satisfiable(range) == 0 <= range[1] /\ range[1] <= range[2]

\* The bytes a header asks for, of an object of this size.
Wanted(spec, total) ==
  {b \in 0 .. total - 1 :
     CASE spec[1] = Absent -> b >= total - spec[2]
       [] spec[2] = Absent -> b >= spec[1]
       [] OTHER -> spec[1] <= b /\ b <= spec[2]}

-----------------------------------------------------------------------------
UploadStages == {"new", "put", "thumb", "commit", "done", "refused", "failed"}
NoJob == [op |-> "none", chunked |-> FALSE, thumb |-> FALSE]
AssetRow == [object : Uploads, thumbnail : Uploads \cup {Absent}, chunked : BOOLEAN,
        legacy : Uploads \cup {Absent}]

\* Bytes of an object, as they are sent and as they are kept in the cache.
Bytes(o, from, to) == [o |-> o, from |-> from, to |-> to]
Ciphertext == [o : Uploads, from : Int, to : Int]
Shdr == -1      \* the file "shdr"; chunk i is in file i
Files == {Shdr} \cup UNION {0 .. ChunkCount(n) - 1 : n \in PlainSizes}

\* NULL is not a row, and is not a number of bytes; nor is a missing or a torn file
\* a whole one.
ASSUME AbsentAssumption ==
  /\ Absent \notin AssetRow /\ Absent \notin Int
  /\ Absent \notin Ciphertext /\ Torn \notin Ciphertext

\* A player that has been given nothing.
Waiting(state, header, torn) ==
  [state |-> state, from |-> 0, to |-> 0, next |-> 0, got |-> << >>, header |-> header,
   torn |-> torn]
Idle == Waiting("idle", Absent, FALSE)
Answers == [state : {"idle", "header", "open", "playing", "complete", "unverified"},
            from : Nat, to : Int, next : Nat, got : Seq(Int \X Int),
            header : Uploads \cup {Absent}, torn : BOOLEAN]

MediaInit ==
  /\ plainSize \in PlainSizes
  /\ stored = {}
  /\ asset = Absent
  /\ at = [u \in Uploads |-> "new"]
  /\ job = [u \in Uploads |-> NoJob]
  /\ loaded = [u \in Uploads |-> Absent]
  /\ cached = [f \in Files |-> Absent]
  /\ writing = {}
  /\ player = [p \in Players |-> Idle]

Advance(u, stage) == at' = [at EXCEPT ![u] = stage]

Accept(u, what, next) ==
  /\ at[u] = "new"
  /\ job' = [job EXCEPT ![u] = what]
  /\ loaded' = [loaded EXCEPT ![u] = asset]
  /\ Advance(u, next)
  /\ UNCHANGED <<plainSize, stored, asset, phoneVars>>

\* upload_media; only phones of the old design send a video that is not chunked.
\* (There is one asset: its upload is the first request.)
Upload(u, chunked, thumb) ==
  /\ asset = Absent /\ \A v \in Uploads : job[v] = NoJob
  /\ Accept(u, [op |-> "upload", chunked |-> chunked, thumb |-> thumb], "put")

\* attach_thumbnail: asked for by any screen that finds none.
AttachThumbnail(u) ==
  /\ asset # Absent
  /\ Accept(u, [op |-> "thumbnail", chunked |-> FALSE, thumb |-> TRUE], "thumb")

\* Mutant: a converted video may be converted again.
ConvertAgain(u) ==
  /\ asset # Absent
  /\ Accept(u, [op |-> "convert", chunked |-> TRUE, thumb |-> FALSE], "put")

\* replace_with_chunked: 409 if it is converted already, which the phone takes
\* for success.
Convert(u) ==
  /\ asset # Absent
  /\ Accept(u, [op |-> "convert", chunked |-> TRUE, thumb |-> FALSE],
           IF asset.chunked THEN "refused" ELSE "put")

\* put_object, or MinIO fails and the request with it.
Put(u) ==
  /\ at[u] = "put"
  /\ \/ /\ stored' = stored \cup {<<u, "raw">>}
        /\ Advance(u, IF job[u].thumb THEN "thumb" ELSE "commit")
     \/ Advance(u, "failed") /\ UNCHANGED stored
  /\ UNCHANGED <<plainSize, asset, job, loaded, phoneVars>>

PutThumbnail(u) ==
  /\ at[u] = "thumb"
  /\ \/ stored' = stored \cup {<<u, "thumb">>} /\ Advance(u, "commit")
     \/ Advance(u, "failed") /\ UNCHANGED stored
  /\ UNCHANGED <<plainSize, asset, job, loaded, phoneVars>>

\* The commit names what differs from the row as it was loaded.
Commit(u) ==
  /\ at[u] = "commit"
  /\ asset' = CASE job[u].op = "upload" ->
                     [object |-> u, thumbnail |-> IF job[u].thumb THEN u ELSE Absent,
                      chunked |-> job[u].chunked, legacy |-> Absent]
                [] job[u].op = "thumbnail" -> [asset EXCEPT !.thumbnail = u]
                [] job[u].op = "convert" ->
                     [asset EXCEPT !.object = u, !.chunked = TRUE, !.legacy = loaded[u].object]
  /\ Advance(u, "done")
  /\ UNCHANGED <<plainSize, stored, job, loaded, phoneVars>>

-----------------------------------------------------------------------------
(* The phone. *)

IsChunked(o) == job[o].chunked

\* The object's bytes, as a range request gets them now.
Fetched(from, to) ==
  LET range == ParseRange(<<from, to>>, SizeOf(plainSize))
  IN Bytes(asset.object, range[1], range[2])

\* Mutant: the slice is cut as if the whole object had been fetched.
SliceOfObject(b, from, len) ==
  IF b.from + from + len - 1 > b.to THEN Torn
  ELSE Bytes(b.o, b.from + from, b.from + from + len - 1)

\* Of what was fetched, the given part; sublistView throws if it is not there.
Slice(b, from, len) ==
  IF from < b.from \/ from + len - 1 > b.to THEN Torn ELSE Bytes(b.o, from, from + len - 1)

\* decryptChunk with the key of object o: this chunk and no other bytes.
Verifies(b, o, i) == b = Bytes(o, ChunkStart(plainSize, i), ChunkStart(plainSize, i + 1) - 1)

\* Files being written may be read torn.
BeingWritten == {x[2] : x \in writing}

\* open() takes the header from the cache, or from the server and then waits for
\* it to be written.  A blob is not streamed but downloaded whole, and so is a video
\* whose header is read torn: open() throws.
OpenVideo(p) ==
  /\ player[p].state = "idle"
  /\ \/ /\ cached[Shdr] \notin {Absent, Torn}
        /\ player' = [player EXCEPT ![p] = Waiting("open", cached[Shdr].o, FALSE)]
        /\ UNCHANGED writing
     \/ /\ cached[Shdr] = Absent
        /\ asset # Absent /\ IsChunked(asset.object)
        /\ player' = [player EXCEPT ![p] = Waiting("header", asset.object, FALSE)]
        /\ writing' = writing \cup {<<p, Shdr, Fetched(0, Header - 1)>>}
  /\ UNCHANGED <<plainSize, serverVars, cached>>

\* putBlob writes a file, or fails, before or halfway: it swallows every error, and
\* whoever waits goes on.
WriteFile(x) ==
  /\ x \in writing
  /\ \E file \in {x[3], Torn, cached[x[2]]} : cached' = [cached EXCEPT ![x[2]] = file]
  /\ writing' = writing \ {x}
  /\ player' = [player EXCEPT ![x[1]].state = IF x[2] = Shdr /\ @ = "header" THEN "open" ELSE @]
  /\ UNCHANGED <<plainSize, serverVars>>

\* The app is killed: files that were being written are torn or as they were.
KillPlayer ==
  /\ \E p \in Players : player[p].state # "idle"
  /\ \E torn \in SUBSET BeingWritten :
       cached' = [f \in Files |-> IF f \in torn THEN Torn ELSE cached[f]]
  /\ writing' = {}
  /\ player' = [p \in Players |-> Idle]
  /\ UNCHANGED <<plainSize, serverVars>>

\* _handle: the player asks for bytes; without a range, for all of them.
PlayerAsks(p, spec) ==
  LET from == IF spec[1] = Absent THEN Greater(plainSize - spec[2], 0) ELSE spec[1]
      to == IF spec[1] = Absent \/ spec[2] = Absent THEN plainSize - 1
            ELSE Lesser(spec[2], plainSize - 1)
  IN /\ player[p].state = "open"
     /\ from <= to \/ spec = <<0, Absent>>
     /\ player' = [player EXCEPT ![p] =
          [@ EXCEPT !.state = "playing", !.from = from, !.to = to,
                    !.next = from \div ChunkSize, !.got = << >>]]
     /\ UNCHANGED <<plainSize, serverVars, cached, writing>>

\* Dart's ~/ truncates: the empty video, whose last byte is -1, has a chunk 0.
LastChunk(answer) == IF answer.to < 0 THEN 0 ELSE answer.to \div ChunkSize

\* Mutant: the end of the request is forgotten.
PortionToTheEnd(answer, c) ==
  LET from == Greater(answer.from - c * ChunkSize, 0)
  IN <<c * ChunkSize + from, c * ChunkSize + PlainLength(plainSize, c) - 1>>

\* What _handle adds to the answer of chunk c: its first and last position.
Portion(answer, c) ==
  LET from == Greater(answer.from - c * ChunkSize, 0)
      to == Lesser(answer.to - c * ChunkSize + 1, PlainLength(plainSize, c))
  IN <<c * ChunkSize + from, c * ChunkSize + to - 1>>

\* decryptChunks and the writes of one batch.  Chunks come from the cache -- some
\* are read torn -- and, from the first missing one on, from the server; those go
\* into the cache, unawaited and not yet verified.
Batch(p, torn) ==
  LET answer == player[p]
      first == answer.next
      upTo == Lesser(first + BatchChunks - 1, LastChunk(answer))
      missing == {i \in first .. upTo : i \notin torn /\ cached[i] = Absent}
      bytes == Fetched(EncOffset(Min(missing)), EncOffset(upTo) + EncLength(plainSize, upTo) - 1)
      chunk == [i \in first .. upTo |->
                  IF i \in torn THEN Torn
                  ELSE IF i \in missing THEN Slice(bytes, EncOffset(i), EncLength(plainSize, i))
                  ELSE cached[i]]
      ok == \A i \in first .. upTo : Verifies(chunk[i], answer.header, i)
      portions == [k \in 1 .. upTo - first + 1 |-> Portion(answer, first + k - 1)]
  IN /\ answer.state = "playing"
     /\ torn \subseteq BeingWritten \cap (first .. upTo)
     /\ player' = [player EXCEPT ![p] =
          [answer EXCEPT
             !.state = IF ~ok THEN "unverified"
                       ELSE IF upTo = LastChunk(answer) THEN "complete" ELSE "playing",
             !.next = upTo + 1,
             !.got = IF ok THEN answer.got \o portions ELSE answer.got,
             !.torn = \E i \in (first .. upTo) \ missing : chunk[i] = Torn]]
     /\ writing' = writing \cup {<<p, i, chunk[i]>> : i \in {m \in missing : chunk[m] # Torn}}
     /\ UNCHANGED <<plainSize, serverVars, cached>>

\* A fetch fails, or the player seeks: the answer ends and the player may ask again.
StopPlaying(p) ==
  /\ player[p].state \in {"playing", "complete", "unverified"}
  /\ player' = [player EXCEPT ![p] = Waiting("open", @.header, FALSE)]
  /\ UNCHANGED <<plainSize, serverVars, cached, writing>>

\* close: the source is gone; what it was writing is written all the same.
Close(p) ==
  /\ player[p].state \notin {"idle", "header"}
  /\ player' = [player EXCEPT ![p] = Idle]
  /\ UNCHANGED <<plainSize, serverVars, cached, writing>>

-----------------------------------------------------------------------------
Specs ==
  ((0 .. plainSize) \X ((0 .. plainSize) \cup {Absent})) \cup ({Absent} \X (0 .. plainSize + 1))

MediaNext ==
  \/ \E u \in Uploads :
       \/ \E chunked, thumb \in BOOLEAN : Upload(u, chunked, thumb)
       \/ AttachThumbnail(u) \/ Convert(u)
       \/ Put(u) \/ PutThumbnail(u) \/ Commit(u)
  \/ \E p \in Players :
       \/ OpenVideo(p) \/ StopPlaying(p) \/ Close(p)
       \/ \E spec \in Specs : PlayerAsks(p, spec)
       \/ \E torn \in SUBSET (BeingWritten \ {Shdr}) : Batch(p, torn)
  \/ \E x \in writing : WriteFile(x)
  \/ KillPlayer

MediaSpec == MediaInit /\ [][MediaNext]_mediaVars

-----------------------------------------------------------------------------
\* A chunked object that the row names or has named.
Named(o) == at[o] = "done" /\ IsChunked(o)

\* media.py:182-202, storage.py:94-97: media is never lost.  What the row names
\* is in the bucket; the file first uploaded is still named by the row, even if
\* two phones convert it at once; and the row says what format its object has.
MediaKept ==
  asset # Absent =>
    /\ <<asset.object, "raw">> \in stored
    /\ asset.thumbnail # Absent => <<asset.thumbnail, "thumb">> \in stored
    /\ asset.legacy # Absent => <<asset.legacy, "raw">> \in stored
    /\ \A u \in Uploads : job[u].op = "upload" => u \in {asset.object, asset.legacy}
    /\ asset.chunked = IsChunked(asset.object)

\* media.py:111-129: a range request is answered with the bytes it asks for, the
\* first MaxRange of them, and refused if and only if there are none.
RangeExact ==
  \A total \in 0 .. SizeOf(Max(PlainSizes)) :
    \A a, b \in (0 .. total + 1) \cup {Absent} : <<a, b>> # <<Absent, Absent>> =>
      LET range == ParseRange(<<a, b>>, total)
          wanted == Wanted(<<a, b>>, total)
      IN IF wanted = {} THEN ~Satisfiable(range)
         ELSE /\ Satisfiable(range)
              /\ range[1] .. range[2] =
                   {x \in wanted : x < Min(wanted) + MaxRange}

\* video_stream_server.dart:84-192: every player is given the bytes it asked for, in
\* order, each once, and all of them if the answer is complete -- whatever is in the
\* cache, whoever else plays the video, and whatever happens to it meanwhile.  An
\* answer ends unverified only if a chunk was read torn, or if two conversions of the
\* video overlapped and both became its object.
AnswerExact(answer) ==
  /\ \A k \in 1 .. Len(answer.got) :
       LET piece == answer.got[k]
       IN  /\ piece[1] = IF k = 1 THEN answer.from ELSE answer.got[k - 1][2] + 1
           /\ piece[1] - 1 <= piece[2] /\ piece[2] <= answer.to
  /\ answer.state = "complete" => answer.got # << >> /\ answer.got[Len(answer.got)][2] = answer.to
  /\ answer.state = "unverified" =>
       answer.torn \/ \E u, v \in Uploads : u # v /\ Named(u) /\ Named(v)

StreamExact == \A p \in Players : AnswerExact(player[p])

BytesExact == RangeExact /\ StreamExact

-----------------------------------------------------------------------------
(* Why media is kept.                                                      *)

\* What is known of an upload where it stands: what it has put into the bucket,
\* and that a conversion has loaded a row naming the file first uploaded.
UploadKnown(u) ==
  /\ at[u] = "new" <=> job[u].op = "none"
  /\ job[u].op = "convert" => job[u].chunked /\ ~job[u].thumb
  /\ job[u].op = "convert" /\ at[u] # "refused" =>
       loaded[u] # Absent /\ job[loaded[u].object].op = "upload"
  /\ job[u].op = "thumbnail" => job[u].thumb /\ ~job[u].chunked /\ at[u] # "put"
  /\ job[u].op \in {"upload", "convert"} /\ at[u] \in {"thumb", "commit", "done"} =>
       <<u, "raw">> \in stored
  /\ job[u].thumb /\ at[u] \in {"commit", "done"} => <<u, "thumb">> \in stored
  /\ job[u].op = "upload" => at[u] # "refused" /\ (at[u] = "done" <=> asset # Absent)
  /\ asset = Absent => job[u].op \in {"none", "upload"}
  /\ Named(u) => asset # Absent /\ asset.chunked

ServerInv ==
  /\ stored \subseteq Uploads \X {"raw", "thumb"}
  /\ asset \in AssetRow \cup {Absent}
  /\ at \in [Uploads -> UploadStages]
  /\ job \in [Uploads -> [op : {"none", "upload", "thumbnail", "convert"},
                          chunked : BOOLEAN, thumb : BOOLEAN]]
  /\ loaded \in [Uploads -> AssetRow \cup {Absent}]
  /\ \A u \in Uploads : UploadKnown(u)
  /\ \A u, v \in Uploads : job[u].op = "upload" /\ job[v].op = "upload" => u = v
  /\ asset # Absent =>
       /\ at[asset.object] = "done"
       /\ job[asset.object].op \in {"upload", "convert"}
       /\ ~asset.chunked => job[asset.object].op = "upload"
       /\ MediaKept

-----------------------------------------------------------------------------
(* Why a stream is exact.                                                  *)

\* The files of an object: each is its header, or one chunk of it.
FileOf(f, o) ==
  IF f = Shdr THEN Bytes(o, 0, Header - 1)
  ELSE Bytes(o, EncOffset(f), EncOffset(f) + EncLength(plainSize, f) - 1)

\* Whole files, in the cache or on their way there, are of objects named before.
FileKnown(f, file) == file = FileOf(f, file.o) /\ Named(file.o)

CacheKnown ==
  /\ cached \in [Files -> Ciphertext \cup {Absent, Torn}]
  /\ writing \subseteq Players \X Files \X Ciphertext
  /\ \A f \in Files : cached[f] \notin {Absent, Torn} => FileKnown(f, cached[f])
  /\ \A x \in writing : FileKnown(x[2], x[3])

\* A player goes by the header it has read, whatever the cache holds.
PlayerKnown(answer) ==
  /\ answer.state # "idle" => answer.header \in Uploads /\ Named(answer.header)
  /\ answer.state \in {"idle", "header", "open"} => answer.got = << >>

\* How far an answer has come: up to a whole chunk that is not the last.
Streamed(answer) ==
  answer.state = "playing" =>
    /\ answer.from <= answer.to \/ (answer.from = 0 /\ answer.to = -1)
    /\ answer.to < plainSize
    /\ answer.from \div ChunkSize <= answer.next /\ answer.next <= LastChunk(answer)
    /\ IF answer.next = answer.from \div ChunkSize THEN answer.got = << >>
       ELSE answer.got # << >> /\ answer.got[Len(answer.got)][2] = answer.next * ChunkSize - 1

\* media.py:28-204, video_stream_server.dart:38-192: what is known of the server, of
\* the phone's cache and of its players whenever one of them takes a step.
MediaInv ==
  /\ plainSize \in PlainSizes
  /\ ServerInv /\ CacheKnown
  /\ player \in [Players -> Answers]
  /\ \A p \in Players : PlayerKnown(player[p]) /\ Streamed(player[p])
  /\ StreamExact
==============================================================================
