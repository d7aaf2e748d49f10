---------------------------- MODULE XHTTPRequest ----------------------------
(***************************************************************************)
(* What internal/xhttp puts on the wire: the normalised settings           *)
(* (settings.go), the padding and the metadata of a request (padding.go)   *)
(* and the payload of an upload (client.go), against the server that reads *)
(* them back.                                                              *)
(*                                                                         *)
(* A request has a path (a sequence of segments), a query, headers and     *)
(* cookies (functions from names) and a body.  A string of padding is its  *)
(* length; a payload is a sequence, and so is its encoding.                *)
(***************************************************************************)
EXTENDS Integers, Sequences, SequencesExt, FiniteSets, TLC

CONSTANTS
  MinChunk,   \* 64, the least chunk size a profile can ask for
  MaxRounds   \* 150, the rounds of tokenishPadding

ASSUME WireConstantsOK == MinChunk \in Nat \ {0} /\ MaxRounds \in Nat

-----------------------------------------------------------------------------
(* Ranges. *)

Interval(a, b) == [from |-> a, to |-> b]

RangeOr(r, default) == IF r.to = 0 THEN default ELSE r

\* The values rand can return; an inverted range collapses to its start.
Draw(r) == IF r.to <= r.from THEN {r.from} ELSE r.from .. r.to

Or(value, default) == IF value = "" THEN default ELSE value

-----------------------------------------------------------------------------
(* Settings. *)

SessionPlacement(s) == Or(s.sessionPlacement, "path")
SeqPlacement(s)     == Or(s.seqPlacement, "path")
DataPlacement(s)    == Or(s.dataPlacement, "body")

MetaKey(key, placement, header, name) ==
  IF key # "" THEN key
  ELSE CASE placement = "header" -> header
         [] placement \in {"cookie", "query"} -> name
         [] OTHER -> ""

SessionKey(s) == MetaKey(s.sessionKey, SessionPlacement(s), "X-Session", "x_session")
SeqKey(s)     == MetaKey(s.seqKey, SeqPlacement(s), "X-Seq", "x_seq")

\* The defaults depend on the placement as it was written, and a start below
\* MinChunk is raised, if need be together with the end.
ChunkSize(s) ==
  IF s.chunkSize.to = 0
    THEN CASE s.dataPlacement = "cookie" -> s.cookieChunk
           [] s.dataPlacement = "header" -> s.headerChunk
           [] OTHER -> s.maxPost
  ELSE IF s.chunkSize.from < MinChunk
    THEN Interval(MinChunk, IF s.chunkSize.to > MinChunk THEN s.chunkSize.to ELSE MinChunk)
  ELSE s.chunkSize

PaddingParams(s) ==
  IF s.obfs
    THEN [placement |-> Or(s.padPlacement, "queryInHeader"), key |-> Or(s.padKey, "x_padding"),
          header |-> Or(s.padHeader, "X-Padding"), method |-> Or(s.padMethod, "repeat-x")]
    ELSE [placement |-> "queryInHeader", key |-> "x_padding", header |-> "Referer", method |-> ""]

-----------------------------------------------------------------------------
(* Padding. *)

\* HuffmanEncodeLength of a text whose characters take these numbers of bits.
HuffmanLength(bits) == (FoldSeq(+, 0, bits) + 7) \div 8

\* Mutant: extended and cut the other way round.
TokenishRoundSwapped(bits, target) ==
  IF HuffmanLength(bits) < target
    THEN IF Len(bits) <= 1 THEN bits ELSE SubSeq(bits, 1, Len(bits) - 1)
    ELSE Append(bits, 8)

\* A round outside the tolerance of two bytes adds an X or a Z, which take 8 bits,
\* or drops the last character.
TokenishRound(bits, target) ==
  IF HuffmanLength(bits) < target THEN Append(bits, 8)
  ELSE IF Len(bits) <= 1 THEN bits
  ELSE SubSeq(bits, 1, Len(bits) - 1)

Tolerated(bits, target) == HuffmanLength(bits) - target \in -2 .. 2

TokenishPadding(bits, target) ==
  LET after[n \in 0 .. MaxRounds] ==
        IF n = 0 THEN bits
        ELSE LET prev == after[n - 1] IN
             IF Tolerated(prev, target) THEN prev ELSE TokenishRound(prev, target)
  IN  after[MaxRounds]

\* The first guess: a length of target / 0.8, rounded up.
Guess(target) == IF target < 1 THEN 1 ELSE (5 * target + 3) \div 4

\* A padding value is its length; of length 0 there is none.
Put(map, key, value) == (key :> value) @@ map

ApplyToQuery(query, key, value) == IF key = "" THEN query ELSE Put(query, key, value)

\* The Referer placement copies the URL as it stands, with its query replaced.
ApplyPadding(s, req, n) ==
  LET p == PaddingParams(s) IN
  IF n <= 0 THEN req
  ELSE CASE p.placement = "header" -> [req EXCEPT !.header = Put(@, p.header, n)]
         [] p.placement = "queryInHeader" ->
              [req EXCEPT !.header = Put(@, p.header, [path |-> req.path, query |-> p.key :> n])]
         [] p.placement = "cookie" -> [req EXCEPT !.cookie = Append(@, <<p.key, n>>)]
         [] p.placement = "query" -> [req EXCEPT !.query = ApplyToQuery(@, p.key, n)]
         [] OTHER -> req

-----------------------------------------------------------------------------
(* Metadata. *)

PlaceMeta(req, placement, key, value) ==
  CASE value = "" -> req
    [] placement = "path" -> [req EXCEPT !.path = Append(@, value)]
    [] placement = "query" -> [req EXCEPT !.query = ApplyToQuery(@, key, value)]
    [] placement = "header" -> [req EXCEPT !.header = Put(@, key, value)]
    [] placement = "cookie" -> [req EXCEPT !.cookie = Append(@, <<key, value>>)]
    [] OTHER -> req

\* Mutant: the number before the session, which in the path trade places.
ApplyMetaSwapped(s, req, session, seq) ==
  PlaceMeta(PlaceMeta(req, SeqPlacement(s), SeqKey(s), seq),
            SessionPlacement(s), SessionKey(s), session)

ApplyMeta(s, req, session, seq) ==
  PlaceMeta(PlaceMeta(req, SessionPlacement(s), SessionKey(s), session),
            SeqPlacement(s), SeqKey(s), seq)

\* The base URL has the prefix as its path, and the query of the link, if any.
NewRequest(s, n, session, seq) ==
  LET base == [path |-> <<"prefix">>, query |-> s.query, cookie |-> <<>>, body |-> <<>>,
               header |-> s.headers @@ ("User-Agent" :> "browser")]
  IN  ApplyMeta(s, ApplyPadding(s, base, n), session, seq)

-----------------------------------------------------------------------------
(* The payload. *)

\* Every way chunkEncoded can cut a text of n characters; a size that is not positive
\* takes the rest.
Cuts(n, size) ==
  LET cuts[m \in 0 .. n] ==
        IF m = 0 THEN {<<>>}
        ELSE UNION {LET k == IF d <= 0 \/ d > m THEN m ELSE d IN
                    {<<k>> \o c : c \in cuts[m - k]} : d \in Draw(size)}
  IN  cuts[n]

Piece(payload, cut, i) ==
  LET start == FoldSeq(+, 0, SubSeq(cut, 1, i - 1)) IN
  SubSeq(payload, start + 1, start + cut[i])

DataKey(s, i) == s.dataKey \o ToString(i)

\* Numbered headers or cookies, or the body ("auto" is the body too).
AttachPacketPayload(s, req, payload, cut) ==
  CASE DataPlacement(s) = "header" ->
         [req EXCEPT !.header = FoldLeft(LAMBDA h, i : Put(h, DataKey(s, i), Piece(payload, cut, i)),
                                         @, [i \in 1 .. Len(cut) |-> i])]
    [] DataPlacement(s) = "cookie" ->
         [req EXCEPT !.cookie = @ \o [i \in 1 .. Len(cut) |->
                                        <<DataKey(s, i), Piece(payload, cut, i)>>]]
    [] OTHER -> [req EXCEPT !.body = payload]

-----------------------------------------------------------------------------
(* The server, which has the same settings. *)

Lookup(map, key, default) == IF key \in DOMAIN map THEN map[key] ELSE default

\* The first cookie of a name.
Cookie(req, key, default) ==
  LET found == SelectSeq(req.cookie, LAMBDA c : c[1] = key) IN
  IF found = <<>> THEN default ELSE found[1][2]

\* Path segments after the prefix are the session id and then the sequence number,
\* those of the two that are placed in the path.
ReadMeta(req, placement, key, segment) ==
  CASE placement = "path" -> IF segment <= Len(req.path) THEN req.path[segment] ELSE ""
    [] placement = "query" -> Lookup(req.query, key, "")
    [] placement = "header" -> Lookup(req.header, key, "")
    [] placement = "cookie" -> Cookie(req, key, "")
    [] OTHER -> ""

ReadSession(s, req) == ReadMeta(req, SessionPlacement(s), SessionKey(s), 2)
ReadSeq(s, req) ==
  ReadMeta(req, SeqPlacement(s), SeqKey(s), IF SessionPlacement(s) = "path" THEN 3 ELSE 2)

ReadPadding(s, req) ==
  LET p == PaddingParams(s) IN
  CASE p.placement = "header" -> Lookup(req.header, p.header, 0)
    [] p.placement = "queryInHeader" ->
         Lookup(Lookup(req.header, p.header, [query |-> <<>>]).query, p.key, 0)
    [] p.placement = "cookie" -> Cookie(req, p.key, 0)
    [] p.placement = "query" -> Lookup(req.query, p.key, 0)

ReadPayload(s, req, pieces) ==
  CASE DataPlacement(s) = "header" ->
         FlattenSeq([i \in 1 .. pieces |-> Lookup(req.header, DataKey(s, i), <<>>)])
    [] DataPlacement(s) = "cookie" ->
         FlattenSeq([i \in 1 .. pieces |-> Cookie(req, DataKey(s, i), <<>>)])
    [] OTHER -> req.body

\* What a server with the settings s gets of an upload, however the padding was drawn
\* and the payload cut: the session, the number and the bytes that were sent, and a
\* padding whose length it accepts.
ReadsBack(s, payload) ==
  \A n \in Draw(RangeOr(s.padding, Interval(1, 2))) :
    \A cut \in Cuts(Len(payload), ChunkSize(s)) :
      LET req == AttachPacketPayload(s, NewRequest(s, n, "session", "7"), payload, cut) IN
      /\ ReadSession(s, req) = "session" /\ ReadSeq(s, req) = "7"
      /\ ReadPayload(s, req, Len(cut)) = payload
      /\ ReadPadding(s, req) = n
=============================================================================
