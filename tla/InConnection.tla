---------------------------- MODULE InConnection ----------------------------
(***************************************************************************)
(* cpp/Connection/In.h: one connection of the IN line, read in chunks.     *)
(* What the client sends is a sequence of tokens; every read takes any     *)
(* number of them, so a chunk boundary may fall between any two.  Module   *)
(* InLine says when which handler is called.                               *)
(*                                                                         *)
(*   "marker"       identifier=                                            *)
(*   "cred"         LOGIN:PASSWORD@                                        *)
(*   "ids"          a list of IDs without the character that ends it       *)
(*   "odd"          the same, with a cursor that is no cursor_t, such as   *)
(*                  1.5:abc (the prototype's cursors were such)            *)
(*   "eol"          the end of the identifier line                         *)
(*   "crlf", "lf"   a blank line, \r\n or \n                               *)
(*   "text"         a line of text                                         *)
(*   "cmd", "stats" a line with the command ONLINE or WATCH, or STATS      *)
(***************************************************************************)
EXTENDS Integers, SequencesExt

CONSTANTS
  Streams,   \* what clients send: sequences of tokens
  Configs,   \* [guest, valid, numeric]: is there a guest account, is
             \* LOGIN:PASSWORD one of the users, is LOGIN made of digits
             \* that fit a cursor (and PASSWORD of letters and digits)
  MaxLen     \* IN_MAXLEN, in tokens

Token == {"marker", "cred", "ids", "odd", "eol", "crlf", "lf", "text", "cmd",
          "stats"}

ASSUME StreamsAssumption == Streams \subseteq Seq(Token)
ASSUME ConfigsAssumption ==
  Configs \subseteq [guest : BOOLEAN, valid : BOOLEAN, numeric : BOOLEAN]
ASSUME MaxLenAssumption == MaxLen \in Nat

VARIABLES
  stream, config,  \* the request and the users list, fixed by Init
  taken,           \* number of tokens read so far
  conn,            \* "open" or "closed"
  rdata,           \* tokens received and not dropped
  pairs,           \* "none", "ids", or "password": the password taken for an ID
  login,           \* "guest" or "user": member cred
  published,       \* bodies given to add_dataref_to_id: [body, pairs, login],
                   \* where pairs "some" are the IDs before an odd cursor
  answers,         \* responses given to fh()->send: "ids", "cmd" or "403"
  ended            \* why the connection was closed, "" before; "killed" is
                   \* the end of the process, see module InLine

vars == <<stream, config, taken, conn, rdata, pairs, login, published, answers, ended>>

Init ==
  /\ stream \in Streams /\ config \in Configs
  /\ taken = 0 /\ conn = "open"
  /\ rdata = <<>> /\ pairs = "none" /\ login = "guest"
  /\ published = <<>> /\ answers = <<>> /\ ended = ""

----------------------------------------------------------------------------
(* Parsing.                                                                *)

At(r, k, tokens) == k \in DOMAIN r /\ r[k] \in tokens

(* RE_LOGIN_PASSWORD_ID and RE_CURSOR_ID.  The credentials are optional in *)
(* the expression, so when LOGIN:PASSWORD@ is there but the list of IDs is *)
(* not finished yet, LOGIN:PASSWORD matches as the list and @ ends it.     *)
(* RE_CURSOR_ID lets 1.5:abc pass, but lexical_cast throws on it.          *)
extract_pairs(r) ==
  LET m == IF Contains(r, "marker") THEN SelectInSeq(r, LAMBDA t : t = "marker") ELSE Len(r)
      Result(what, p, l) == [what |-> what, pairs |-> p, login |-> l]
      Lists == {"ids", "odd"}
      Split(list, l) == IF list = "odd" THEN Result("throws", "none", l)
                        ELSE Result("found", "ids", l)
  IN IF At(r, m + 1, {"cred"})
     THEN CASE At(r, m + 2, Lists) /\ m + 3 \in DOMAIN r -> Split(r[m + 2], "user")
            [] At(r, m + 2, Token \ Lists) -> Result("found", "none", "user")
            [] OTHER -> Result("found", IF config.numeric THEN "password" ELSE "none", "guest")
     ELSE CASE At(r, m + 1, Lists) /\ m + 2 \in DOMAIN r -> Split(r[m + 1], "guest")
            [] At(r, m + 1, Token \ Lists) -> Result("found", "none", "guest")
            [] OTHER -> Result("missing", "none", login)

(* Where re_in_cmd matches: a command line, with at most one line that is  *)
(* taken for its argument, and a blank line or, at the end, nothing.       *)
Commands(r, finished_reading) ==
  {k \in DOMAIN r : /\ r[k] \in {"cmd", "stats"}
                    /\ \/ finished_reading
                       \/ At(r, k + 1, {"crlf", "lf"})
                       \/ At(r, k + 1, {"text"}) /\ At(r, k + 2, {"crlf", "lf"})}

FirstCommand(r, finished_reading) ==
  r[CHOOSE k \in Commands(r, finished_reading) :
      \A j \in Commands(r, finished_reading) : k <= j]

(* get_http_body: what follows the first \n\n, else the first \n\r\n.      *)
Blanks(r) == {k \in DOMAIN r : r[k] = "lf"}
HeaderEnds(r) == IF Blanks(r) # {} THEN Blanks(r) ELSE {k \in DOMAIN r : r[k] = "crlf"}
http_body(r) ==
  LET k == CHOOSE i \in HeaderEnds(r) : \A j \in HeaderEnds(r) : i <= j
  IN SubSeq(r, k + 1, Len(r))

----------------------------------------------------------------------------
(* The condition _assert_auth checks, for the login of cred.               *)
Allowed(l) == IF l = "user" THEN config.valid ELSE config.guest

(* _assert_auth and then the command; STATS tells a login nothing.         *)
Reply(cmd, l) ==
  IF ~ Allowed(l) THEN <<"403">>
  ELSE IF cmd = "stats" /\ l = "user" THEN <<>>
  ELSE <<"cmd">>

(* The closure is deleted, and the destructor runs onclose with what the   *)
(* handler has left in rdata, pairs and cred.                              *)
Finish(r, p, l, why) ==
  /\ conn' = "closed" /\ ended' = why
  /\ rdata' = <<>> /\ pairs' = "none" /\ login' = l
  /\ IF Commands(r, TRUE) # {}
     THEN /\ answers' = answers \o Reply(FirstCommand(r, TRUE), l)
          /\ UNCHANGED published
     ELSE IF p # "none" /\ HeaderEnds(r) # {}
     THEN /\ answers' = Append(answers, "ids")
          /\ published' = Append(published, [body |-> http_body(r), pairs |-> p, login |-> l])
     ELSE UNCHANGED <<answers, published>>

(* What is known once a chunk is appended: pairs are extracted unless they *)
(* were before.                                                            *)
Known(r) ==
  IF pairs = "none" THEN extract_pairs(r)
  ELSE [what |-> "missing", pairs |-> pairs, login |-> login]

(* _assert_auth is called when pairs were extracted, and passes.           *)
Passes(k) == k.what # "throws" /\ (k.what = "found" => Allowed(k.login))

(* Mutant of Received: only the new chunk is looked at.                    *)
ReceivedAlone(n) == SubSeq(stream, taken + 1, taken + n)

(* read_available_data appends the next n tokens.                          *)
Received(n) == rdata \o SubSeq(stream, taken + 1, taken + n)

Chunk(n) == conn = "open" /\ taken' = taken + n /\ UNCHANGED <<stream, config>>

(* Mutant of Refuse: onclose finds the pairs of the refused request.       *)
RefuseKeeps(n) ==
  /\ Chunk(n)
  /\ LET k == Known(Received(n))
     IN /\ k.what = "found" /\ ~ Allowed(k.login)
        /\ Finish(Received(n), k.pairs, k.login, "refused")

(* onread dies in _assert_auth, which has dropped all there was.           *)
Refuse(n) ==
  /\ Chunk(n)
  /\ LET k == Known(Received(n))
     IN /\ k.what = "found" /\ ~ Allowed(k.login)
        /\ login' = k.login
  /\ conn' = "closed" /\ ended' = "refused"
  /\ rdata' = <<>> /\ pairs' = "none"
  /\ answers' = Append(answers, "403")
  /\ UNCHANGED published

(* _split_ids dies of a cursor when cred is set and the pairs before it,   *)
(* if any, are stored: _assert_auth was not called, onclose is.            *)
CastFails(n) ==
  /\ Chunk(n)
  /\ LET k == Known(Received(n))
     IN /\ k.what = "throws"
        /\ \E p \in {"none", "some"} : Finish(Received(n), p, k.login, "cast")

(* onread finds a complete command: everything is dropped, the command is  *)
(* answered and the connection waits for EOF, or it dies in _assert_auth.  *)
Command(n) ==
  /\ Chunk(n)
  /\ LET r == Received(n)
         k == Known(r)
     IN /\ Passes(k)
        /\ Commands(r, FALSE) # {}
        /\ login' = k.login
        /\ answers' = answers \o Reply(FirstCommand(r, FALSE), k.login)
        /\ conn' = IF Allowed(k.login) THEN "open" ELSE "closed"
        /\ ended' = IF Allowed(k.login) THEN "" ELSE "refused"
  /\ rdata' = <<>> /\ pairs' = "none"
  /\ UNCHANGED published

Overflows(r) == Len(r) > MaxLen

(* onread only keeps the chunk, or dies of the overflow.                   *)
Keep(n) ==
  /\ Chunk(n)
  /\ LET r == Received(n)
         k == Known(r)
     IN /\ Passes(k)
        /\ Commands(r, FALSE) = {}
        /\ IF Overflows(r) THEN Finish(r, k.pairs, k.login, "overflow")
           ELSE /\ rdata' = r /\ pairs' = k.pairs /\ login' = k.login
                /\ UNCHANGED <<conn, ended, answers, published>>

(* The chunk fills the buffer of recv_and_append_to exactly: it is kept,   *)
(* but the next read has nothing to return and dies.                       *)
FullRead(n) == Chunk(n) /\ Finish(Received(n), pairs, login, "full")

(* read returns 0, or the client has reset the connection and read dies.   *)
NoMoreData(why) ==
  /\ conn = "open"
  /\ Finish(rdata, pairs, login, why)
  /\ UNCHANGED <<stream, config, taken>>

(* Mutant of Drop: what was received is kept for onclose.                  *)
DropNothing(why) == NoMoreData(why)

(* ontimeout and onerror drop everything, so that onclose finds nothing.   *)
Drop(why) ==
  /\ conn = "open"
  /\ Finish(<<>>, "none", login, why)
  /\ UNCHANGED <<stream, config, taken>>

----------------------------------------------------------------------------
TypeOK ==
  /\ stream \in Streams /\ config \in Configs /\ taken \in 0 .. Len(stream)
  /\ conn \in {"open", "closed"}
  /\ rdata \in Seq(Token) /\ Len(rdata) <= MaxLen
  /\ pairs \in {"none", "ids", "password"} /\ login \in {"guest", "user"}
  /\ published \in Seq([body : Seq(Token), pairs : {"ids", "some", "password"},
                        login : {"guest", "user"}])
  /\ answers \in Seq({"ids", "cmd", "403"})
  /\ ended \in {"", "eof", "reset", "timeout", "error", "refused", "cast", "overflow",
               "full", "killed"}

(* No command is answered for credentials that _assert_auth refuses, on    *)
(* whichever of the paths through an exception to onclose the connection   *)
(* ends; and no data is queued for them, except on one: a cursor on which  *)
(* extract_pairs dies (Common.h:322) keeps _assert_auth from being called, *)
(* and onclose then queues the body at the IDs before it.                  *)
OnlyAuthorised ==
  [][/\ answers' # answers /\ Last(answers') = "cmd" => Allowed(login')
     /\ published' # published => Allowed(login') \/ ended' = "cast"]_vars

(* A request that timed out or was refused is not published by the onclose *)
(* that follows, nor the part of one that was there when the process ended *)
(* because accept() found no descriptor left.                              *)
DroppedIsNotPublished ==
  ended \in {"timeout", "error", "refused", "killed"} => published = <<>>

Whole(end) == ended = end /\ taken = Len(stream)
StreamLogin == IF Contains(stream, "cred") THEN "user" ELSE "guest"
Publishable ==
  /\ Allowed(StreamLogin) /\ Contains(stream, "ids")
  /\ HeaderEnds(stream) # {} /\ Commands(stream, TRUE) = {}

(* Once all of a request was read up to EOF, its whole body is published   *)
(* to its own IDs under its own login, wherever the chunk boundaries fell. *)
AsIfInOneChunk ==
  published = IF Publishable
              THEN <<[body |-> http_body(stream), pairs |-> "ids", login |-> StreamLogin]>>
              ELSE <<>>

(* This does hold without credentials, and with them as long as guests are *)
(* let in and the login has a letter in it.                                *)
ChunksDoNotMatter ==
  Whole("eof") /\ (Contains(stream, "cred") => config.guest /\ ~ config.numeric)
    => AsIfInOneChunk

(* Config.h:214 "At the end, find a character, NOT the end of the string!  *)
(* Because only a chunk may finish, not the whole data."                   *)
OnlyAChunkMayFinish == Whole("eof") => AsIfInOneChunk

=============================================================================
