---------------------------- MODULE InLine_proofs ----------------------------
(***************************************************************************)
(* Theorems about a connection of the IN line and the loop around it, for  *)
(* requests, users lists and limits of any size.                           *)
(***************************************************************************)
EXTENDS InLine, TLAPS, SequenceTheorems

Answers == {"ids", "cmd", "403"}

(* Pairs are kept only for a login that _assert_auth has let pass.         *)
PairsAreAllowed == pairs # "none" => Allowed(login)

(* An open connection has published nothing: onclose does, and once.       *)
OpenHasNotPublished == conn = "open" => published = <<>>

(* Handlers belong to a closure that is there, and so does the connection. *)
ClosureIsOpen ==
  /\ place # "over" => conn = "open"
  /\ pending # {} => place = "accepted"

LineInv ==
  /\ answers \in Seq(Answers) /\ PairsAreAllowed /\ OpenHasNotPublished
  /\ DroppedIsNotPublished /\ ClosureIsOpen

(* What OnlyAuthorised says of a step.                                     *)
Authorised ==
  /\ answers' # answers /\ Last(answers') = "cmd" => Allowed(login')
  /\ published' # published => Allowed(login') \/ ended' = "cast"

LEMMA LineInitInv == LineInit => LineInv
<1> SUFFICES ASSUME LineInit PROVE LineInv
  OBVIOUS
<1>1. answers \in Seq(Answers) /\ pairs = "none" /\ published = <<>> /\ conn = "open"
  <2>1. answers = <<>> /\ pairs = "none" /\ published = <<>> /\ conn = "open"
    BY DEF LineInit, Init
  <2> QED
    BY <2>1
<1>2. place = "new" /\ pending = {}
  BY DEF LineInit
<1> QED
  BY <1>1, <1>2 DEF LineInv, PairsAreAllowed, OpenHasNotPublished, DroppedIsNotPublished,
                    ClosureIsOpen

(* Either an identifier line was found, or all is as it was.               *)
LEMMA KnownOrAsBefore ==
  ASSUME NEW r
  PROVE  \/ Known(r).what \in {"found", "throws"}
         \/ Known(r).pairs = pairs /\ Known(r).login = login
BY DEF Known, extract_pairs

LEMMA KnownIsAllowed ==
  ASSUME LineInv, NEW r, Passes(Known(r))
  PROVE  Known(r).pairs # "none" => Allowed(Known(r).login)
BY KnownOrAsBefore DEF LineInv, PairsAreAllowed, Passes

(* A command is answered for those it is allowed, others get a 403.        *)
LEMMA ReplyIsAuthorised ==
  ASSUME NEW cmd, NEW l, answers \in Seq(Answers), answers' = answers \o Reply(cmd, l)
  PROVE  /\ answers' \in Seq(Answers)
         /\ answers' # answers /\ Last(answers') = "cmd" => Allowed(l)
<1>1. CASE ~ Allowed(l)
  <2>1. Reply(cmd, l) = <<"403">>
    BY <1>1 DEF Reply
  <2> QED
    BY <2>1 DEF Last, Answers
<1>2. CASE Allowed(l)
  <2>1. Reply(cmd, l) = <<>> \/ Reply(cmd, l) = <<"cmd">>
    BY <1>2 DEF Reply
  <2>2. \/ answers' = answers \o <<>>
        \/ answers' = answers \o <<"cmd">>
    BY <2>1
  <2>3. "cmd" \in Answers
    BY DEF Answers
  <2>4. answers' \in Seq(Answers)
    <3>1. <<>> \in Seq(Answers) /\ <<"cmd">> \in Seq(Answers)
      BY <2>3
    <3>2. \A s \in Seq(Answers) : answers \o s \in Seq(Answers)
      OBVIOUS
    <3> QED
      BY <2>2, <3>1, <3>2
  <2> QED
    BY <1>2, <2>4
<1> QED
  BY <1>1, <1>2

(* onclose publishes and answers for a login that was let pass, if there   *)
(* are pairs only for such a one, or _split_ids has died.                  *)
LEMMA FinishIsAuthorised ==
  ASSUME LineInv, NEW r, NEW p, NEW l, NEW why,
         p # "none" => Allowed(l) \/ why = "cast", Finish(r, p, l, why)
  PROVE  Authorised /\ answers' \in Seq(Answers) /\ pairs' = "none" /\ conn' = "closed"
<1>1. pairs' = "none" /\ conn' = "closed" /\ login' = l /\ ended' = why
  BY DEF Finish
<1>2. CASE Commands(r, TRUE) # {}
  BY <1>1, <1>2, ReplyIsAuthorised DEF LineInv, Finish, Authorised
<1>3. CASE Commands(r, TRUE) = {} /\ p # "none" /\ HeaderEnds(r) # {}
  <2>1. answers' = Append(answers, "ids") /\ (Allowed(login') \/ ended' = "cast")
    BY <1>1, <1>3 DEF Finish
  <2>2. answers' \in Seq(Answers) /\ Last(answers') = "ids"
    BY <2>1 DEF LineInv, Answers, Last
  <2> QED
    BY <1>1, <2>1, <2>2 DEF Authorised
<1>4. CASE Commands(r, TRUE) = {} /\ ~ (p # "none" /\ HeaderEnds(r) # {})
  BY <1>1, <1>4 DEF LineInv, Finish, Authorised
<1> QED
  BY <1>2, <1>3, <1>4

(* The conjuncts a handler's own part of a step establishes.               *)
Handled ==
  /\ Authorised /\ answers' \in Seq(Answers) /\ PairsAreAllowed' /\ OpenHasNotPublished'
  /\ DroppedIsNotPublished'

LEMMA ReadsAreHandled ==
  ASSUME LineInv, NEW n, conn = "open",
         Refuse(n) \/ CastFails(n) \/ Command(n) \/ Keep(n) \/ FullRead(n)
  PROVE  Handled
<1> USE DEF Handled, PairsAreAllowed, OpenHasNotPublished, DroppedIsNotPublished
<1> DEFINE k == Known(Received(n))
<1>1. published = <<>> /\ answers \in Seq(Answers)
  BY DEF LineInv
<1>2. CASE Refuse(n)
  <2>1. answers' = Append(answers, "403") /\ published' = published /\ pairs' = "none"
    BY <1>2 DEF Refuse
  <2>2. answers' \in Seq(Answers) /\ Last(answers') = "403"
    BY <1>1, <2>1 DEF Last, Answers
  <2> QED
    BY <1>1, <2>1, <2>2 DEF Authorised
<1>3. CASE Command(n)
  <2>1. answers' \in Seq(Answers) /\ Authorised
    BY <1>1, <1>3, ReplyIsAuthorised DEF Command, Authorised
  <2>2. published' = <<>> /\ pairs' = "none"
    BY <1>1, <1>3 DEF Command
  <2> QED
    BY <2>1, <2>2
<1>4. CASE Keep(n)
  <2>1. Passes(k)
    BY <1>4 DEF Keep
  <2>2. k.pairs # "none" => Allowed(k.login)
    BY <2>1, KnownIsAllowed
  <2>3. CASE Finish(Received(n), k.pairs, k.login, "overflow")
    <3>1. ended' = "overflow"
      BY <2>3 DEF Finish
    <3> QED
      BY <2>2, <2>3, <3>1, FinishIsAuthorised
  <2>4. CASE /\ pairs' = k.pairs /\ login' = k.login
             /\ UNCHANGED <<conn, ended, answers, published>>
    <3>1. config' = config
      BY <1>4 DEF Keep, Chunk
    <3> QED
      BY <1>1, <2>2, <2>4, <3>1 DEF Authorised, Allowed
  <2> QED
    BY <1>4, <2>3, <2>4 DEF Keep
<1>5. CASE FullRead(n)
  <2>1. Finish(Received(n), pairs, login, "full")
    BY <1>5 DEF FullRead
  <2>2. ended' = "full"
    BY <2>1 DEF Finish
  <2> QED
    BY <2>1, <2>2, FinishIsAuthorised DEF LineInv
<1>6. CASE CastFails(n)
  <2>1. PICK p \in {"none", "some"} : Finish(Received(n), p, k.login, "cast")
    BY <1>6 DEF CastFails
  <2>2. ended' = "cast"
    BY <2>1 DEF Finish
  <2> QED
    BY <2>1, <2>2, FinishIsAuthorised
<1> QED
  BY <1>2, <1>3, <1>4, <1>5, <1>6

LEMMA EndsAreHandled ==
  ASSUME LineInv, NEW why, conn = "open",
         \/ NoMoreData(why) /\ why \in {"eof", "reset"}
         \/ Drop(why)
  PROVE  Handled
<1> USE DEF Handled, PairsAreAllowed, OpenHasNotPublished, DroppedIsNotPublished
<1>1. CASE NoMoreData(why) /\ why \in {"eof", "reset"}
  <2>1. Finish(rdata, pairs, login, why)
    BY <1>1 DEF NoMoreData
  <2>2. ended' = why
    BY <2>1 DEF Finish
  <2> QED
    BY <1>1, <2>1, <2>2, FinishIsAuthorised DEF LineInv
<1>2. CASE Drop(why)
  <2>1. Finish(<<>>, "none", login, why)
    BY <1>2 DEF Drop
  <2>2. Commands(<<>>, TRUE) = {}
    BY DEF Commands
  <2>3. published' = <<>>
    BY <2>1, <2>2 DEF Finish, LineInv
  <2> QED
    BY <2>1, <2>3, FinishIsAuthorised
<1> QED
  BY <1>1, <1>2

LEMMA RearmKeepsClosure ==
  ASSUME LineInv, NEW w, place = "accepted", Rearm(w)
  PROVE  ClosureIsOpen'
BY DEF LineInv, Rearm, Released, ClosureIsOpen

LEMMA LineStep == LineInv /\ [LineNext]_lineVars => LineInv' /\ [Authorised]_vars
<1> SUFFICES ASSUME LineInv, [LineNext]_lineVars PROVE LineInv' /\ [Authorised]_vars
  OBVIOUS
<1>0. "io" \in pending \/ "timer" \in pending => conn = "open" /\ place = "accepted"
  BY DEF LineInv, ClosureIsOpen
<1>1. CASE /\ UNCHANGED vars
           /\ (Connect \/ Send \/ OthersComeAndGo \/ handle_connect \/ Readable \/ Expire)
  <2>1. ClosureIsOpen'
    BY <1>1 DEF LineInv, ClosureIsOpen, Connect, Send, OthersComeAndGo, handle_connect, Readable,
                Expire, vars
  <2> QED
    BY <1>1, <2>1 DEF LineInv, vars, PairsAreAllowed, OpenHasNotPublished, DroppedIsNotPublished,
                      Allowed
<1>2. CASE ProcessEnds
  <2>1. UNCHANGED <<pairs, login, answers, published, config>> /\ conn' = "closed"
        /\ place' = "over" /\ pending' = {}
    BY <1>2 DEF ProcessEnds, Ends
  <2>2. published = <<>>
    BY <1>2 DEF ProcessEnds, LineInv, ClosureIsOpen, OpenHasNotPublished
  <2> QED
    BY <2>1, <2>2 DEF LineInv, PairsAreAllowed, OpenHasNotPublished, DroppedIsNotPublished,
                      ClosureIsOpen, Allowed, Authorised
<1>3. CASE HandleRead
  <2>1. Handled
    <3>1. CASE \E n \in {written - taken} :
                 Refuse(n) \/ CastFails(n) \/ Command(n) \/ Keep(n) \/ FullRead(n)
      BY <1>0, <1>3, <3>1, ReadsAreHandled DEF HandleRead
    <3>2. CASE NoMoreData("eof") \/ NoMoreData("reset")
      BY <1>0, <1>3, <3>2, EndsAreHandled DEF HandleRead
    <3> QED
      BY <1>3, <3>1, <3>2 DEF HandleRead
  <2>2. ClosureIsOpen'
    BY <1>0, <1>3, RearmKeepsClosure DEF HandleRead
  <2> QED
    BY <2>1, <2>2 DEF LineInv, Handled
<1>4. CASE HandleError \/ HandleTimeout
  <2>1. Handled
    BY <1>0, <1>4, EndsAreHandled DEF HandleError, HandleTimeout
  <2>2. ClosureIsOpen'
    BY <1>0, <1>4, RearmKeepsClosure DEF HandleError, HandleTimeout
  <2> QED
    BY <2>1, <2>2 DEF LineInv, Handled
<1>5. CASE UNCHANGED lineVars
  BY <1>5 DEF lineVars, loopVars, LineInv, vars, PairsAreAllowed, OpenHasNotPublished,
              DroppedIsNotPublished, ClosureIsOpen, Allowed
<1>6. Connect \/ Send \/ OthersComeAndGo \/ handle_connect \/ Readable \/ Expire => UNCHANGED vars
  BY DEF Connect, Send, OthersComeAndGo, handle_connect, Readable, Expire
<1> QED
  BY <1>1, <1>2, <1>3, <1>4, <1>5, <1>6 DEF LineNext, Loop, AcceptFails

(* Whatever a client sends, in whatever chunks, and however the connection *)
(* ends (In.h:96, :107), no command is answered for credentials that are   *)
(* refused, and nothing is published for them either, unless extract_pairs *)
(* has died of a cursor (Common.h:322) before they were checked (In.h:83). *)
THEOREM AuthorisedOnly == LineSpec => OnlyAuthorised
<1>1. LineInv /\ [LineNext]_lineVars => [Authorised]_vars
  BY LineStep
<1>2. OnlyAuthorised <=> [][Authorised]_vars
  BY DEF OnlyAuthorised, Authorised
<1> QED
  BY <1>1, <1>2, LineInitInv, LineStep, PTL DEF LineSpec

(* A request that timed out or was refused (In.h:54), or was there when    *)
(* the process ended, is never published.                                  *)
THEOREM DroppedStaysDropped == LineSpec => []DroppedIsNotPublished
<1>1. LineInv => DroppedIsNotPublished
  BY DEF LineInv
<1> QED
  BY <1>1, LineInitInv, LineStep, PTL DEF LineSpec

(* No event is left for a closure that a handler has deleted               *)
(* (Server.h:151), in whatever order the loop calls its handlers.          *)
THEOREM NothingOfTheDeleted == LineSpec => []NoEventOfTheDeleted
<1>1. LineInv => NoEventOfTheDeleted
  BY DEF LineInv, ClosureIsOpen, NoEventOfTheDeleted
<1> QED
  BY <1>1, LineInitInv, LineStep, PTL DEF LineSpec

----------------------------------------------------------------------------
(* The chunks of a request.                                                *)

(* A request as clients send it: there is one identifier line at most,     *)
(* before any command, and LOGIN:PASSWORD@ and the list of IDs stand in it *)
(* only, the list with a character that ends it.                           *)
IsRequest(s) ==
  \A k \in DOMAIN s :
    /\ s[k] = "cred" => k - 1 \in DOMAIN s /\ s[k - 1] = "marker"
    /\ s[k] = "ids" => /\ k - 1 \in DOMAIN s /\ s[k - 1] \in {"marker", "cred"}
                       /\ k + 1 \in DOMAIN s
    /\ s[k] = "marker" => \A j \in 1 .. k - 1 : s[j] \notin {"marker", "cmd", "stats"}

(* The requests ChunksDoNotMatter is about.                                *)
Simple == Contains(stream, "cred") => config.guest /\ ~ config.numeric

(* The list of IDs and the character that ends it are among the first n.   *)
Identified(s, n) == \E k \in 1 .. n - 1 : s[k] = "ids"

(* A command was answered, and everything before it was dropped.           *)
Answered ==
  /\ pairs = "none" /\ Commands(stream, TRUE) # {}
  /\ rdata \in Seq(Token) /\ \A k \in DOMAIN rdata : rdata[k] # "marker"
  /\ \A k \in DOMAIN stream : k > taken => stream[k] # "marker"

(* Everything that was read is there, and what could be extracted is       *)
(* extracted, wherever the chunk boundaries fell.                          *)
AllThere ==
  /\ rdata = SubSeq(stream, 1, taken)
  /\ IF Identified(stream, taken) THEN pairs = "ids" /\ login = StreamLogin ELSE pairs = "none"

Size == Len(stream)

InBounds ==
  /\ stream \in Streams /\ taken \in Nat /\ written \in Nat
  /\ taken <= written /\ written <= Size

IsThere == Simple /\ conn = "open" => Answered \/ AllThere

ChunksInv == InBounds /\ IsThere /\ (conn = "open" => ended = "")

LEMMA StreamIs ==
  ASSUME ChunksInv
  PROVE  stream \in Seq(Token) /\ Size \in Nat /\ Len(stream) = Size
<1>1. stream \in Seq(Token)
  BY StreamsAssumption DEF ChunksInv, InBounds
<1> QED BY <1>1 DEF Size

LEMMA BoundsAre ==
  ASSUME ChunksInv
  PROVE  /\ stream \in Streams /\ taken \in Nat /\ written \in Nat /\ Size \in Nat
         /\ taken <= written /\ written <= Size
<1>1. Size \in Nat
  BY StreamIs
<1> QED BY <1>1, Zenon DEF ChunksInv, InBounds

(* The value of extract_pairs, for the position m of the marker.           *)
Extracted(r, m) ==
  LET Result(what, p, l) == [what |-> what, pairs |-> p, login |-> l]
      Lists == {"ids", "odd"}
      Split(list, l) == IF list = "odd" THEN Result("throws", "none", l)
                        ELSE Result("found", "ids", l)
  IN IF At(r, m + 1, {"cred"})
     THEN CASE At(r, m + 2, Lists) /\ m + 3 \in DOMAIN r -> Split(r[m + 2], "user")
            [] At(r, m + 2, Token \ Lists) -> Result("found", "none", "user")
            [] OTHER -> Result("found", IF config.numeric THEN "password" ELSE "none", "guest")
     ELSE CASE At(r, m + 1, Lists) /\ m + 2 \in DOMAIN r -> Split(r[m + 1], "guest")
            [] At(r, m + 1, Token \ Lists) -> Result("found", "none", "guest")
            [] OTHER -> Result("missing", "none", login)

Mark(r) == IF Contains(r, "marker") THEN SelectInSeq(r, LAMBDA t : t = "marker") ELSE Len(r)

LEMMA ExtractedIs == \A r : extract_pairs(r) = Extracted(r, Mark(r))
BY Zenon DEF extract_pairs, Extracted, Mark

(* Lemma: the only marker is found.                                        *)
LEMMA MarkIs ==
  ASSUME NEW n \in Nat, NEW r, Len(r) = n, NEW q \in 1 .. n, r[q] = "marker",
         \A k \in 1 .. n : r[k] = "marker" => k = q
  PROVE  Mark(r) = q
<1>1. Contains(r, "marker")
  BY DEF Contains
<1>2. {i \in 1 .. Len(r) : r[i] = "marker"} = {q}
  OBVIOUS
<1>3. SelectInSeq(r, LAMBDA t : t = "marker") = Min({q})
  BY <1>2 DEF SelectInSeq
<1>4. Min({q}) = q
  BY DEF Min
<1> QED BY <1>1, <1>3, <1>4 DEF Mark

(* The first n tokens of s.                                                *)
IsFirst(r, s, n) ==
  /\ n \in Nat /\ DOMAIN s = 1 .. Len(s) /\ n <= Len(s) /\ Len(s) \in Nat
  /\ DOMAIN r = 1 .. n /\ Len(r) = n /\ \A k \in 1 .. n : r[k] = s[k]

(* Lemma: there is one marker.                                             *)
LEMMA OneMark ==
  ASSUME NEW s, IsRequest(s), NEW n, NEW r, IsFirst(r, s, n), NEW q \in 1 .. n, r[q] = "marker"
  PROVE  Mark(r) = q
<1>1. /\ n \in Nat /\ Len(s) \in Nat /\ n <= Len(s) /\ Len(r) = n
      /\ DOMAIN s = 1 .. Len(s) /\ \A k \in 1 .. n : r[k] = s[k] /\ k \in DOMAIN s
  BY DEF IsFirst
<1>2. ASSUME NEW k \in 1 .. n, r[k] = "marker" PROVE k = q
  <2>1. s[k] = "marker" /\ s[q] = "marker" /\ k \in DOMAIN s /\ q \in DOMAIN s
    BY <1>1, <1>2
  <2>2. ~ (k \in 1 .. q - 1) /\ ~ (q \in 1 .. k - 1)
    BY <2>1 DEF IsRequest
  <2> QED BY <1>1, <2>2
<1> QED BY <1>1, <1>2, MarkIs

(* Lemma: without a marker nothing is found.                               *)
LEMMA NoMarkNoPairs ==
  ASSUME NEW n \in Nat, NEW r, DOMAIN r = 1 .. n, Len(r) = n, \A k \in 1 .. n : r[k] # "marker"
  PROVE  extract_pairs(r).what = "missing" /\ extract_pairs(r).pairs = "none"
<1>1. ~ Contains(r, "marker")
  BY DEF Contains
<1>2. Mark(r) = n
  BY <1>1 DEF Mark
<1>3. n + 1 \notin DOMAIN r
  OBVIOUS
<1>4. \A T : ~ At(r, n + 1, T)
  BY <1>3 DEF At
<1>5. Extracted(r, n).what = "missing" /\ Extracted(r, n).pairs = "none"
  BY <1>4 DEF Extracted
<1> QED BY <1>2, <1>5, ExtractedIs

(* Lemma: nothing is taken for the IDs before they end, unless the         *)
(* password is.                                                            *)
LEMMA NoIdsNoPairs ==
  ASSUME NEW s, IsRequest(s), NEW n, NEW r, IsFirst(r, s, n), ~ Identified(s, n),
         ~ (config.numeric /\ \E k \in DOMAIN s : s[k] = "cred")
  PROVE  extract_pairs(r).pairs = "none"
<1>1. /\ n \in Nat /\ Len(s) \in Nat /\ n <= Len(s) /\ Len(r) = n /\ DOMAIN r = 1 .. n
      /\ DOMAIN s = 1 .. Len(s) /\ \A k \in 1 .. n : r[k] = s[k] /\ k \in DOMAIN s
  BY DEF IsFirst
<1>2. CASE \A k \in 1 .. n : r[k] # "marker"
  BY <1>1, <1>2, NoMarkNoPairs
<1>3. ASSUME NEW m \in 1 .. n, r[m] = "marker"
      PROVE  extract_pairs(r).pairs = "none"
  <2>1. extract_pairs(r) = Extracted(r, m)
    BY <1>3, OneMark, ExtractedIs
  <2>2. ASSUME NEW k \in 1 .. n, k + 1 \in DOMAIN r PROVE r[k] # "ids"
    <3>1. k \in 1 .. n - 1 /\ r[k] = s[k]
      BY <1>1, <2>2
    <3> QED BY <3>1 DEF Identified
  <2>3. At(r, m + 1, {"ids", "odd"}) /\ m + 2 \in DOMAIN r => r[m + 1] = "odd"
    <3>1. m + 1 + 1 = m + 2 /\ (m + 1 \in DOMAIN r => m + 1 \in 1 .. n)
      BY <1>1
    <3> QED BY <2>2, <3>1 DEF At
  <2>4. At(r, m + 2, {"ids", "odd"}) /\ m + 3 \in DOMAIN r => r[m + 2] = "odd"
    <3>1. m + 2 + 1 = m + 3 /\ (m + 2 \in DOMAIN r => m + 2 \in 1 .. n)
      BY <1>1
    <3> QED BY <2>2, <3>1 DEF At
  <2>5. At(r, m + 1, {"cred"}) => ~ config.numeric
    <3>1. m + 1 \in DOMAIN r => r[m + 1] = s[m + 1] /\ m + 1 \in DOMAIN s
      BY <1>1
    <3> QED BY <3>1 DEF At
  <2>6. Extracted(r, m).pairs = "none"
    BY <2>3, <2>4, <2>5 DEF Extracted
  <2> QED BY <2>1, <2>6
<1> QED BY <1>2, <1>3

(* Lemma: the IDs are found when they have ended, with their login.        *)
LEMMA IdsAreFound ==
  ASSUME NEW s, IsRequest(s), NEW n, NEW r, IsFirst(r, s, n), Identified(s, n)
  PROVE  /\ extract_pairs(r).what = "found" /\ extract_pairs(r).pairs = "ids"
         /\ extract_pairs(r).login = IF Contains(s, "cred") THEN "user" ELSE "guest"
<1>1. /\ n \in Nat /\ Len(s) \in Nat /\ n <= Len(s) /\ Len(r) = n /\ DOMAIN r = 1 .. n
      /\ DOMAIN s = 1 .. Len(s) /\ \A k \in 1 .. n : r[k] = s[k] /\ k \in DOMAIN s
  BY DEF IsFirst
<1>2. PICK k \in 1 .. n - 1 : s[k] = "ids"
  BY DEF Identified
<1>3. k \in DOMAIN s /\ k - 1 \in DOMAIN s /\ s[k - 1] \in {"marker", "cred"} /\ k \in 1 .. n
  <2>1. k \in DOMAIN s /\ k \in 1 .. n
    BY <1>1
  <2> QED BY <1>2, <2>1 DEF IsRequest
<1>4. k - 1 \in 1 .. n /\ r[k - 1] = s[k - 1] /\ r[k] = "ids" /\ k + 1 \in DOMAIN r
  BY <1>1, <1>2, <1>3
<1>5. CASE s[k - 1] = "marker"
  <2> DEFINE m == k - 1
  <2>1. extract_pairs(r) = Extracted(r, m)
    BY <1>4, <1>5, OneMark, ExtractedIs
  <2>2. m + 1 = k /\ m + 2 = k + 1
    BY <1>1
  <2>3. ~ Contains(s, "cred")
    <3> SUFFICES ASSUME NEW j \in 1 .. Len(s), s[j] = "cred" PROVE FALSE
      BY DEF Contains
    <3>1. j - 1 \in DOMAIN s /\ s[j - 1] = "marker"
      BY <1>1 DEF IsRequest
    <3>2. ~ (j - 1 \in 1 .. m - 1) /\ ~ (m \in 1 .. j - 1 - 1)
      BY <1>3, <1>5, <3>1 DEF IsRequest
    <3>3. j = k
      BY <1>1, <1>3, <3>1, <3>2
    <3> QED BY <1>2, <3>3
  <2> HIDE DEF m
  <2>4. /\ At(r, m + 1, {"ids", "odd"}) /\ ~ At(r, m + 1, {"cred"}) /\ m + 2 \in DOMAIN r
        /\ r[m + 1] = "ids"
    <3>1. k \in DOMAIN r /\ r[k] = "ids" /\ k + 1 \in DOMAIN r
      BY <1>1, <1>3, <1>4
    <3>2. At(r, k, {"ids", "odd"}) /\ ~ At(r, k, {"cred"})
      BY <3>1 DEF At
    <3> QED BY <2>2, <3>1, <3>2
  <2>5. Extracted(r, m) = [what |-> "found", pairs |-> "ids", login |-> "guest"]
    <3>1. ~ At(r, m + 1, Token \ {"ids", "odd"})
      BY <2>4 DEF At
    <3> QED BY <2>4, <3>1 DEF Extracted
  <2> QED BY <2>1, <2>3, <2>5
<1>6. CASE s[k - 1] = "cred"
  <2> DEFINE m == k - 2
  <2>1. k - 1 - 1 \in DOMAIN s /\ s[k - 1 - 1] = "marker"
    BY <1>3, <1>6 DEF IsRequest
  <2>2. m \in 1 .. n /\ r[m] = "marker" /\ m + 1 = k - 1 /\ m + 2 = k /\ m + 3 = k + 1
    BY <1>1, <2>1
  <2> HIDE DEF m
  <2>3. extract_pairs(r) = Extracted(r, m)
    BY <2>2, OneMark, ExtractedIs
  <2>4. Contains(s, "cred")
    BY <1>1, <1>3, <1>6 DEF Contains
  <2>5. /\ At(r, m + 1, {"cred"}) /\ At(r, m + 2, {"ids", "odd"}) /\ m + 3 \in DOMAIN r
        /\ r[m + 2] = "ids"
    BY <1>1, <1>3, <1>4, <1>6, <2>2 DEF At
  <2>6. Extracted(r, m) = [what |-> "found", pairs |-> "ids", login |-> "user"]
    <3>1. ~ At(r, m + 2, Token \ {"ids", "odd"})
      BY <2>5 DEF At
    <3> QED BY <2>5, <3>1 DEF Extracted
  <2> QED BY <2>3, <2>4, <2>6
<1> QED BY <1>3, <1>5, <1>6

----------------------------------------------------------------------------
(* What each handler does to what is there.                                *)

LEMMA FirstOnes ==
  ASSUME NEW s \in Seq(Token), NEW n, n \in Nat, n <= Len(s)
  PROVE  SubSeq(s, 1, n) \in Seq(Token) /\ IsFirst(SubSeq(s, 1, n), s, n)
<1>1. Len(s) \in Nat /\ DOMAIN s = 1 .. Len(s)
  OBVIOUS
<1>2. /\ SubSeq(s, 1, n) \in Seq(Token) /\ Len(SubSeq(s, 1, n)) = n
      /\ \A k \in 1 .. n : SubSeq(s, 1, n)[k] = s[k]
  OBVIOUS
<1>3. DOMAIN SubSeq(s, 1, n) = 1 .. n
  BY <1>2
<1> QED BY <1>1, <1>2, <1>3 DEF IsFirst

LEMMA ChunkJoins ==
  ASSUME NEW s \in Seq(Token), NEW t \in Nat, NEW n \in Nat, t + n <= Len(s)
  PROVE  SubSeq(s, 1, t) \o SubSeq(s, t + 1, t + n) = SubSeq(s, 1, t + n)
<1>1. /\ 1 \in 1 .. Len(s) + 1 /\ t \in 1 - 1 .. Len(s) /\ t + n \in t .. Len(s)
  OBVIOUS
<1> QED BY <1>1, ConcatAdjacentSubSeq

(* Lemma: a chunk holds no marker if the rest of the stream does not.      *)
LEMMA NoMarkReceived ==
  ASSUME NEW s \in Seq(Token), NEW t \in Nat, NEW n \in Nat, t + n <= Len(s),
         NEW r \in Seq(Token), \A k \in DOMAIN r : r[k] # "marker",
         \A k \in DOMAIN s : k > t => s[k] # "marker"
  PROVE  /\ r \o SubSeq(s, t + 1, t + n) \in Seq(Token)
         /\ \A k \in DOMAIN (r \o SubSeq(s, t + 1, t + n)) :
              (r \o SubSeq(s, t + 1, t + n))[k] # "marker"
<1> DEFINE c == SubSeq(s, t + 1, t + n)
<1>1. c \in Seq(Token) /\ \A k \in DOMAIN c : c[k] # "marker"
  <2>1. \A k \in t + 1 .. t + n : s[k] \in Token
    OBVIOUS
  <2>2. /\ c \in Seq(Token) /\ Len(c) = (IF t + 1 <= t + n THEN t + n - (t + 1) + 1 ELSE 0)
        /\ \A i \in 1 .. t + n - (t + 1) + 1 : c[i] = s[t + 1 + i - 1]
    BY <2>1, SubSeqProperties
  <2>3. t + n - (t + 1) + 1 = n /\ (IF t + 1 <= t + n THEN n ELSE 0) = n
    OBVIOUS
  <2>4. \A i \in 1 .. n : t + 1 + i - 1 \in 1 .. Len(s) /\ t + 1 + i - 1 > t
    OBVIOUS
  <2>5. DOMAIN c = 1 .. n /\ DOMAIN s = 1 .. Len(s)
    BY <2>2, <2>3
  <2> QED BY <2>2, <2>3, <2>4, <2>5
<1> HIDE DEF c
<1>2. /\ r \o c \in Seq(Token) /\ Len(r \o c) = Len(r) + Len(c)
      /\ \A i \in 1 .. Len(r) + Len(c) :
           (r \o c)[i] = IF i <= Len(r) THEN r[i] ELSE c[i - Len(r)]
  BY <1>1, ConcatProperties
<1>3. /\ DOMAIN (r \o c) = 1 .. Len(r) + Len(c) /\ Len(r) \in Nat /\ Len(c) \in Nat
      /\ DOMAIN r = 1 .. Len(r) /\ DOMAIN c = 1 .. Len(c)
  BY <1>1, <1>2
<1>4. \A i \in 1 .. Len(r) + Len(c) :
        IF i <= Len(r) THEN i \in DOMAIN r ELSE i - Len(r) \in DOMAIN c
  BY <1>3
<1> QED BY <1>1, <1>2, <1>3, <1>4 DEF c

(* Lemma: what is known after a chunk, all that was read being there.      *)
LEMMA KnownOfAll ==
  ASSUME IsRequest(stream), ChunksInv, Simple, AllThere, NEW n \in Nat, taken + n <= Len(stream)
  PROVE  LET r == Received(n)
         IN /\ r = SubSeq(stream, 1, taken + n)
            /\ IF Identified(stream, taken + n)
               THEN Known(r).pairs = "ids" /\ Known(r).login = StreamLogin
               ELSE Known(r).pairs = "none"
<1> DEFINE r == Received(n)
<1>1. stream \in Seq(Token) /\ IsRequest(stream) /\ taken \in Nat
  BY StreamIs DEF ChunksInv, InBounds
<1>2. r = SubSeq(stream, 1, taken + n)
  BY <1>1, ChunkJoins DEF AllThere, Received
<1> HIDE DEF r
<1>3. IsFirst(r, stream, taken + n)
  BY <1>1, <1>2, FirstOnes
<1>4. Identified(stream, taken) => Identified(stream, taken + n)
  BY <1>1 DEF Identified
<1>5. CASE pairs # "none"
  <2>1. Identified(stream, taken) /\ pairs = "ids" /\ login = StreamLogin
    BY <1>5 DEF AllThere
  <2>2. Known(r).pairs = pairs /\ Known(r).login = login
    BY <1>5 DEF Known
  <2> QED BY <1>2, <1>4, <2>1, <2>2 DEF r
<1>6. CASE pairs = "none"
  <2>1. Known(r) = extract_pairs(r)
    BY <1>6 DEF Known
  <2>2. CASE Identified(stream, taken + n)
    BY <1>1, <1>2, <1>3, <2>1, <2>2, IdsAreFound DEF StreamLogin, r
  <2>3. CASE ~ Identified(stream, taken + n)
    <3>1. ~ (config.numeric /\ \E k \in DOMAIN stream : stream[k] = "cred")
      BY <1>1 DEF Simple, Contains
    <3> QED BY <1>1, <1>2, <1>3, <2>1, <2>3, <3>1, NoIdsNoPairs DEF r
  <2> QED BY <2>2, <2>3
<1> QED BY <1>5, <1>6

(* Lemma: a command in what was read is one of the stream's, and no        *)
(* identifier line follows.                                                *)
LEMMA CommandOfAll ==
  ASSUME NEW s \in Seq(Token), IsRequest(s), NEW n \in Nat, n <= Len(s), NEW b,
         Commands(SubSeq(s, 1, n), b) # {}
  PROVE  Commands(s, TRUE) # {} /\ \A k \in DOMAIN s : k > n => s[k] # "marker"
<1>1. IsFirst(SubSeq(s, 1, n), s, n)
  BY FirstOnes
<1>2. PICK k \in DOMAIN SubSeq(s, 1, n) : SubSeq(s, 1, n)[k] \in {"cmd", "stats"}
  BY DEF Commands
<1>3. k \in 1 .. n /\ k \in DOMAIN s /\ s[k] \in {"cmd", "stats"} /\ DOMAIN s = 1 .. Len(s)
      /\ Len(s) \in Nat
  BY <1>1, <1>2 DEF IsFirst
<1>4. k \in Commands(s, TRUE)
  BY <1>3 DEF Commands
<1>5. ASSUME NEW j \in DOMAIN s, j > n, s[j] = "marker" PROVE FALSE
  <2>1. k \in 1 .. j - 1
    BY <1>3, <1>5
  <2> QED BY <1>3, <1>5, <2>1 DEF IsRequest
<1> QED BY <1>4, <1>5

(* Lemma: what is there after a chunk that is not refused.                 *)
LEMMA ReadKeepsAll ==
  ASSUME IsRequest(stream), ChunksInv, Simple, conn = "open",
         NEW n \in Nat, taken + n <= Len(stream),
         Command(n) \/ Keep(n), conn' = "open"
  PROVE  (Answered \/ AllThere)'
<1>1. stream \in Seq(Token) /\ IsRequest(stream) /\ taken \in Nat
  BY StreamIs DEF ChunksInv, InBounds
<1>2. taken' = taken + n /\ stream' = stream /\ config' = config
  BY DEF Command, Keep, Chunk
<1> DEFINE r == Received(n)
<1>3. Commands(stream, TRUE)' = Commands(stream, TRUE)
  BY <1>2 DEF Commands, At
<1>4. CASE Command(n)
  <2>1. rdata' = <<>> /\ pairs' = "none" /\ Commands(r, FALSE) # {}
    BY <1>4 DEF Command
  <2>2. Commands(stream, TRUE) # {} /\ \A k \in DOMAIN stream : k > taken + n
                                                                => stream[k] # "marker"
    <3>1. CASE AllThere
      <4>1. r = SubSeq(stream, 1, taken + n)
        BY <3>1, KnownOfAll
      <4>2. taken + n \in Nat
        BY <1>1
      <4>3. Commands(SubSeq(stream, 1, taken + n), FALSE) # {}
        BY <2>1, <4>1, Zenon
      <4> QED BY <1>1, <4>2, <4>3, CommandOfAll
    <3>2. CASE Answered
      <4>1. \A k \in DOMAIN stream : k > taken + n => k > taken
        BY <1>1
      <4> QED BY <3>2, <4>1 DEF Answered
    <3> QED BY <3>1, <3>2 DEF ChunksInv, IsThere
  <2>3. rdata' \in Seq(Token) /\ \A k \in DOMAIN rdata' : rdata'[k] # "marker"
    BY <2>1
  <2>4. \A k \in DOMAIN stream' : k > taken' => stream'[k] # "marker"
    BY <1>2, <2>2
  <2>5. Commands(stream, TRUE)' # {}
    BY <1>3, <2>2
  <2> QED BY <2>1, <2>3, <2>4, <2>5 DEF Answered
<1>5. CASE Keep(n)
  <2>1. rdata' = r /\ pairs' = Known(r).pairs /\ login' = Known(r).login
    BY <1>5 DEF Keep, Finish
  <2>2. CASE AllThere
    <3> HIDE DEF r
    <3>1. /\ r = SubSeq(stream, 1, taken + n)
          /\ IF Identified(stream, taken + n)
             THEN Known(r).pairs = "ids" /\ Known(r).login = StreamLogin
             ELSE Known(r).pairs = "none"
      BY <2>2, KnownOfAll DEF r
    <3> QED BY <1>2, <2>1, <3>1 DEF AllThere, Identified, StreamLogin
  <2>3. CASE Answered
    <3>1. r \in Seq(Token) /\ \A k \in DOMAIN r : r[k] # "marker"
      <4>1. /\ rdata \in Seq(Token) /\ \A k \in DOMAIN rdata : rdata[k] # "marker"
            /\ \A k \in DOMAIN stream : k > taken => stream[k] # "marker"
        BY <2>3 DEF Answered
      <4> QED BY <1>1, <4>1, NoMarkReceived DEF Received
    <3> HIDE DEF r
    <3>2. Known(r).pairs = "none"
      <4>1. Len(r) \in Nat /\ DOMAIN r = 1 .. Len(r)
        BY <3>1
      <4>2. extract_pairs(r).pairs = "none"
        BY <3>1, <4>1, NoMarkNoPairs
      <4> QED BY <2>3, <4>2 DEF Known, Answered
    <3>3. \A k \in DOMAIN stream : k > taken + n => stream[k] # "marker"
      <4>1. \A k \in DOMAIN stream : k > taken + n => k > taken
        BY <1>1
      <4> QED BY <2>3, <4>1 DEF Answered
    <3>4. Commands(stream, TRUE) # {}
      BY <2>3 DEF Answered
    <3> QED BY <1>2, <1>3, <2>1, <3>1, <3>2, <3>3, <3>4 DEF Answered
  <2> QED BY <2>2, <2>3 DEF ChunksInv, IsThere
<1> QED BY <1>4, <1>5

(* Lemma: all of a request is published when it has come to its end.       *)
LEMMA EndPublishesAll ==
  ASSUME IsRequest(stream), ChunksInv, LineInv, conn = "open", Finish(rdata, pairs, login, "eof"),
         UNCHANGED <<stream, config, taken>>
  PROVE  ChunksDoNotMatter'
<1> SUFFICES ASSUME Simple, taken = Len(stream)
             PROVE  published' = IF Publishable
                                 THEN <<[body |-> http_body(stream), pairs |-> "ids",
                                         login |-> StreamLogin]>>
                                 ELSE <<>>
  <2> DEFINE all == IF Publishable
                    THEN <<[body |-> http_body(stream), pairs |-> "ids", login |-> StreamLogin]>>
                    ELSE <<>>
  <2>1. (http_body(stream)' = http_body(stream)) /\ (StreamLogin' = StreamLogin)
        /\ (Publishable' <=> Publishable)
    BY DEF http_body, StreamLogin, Publishable, Allowed, HeaderEnds, Blanks, Commands, At
  <2>2. AsIfInOneChunk' <=> published' = all
    BY <2>1 DEF AsIfInOneChunk
  <2>3. ChunksDoNotMatter' <=> (Whole("eof")' /\ Simple => AsIfInOneChunk')
    BY DEF ChunksDoNotMatter, Simple
  <2>4. Whole("eof")' => taken = Len(stream)
    BY DEF Whole
  <2> QED BY <2>2, <2>3, <2>4
<1>1. stream \in Seq(Token) /\ IsRequest(stream) /\ published = <<>>
  BY StreamIs DEF ChunksInv, InBounds, LineInv, OpenHasNotPublished
<1>2. Answered \/ AllThere
  BY DEF ChunksInv, IsThere
<1>3. CASE Answered
  <2>1. published' = <<>>
    BY <1>1, <1>3 DEF Answered, Finish
  <2> QED BY <1>3, <2>1 DEF Answered, Publishable
<1>4. CASE AllThere
  <2>1. rdata = stream
    BY <1>1, <1>4 DEF AllThere
  <2>2. Identified(stream, taken) <=> Contains(stream, "ids")
    <3>1. Len(stream) \in Nat /\ DOMAIN stream = 1 .. Len(stream)
      BY <1>1
    <3>2. ASSUME NEW k \in DOMAIN stream, stream[k] = "ids" PROVE k \in 1 .. Len(stream) - 1
      BY <1>1, <3>1, <3>2 DEF IsRequest
    <3>3. \A k \in 1 .. Len(stream) - 1 : k \in DOMAIN stream
      BY <3>1
    <3> QED BY <3>1, <3>2, <3>3 DEF Identified, Contains
  <2>3. CASE Commands(stream, TRUE) # {}
    BY <1>1, <2>1, <2>3 DEF Finish, Publishable
  <2>4. CASE Commands(stream, TRUE) = {} /\ pairs # "none" /\ HeaderEnds(stream) # {}
    <3>1. pairs = "ids" /\ login = StreamLogin /\ Contains(stream, "ids") /\ Allowed(login)
      BY <1>4, <2>2, <2>4 DEF AllThere, LineInv, PairsAreAllowed
    <3>2. Publishable
      BY <2>4, <3>1 DEF Publishable
    <3>3. published' = Append(<<>>, [body |-> http_body(stream), pairs |-> "ids",
                                     login |-> StreamLogin])
      BY <1>1, <2>1, <2>4, <3>1 DEF Finish
    <3> DEFINE one == [body |-> http_body(stream), pairs |-> "ids", login |-> StreamLogin]
    <3>4. Append(<<>>, one) = <<one>>
      OBVIOUS
    <3> QED BY <3>2, <3>3, <3>4
  <2>5. CASE Commands(stream, TRUE) = {} /\ ~ (pairs # "none" /\ HeaderEnds(stream) # {})
    <3>1. published' = <<>>
      BY <1>1, <2>1, <2>5 DEF Finish
    <3>2. pairs = "none" => ~ Contains(stream, "ids")
      BY <1>4, <2>2 DEF AllThere
    <3> QED BY <2>5, <3>1, <3>2 DEF Publishable
  <2> QED BY <2>3, <2>4, <2>5
<1> QED BY <1>2, <1>3, <1>4

(* Lemma: nothing is said of a request that did not come to its end.       *)
LEMMA NotWhole ==
  ASSUME ended' # "eof"
  PROVE  ChunksDoNotMatter'
BY DEF ChunksDoNotMatter, Whole

LEMMA ReadChunks ==
  ASSUME IsRequest(stream), ChunksInv, LineInv, conn = "open", written > taken,
         Refuse(written - taken) \/ CastFails(written - taken) \/ Command(written - taken)
           \/ Keep(written - taken) \/ FullRead(written - taken),
         UNCHANGED written
  PROVE  ChunksInv' /\ ChunksDoNotMatter'
<1> DEFINE n == written - taken
<1>1. /\ n \in Nat /\ taken + n = written /\ taken + n <= Size /\ written \in Nat
      /\ stream \in Streams /\ written <= Size
  BY BoundsAre
<1> HIDE DEF n
<1>2. stream' = stream /\ config' = config /\ taken' = written /\ written' = written
  <2>1. Chunk(n)
    BY DEF n, Refuse, CastFails, Command, Keep, FullRead
  <2> QED BY <1>1, <2>1 DEF Chunk
<1>3. ended' # "eof" /\ (conn' = "open" => ended' = "")
  <2>1. ended = ""
    BY DEF ChunksInv
  <2> QED BY <2>1 DEF Refuse, CastFails, Command, Keep, FullRead, Finish
<1>4. (Simple' <=> Simple)
  BY <1>2 DEF Simple
<1>5. ASSUME Simple, conn' = "open" PROVE (Answered \/ AllThere)'
  <2>1. Command(n) \/ Keep(n)
    BY <1>5 DEF n, Refuse, CastFails, FullRead, Finish
  <2>2. taken + n <= Len(stream)
    BY <1>1 DEF Size
  <2> QED BY <1>1, <1>5, <2>1, <2>2, ReadKeepsAll
<1>6. InBounds'
  <2>1. written <= Size /\ written <= written
    BY <1>1
  <2>2. Size' = Size
    BY <1>2 DEF Size
  <2> QED BY <1>1, <1>2, <2>1, <2>2, Zenon DEF InBounds
<1>7. ChunksInv'
  BY <1>3, <1>4, <1>5, <1>6 DEF ChunksInv, IsThere
<1> QED BY <1>3, <1>7, NotWhole

(* Lemma: nothing is to show of a connection that is closed.               *)
LEMMA ClosedChunks ==
  ASSUME ChunksInv, UNCHANGED <<stream, taken, written>>, conn' = "closed"
  PROVE  ChunksInv'
<1>1. stream' = stream /\ taken' = taken /\ written' = written /\ conn' # "open"
  OBVIOUS
<1>2. Size' = Size
  BY <1>1, Zenon DEF Size
<1>3. InBounds'
  BY <1>1, <1>2, Zenon DEF ChunksInv, InBounds
<1>4. IsThere'
  BY <1>1, Zenon DEF IsThere
<1> QED BY <1>1, <1>3, <1>4, Zenon DEF ChunksInv

(* Lemma: the connection ends with what is there.                          *)
LEMMA EndsOfChunks ==
  ASSUME IsRequest(stream), ChunksInv, LineInv, conn = "open", UNCHANGED written, NEW why,
         NoMoreData(why) \/ (Drop(why) /\ why # "eof")
  PROVE  ChunksInv' /\ ChunksDoNotMatter'
<1>1. UNCHANGED <<stream, config, taken>> /\ conn' = "closed" /\ ended' = why
  BY DEF NoMoreData, Drop, Finish
<1>2. ChunksInv'
  <2>1. UNCHANGED <<stream, taken, written>>
    BY <1>1
  <2> QED BY <1>1, <2>1, ClosedChunks
<1>3. CASE why = "eof"
  <2>1. NoMoreData(why)
    BY <1>3, Zenon
  <2>2. Finish(rdata, pairs, login, why)
    BY <2>1, Zenon DEF NoMoreData
  <2>3. Finish(rdata, pairs, login, "eof")
    BY <1>3, <2>2, Zenon
  <2>4. ChunksDoNotMatter'
    BY <1>1, <2>3, Zenon, EndPublishesAll
  <2> QED BY <1>2, <2>4
<1>4. CASE why # "eof"
  <2>1. ended' # "eof"
    BY <1>1, <1>4, Zenon
  <2> QED BY <1>2, <2>1, NotWhole, Zenon
<1> QED BY <1>3, <1>4, Zenon

LEMMA ChunksStep ==
  ASSUME IsRequest(stream), LineInv, ChunksInv, ChunksDoNotMatter, [LineNext]_lineVars
  PROVE  ChunksInv' /\ ChunksDoNotMatter'
<1>1. "io" \in pending \/ "timer" \in pending => conn = "open"
  BY DEF LineInv, ClosureIsOpen
<1>2. ASSUME UNCHANGED vars PROVE ChunksDoNotMatter'
  <2>1. (http_body(stream)' = http_body(stream)) /\ (StreamLogin' = StreamLogin)
        /\ (Publishable' <=> Publishable)
    BY <1>2 DEF vars, http_body, StreamLogin, Publishable, Allowed, HeaderEnds, Blanks, Commands,
                At
  <2>2. UNCHANGED <<stream, config, taken, ended, published>>
    BY <1>2 DEF vars
  <2>3. AsIfInOneChunk' <=> AsIfInOneChunk
    BY <2>1, <2>2 DEF AsIfInOneChunk
  <2> QED BY <2>2, <2>3 DEF ChunksDoNotMatter, Whole
<1>3. ASSUME UNCHANGED vars, written' \in Nat, written <= written', written' <= Size
      PROVE  ChunksInv'
  <2>3. InBounds'
    <3>1. taken <= written'
      BY <1>3, BoundsAre
    <3>2. stream' = stream /\ taken' = taken /\ Size' = Size
      BY <1>3 DEF vars, Size
    <3> QED BY <1>3, <3>1, <3>2, BoundsAre, Zenon DEF InBounds
  <2>1. UNCHANGED <<stream, config, taken, ended, conn, rdata, pairs, login>>
    BY <1>3 DEF vars
  <2>2. (Simple' <=> Simple) /\ (Answered' <=> Answered) /\ (AllThere' <=> AllThere)
    BY <2>1 DEF Simple, Answered, AllThere, Commands, At, Identified, StreamLogin
  <2> QED BY <2>1, <2>2, <2>3 DEF ChunksInv, IsThere
<1>4. CASE Connect \/ OthersComeAndGo \/ handle_connect \/ Readable \/ Expire
           \/ UNCHANGED lineVars
  <2>1. UNCHANGED vars /\ UNCHANGED written
    BY <1>4 DEF Connect, OthersComeAndGo, handle_connect, Readable, Expire, lineVars, loopVars
  <2>2. written \in Nat /\ written <= written /\ written <= Size
    BY BoundsAre
  <2> QED BY <1>2, <1>3, <2>1, <2>2
<1>5. CASE Send
  <2>1. UNCHANGED vars /\ (written' = written \/ (written < Size /\ written' = written + 1))
    BY <1>5 DEF Send, Size
  <2>2. Size \in Nat /\ written \in Nat /\ written <= Size
    BY BoundsAre
  <2>3. written' \in Nat /\ written <= written' /\ written' <= Size
    BY <2>1, <2>2
  <2> QED BY <1>2, <1>3, <2>1, <2>3
<1>6. CASE ProcessEnds
  <2>1. UNCHANGED <<stream, config, taken, written>> /\ conn' = "closed" /\ ended' = "killed"
    BY <1>6 DEF ProcessEnds, Ends
  <2>2. UNCHANGED <<stream, taken, written>>
    BY <2>1
  <2>3. ChunksInv'
    BY <2>1, <2>2, ClosedChunks
  <2> QED BY <2>1, <2>3, NotWhole
<1>7. CASE HandleRead
  <2>1. UNCHANGED written
    BY <1>7 DEF HandleRead, Rearm
  <2>2. CASE written > taken /\ (Refuse(written - taken) \/ CastFails(written - taken)
                                   \/ Command(written - taken) \/ Keep(written - taken)
                                   \/ FullRead(written - taken))
    BY <1>1, <1>7, <2>1, <2>2, ReadChunks DEF HandleRead
  <2>3. CASE NoMoreData("eof") \/ NoMoreData("reset")
    <3>1. conn = "open"
      BY <1>1, <1>7 DEF HandleRead
    <3> QED BY <2>1, <2>3, <3>1, EndsOfChunks
  <2> QED BY <1>7, <2>2, <2>3 DEF HandleRead
<1>8. CASE HandleError \/ HandleTimeout
  <2>1. UNCHANGED written /\ conn = "open" /\ (Drop("error") \/ Drop("timeout"))
    BY <1>1, <1>8 DEF HandleError, HandleTimeout, Rearm
  <2> QED BY <2>1, EndsOfChunks
<1> QED BY <1>4, <1>5, <1>6, <1>7, <1>8 DEF LineNext, Loop, AcceptFails

(* Lemma: no step changes what the client sends.                           *)
LEMMA StreamStays ==
  ASSUME [LineNext]_lineVars
  PROVE  stream' = stream
<1>1. UNCHANGED vars \/ UNCHANGED <<stream, config>> \/ HandleRead \/ HandleError \/ HandleTimeout
  BY DEF LineNext, Loop, Connect, Send, OthersComeAndGo, handle_connect, ProcessEnds, AcceptFails,
         Readable, Expire, lineVars
<1>2. UNCHANGED vars => stream' = stream
  BY DEF vars
<1> QED BY <1>1, <1>2 DEF HandleRead, HandleError, HandleTimeout, Refuse, CastFails, Command, Keep,
                          FullRead, Chunk, NoMoreData, Drop

(* Theorem: wherever the chunks of a request end, what is published once   *)
(* all of it was read is what would be if it had come in one (In.h:70,     *)
(* :162): extract_pairs may be called again for every chunk.               *)
THEOREM ChunksOfRequests == LineSpec => [](IsRequest(stream) => ChunksDoNotMatter)
<1>1. LineInit => ChunksInv /\ ChunksDoNotMatter
  <2> SUFFICES ASSUME LineInit PROVE ChunksInv /\ ChunksDoNotMatter
    OBVIOUS
  <2>1. /\ stream \in Streams /\ taken = 0 /\ conn = "open" /\ rdata = <<>> /\ pairs = "none"
        /\ ended = "" /\ written = 0
    BY DEF LineInit, Init
  <2>2. stream \in Seq(Token)
    BY <2>1, StreamsAssumption
  <2>3. SubSeq(stream, 1, 0) = <<>> /\ Len(stream) \in Nat
    BY <2>2
  <2>4. ~ Identified(stream, 0)
    BY DEF Identified
  <2>5. AllThere
    BY <2>1, <2>3, <2>4 DEF AllThere
  <2>6. InBounds
    <3>1. 0 <= Size /\ 0 <= 0 /\ 0 \in Nat
      BY <2>3 DEF Size
    <3> QED BY <2>1, <3>1, Zenon DEF InBounds
  <2> QED BY <2>1, <2>5, <2>6 DEF ChunksInv, IsThere, ChunksDoNotMatter, Whole
<1> DEFINE Good == IsRequest(stream) => ChunksInv /\ ChunksDoNotMatter
<1>2. LineInit => Good
  BY <1>1
<1>3. LineInv /\ Good /\ [LineNext]_lineVars => LineInv' /\ Good'
  <2> SUFFICES ASSUME LineInv, Good, [LineNext]_lineVars PROVE LineInv' /\ Good'
    OBVIOUS
  <2>1. LineInv'
    BY LineStep
  <2>2. ASSUME IsRequest(stream)' PROVE ChunksInv' /\ ChunksDoNotMatter'
    <3>1. IsRequest(stream)
      BY <2>2, StreamStays DEF IsRequest
    <3> QED BY <3>1, ChunksStep
  <2> QED BY <2>1, <2>2
<1>4. Good => (IsRequest(stream) => ChunksDoNotMatter)
  OBVIOUS
<1> QED BY <1>2, <1>3, <1>4, LineInitInv, PTL DEF LineSpec
=============================================================================
