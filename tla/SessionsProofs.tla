---------------------------- MODULE SessionsProofs ----------------------------
(***************************************************************************)
(* A Client that uses the file resumes the session it had, for every       *)
(* number of processes, threads, accounts and cookies.                     *)
(***************************************************************************)
EXTENDS Sessions, FileStoreProofs

ClientType ==
    /\ now \in 0 .. MaxTime /\ made \in 0 .. MaxCalls
    /\ jar \in Jars /\ plain \in BOOLEAN /\ settled \in BOOLEAN

\* cookiejar and the entries agree, and hold what the base host is sent.
PlainJar(j) ==
    \A s \in Slots : j.kept[s] = j.entries[s] /\ (s \notin Own => j.entries[s] = NoCookie)

\* What comes back of a row for a slot, now or at any later time.
Kept(row, o) == IF row = NoRow THEN NoCookie ELSE Restored(row, o)

\* A Client that starts from the row sends what one with the jar sends.
Agree(row, j, t) ==
    \A o \in Own : Live(Kept(row, o), t) \/ Live(j.kept[o], t) => Kept(row, o) = j.kept[o]

\* What the call that the Client is in will do, or did, to its row.
Pending == calls[Me] # NoCall =>
    LET call == calls[Me] IN
    /\ call.op # "load" => ~ settled
    /\ call.op = "save" /\ plain => Agree(call.state, jar, now)
    /\ call.op = "delete" => jar = EmptyJar
    /\ call.op = "load" /\ call.result # None /\ call.result.status = "ok" =>
          call.result.state \in States /\ (~ astray => FileRows[Mine] = call.result.state)
    /\ call.op # "load" /\ call.result # None /\ call.result.status # "error" /\ plain /\ ~ astray =>
          Agree(FileRows[Mine], jar, now)

Settled == settled /\ plain /\ ~ astray => Agree(FileRows[Mine], jar, now)

SessionInv == Inv /\ ClientType /\ (plain => PlainJar(jar)) /\ Pending /\ Settled

-----------------------------------------------------------------------------
\* Jars.

LEMMA NoCookieType == NoCookie \in Cookies /\ EmptyJar \in Jars
  BY DEF Cookies, EmptyJar, Jars

LEMMA EmptyJarPlain == PlainJar(EmptyJar)
  BY DEF PlainJar, EmptyJar

LEMMA CookieFields ==
    ASSUME NEW c \in Cookies
    PROVE  c.until \in 0 .. Forever /\ c = [value |-> c.value, until |-> c.until]
           /\ (c.until > 0 => c.value \in Values)
  BY JarAssumption DEF Cookies, NoCookie

LEMMA StoredType ==
    ASSUME NEW v, NEW until \in 0 .. Forever, NEW t \in Nat, until > 0 => v \in Values
    PROVE  Stored(v, until, t) \in Cookies
<1>1. CASE until <= t
  BY <1>1, NoCookieType DEF Stored
<1>2. CASE until > t
  <2>1. [value |-> v, until |-> until] \in [value : Values, until : 1 .. Forever]
    BY <1>2, JarAssumption
  <2> QED BY <1>2, <2>1 DEF Stored, Cookies
<1> QED BY <1>1, <1>2, JarAssumption

\* What the set cookies are like.
LEMMA SetFields ==
    ASSUME NEW c \in SetCookies, NEW t \in 0 .. MaxTime
    PROVE  /\ c.slot \in Slots /\ c.value \in Values /\ c.maxAge \in Int /\ c.expires \in 0 .. Forever
           /\ t \in Nat /\ t < Forever /\ t + c.maxAge < Forever /\ Forever \in Nat
  BY SessionAssumption, JarAssumption

LEMMA UntilType ==
    ASSUME NEW c \in SetCookies, NEW t \in 0 .. MaxTime
    PROVE  KeptUntil(c, t) \in 0 .. Forever /\ EntryUntil(c, t) \in 0 .. Forever
  BY SetFields DEF KeptUntil, EntryUntil

LEMMA SetType ==
    ASSUME NEW j \in Jars, NEW c \in SetCookies, NEW t \in 0 .. MaxTime
    PROVE  SetCookie(j, c, t) \in Jars
<1>1. Stored(c.value, KeptUntil(c, t), t) \in Cookies /\ Stored(c.value, EntryUntil(c, t), t) \in Cookies
  BY SetFields, UntilType, StoredType
<1> QED BY <1>1 DEF SetCookie, Jars

LEMMA SetPlain ==
    ASSUME NEW j \in Jars, NEW c \in SetCookies, NEW t \in 0 .. MaxTime, PlainJar(j), Plain(c, t)
    PROVE  PlainJar(SetCookie(j, c, t))
<1>1. Stored(c.value, KeptUntil(c, t), t) = Stored(c.value, EntryUntil(c, t), t)
  BY SetFields DEF Plain, KeptUntil, EntryUntil, Stored
<1>2. c.slot \in Own /\ c.slot \in Slots
  BY SetFields DEF Plain
<1>3. /\ SetCookie(j, c, t).kept = [j.kept EXCEPT ![c.slot] = Stored(c.value, KeptUntil(c, t), t)]
      /\ SetCookie(j, c, t).entries = [j.entries EXCEPT ![c.slot] = Stored(c.value, EntryUntil(c, t), t)]
      /\ j.kept \in [Slots -> Cookies] /\ j.entries \in [Slots -> Cookies]
  BY DEF SetCookie, Jars
<1> QED BY <1>1, <1>2, <1>3 DEF PlainJar

LEMMA SnapshotType ==
    ASSUME NEW j \in Jars, NEW t
    PROVE  Snapshot(j, t) \in States /\ Snapshot(j, t) \in [Slots -> Cookies]
<1>1. Snapshot(j, t) \in [Slots -> Cookies]
  BY NoCookieType DEF Snapshot, Jars
<1> QED BY <1>1, SessionAssumption

LEMMA RestoredType ==
    ASSUME NEW state \in [Slots -> Cookies], NEW o
    PROVE  Restored(state, o) \in Cookies
<1> DEFINE from == {s \in Slots : Becomes[s] = o /\ state[s] # NoCookie}
           last == CHOOSE s \in from : \A r \in from : Behind[s] <= Behind[r]
<1>1. CASE from = {}
  BY <1>1, NoCookieType DEF Restored
<1>2. CASE from # {}
  <2>1. last \in from
    BY <1>2, JarAssumption
  <2> QED BY <1>2, <2>1 DEF Restored
<1> QED BY <1>1, <1>2

LEMMA ReplaceType ==
    ASSUME NEW state \in States, NEW t \in Nat
    PROVE  Replace(state, t) \in Jars
<1>1. \A s \in Slots : Stored(Restored(state, s).value, Restored(state, s).until, t) \in Cookies
  BY RestoredType, CookieFields, StoredType, SessionAssumption
<1> QED BY <1>1 DEF Replace, Jars

LEMMA ReplacePlain ==
    ASSUME NEW state \in States, NEW t \in Nat
    PROVE  PlainJar(Replace(state, t))
<1>1. ASSUME NEW s \in Slots, s \notin Own PROVE Restored(state, s) = NoCookie
  BY <1>1, JarAssumption DEF Restored
<1>2. Stored(NoCookie.value, NoCookie.until, t) = NoCookie
  BY DEF Stored, NoCookie
<1> QED BY <1>1, <1>2 DEF Replace, PlainJar

LEMMA StoredLive ==
    ASSUME NEW c \in Cookies, NEW t \in Nat
    PROVE  /\ Live(c, t) => Stored(c.value, c.until, t) = c
           /\ ~ Live(c, t) => Stored(c.value, c.until, t) = NoCookie
           /\ ~ Live(NoCookie, t)
<1>1. c.until \in Int /\ c = [value |-> c.value, until |-> c.until]
  BY CookieFields, JarAssumption
<1> QED BY <1>1 DEF Live, Stored, NoCookie

LEMMA KeptType ==
    ASSUME NEW row \in States \cup {NoRow}, NEW o
    PROVE  Kept(row, o) \in Cookies
  BY RestoredType, NoCookieType, SessionAssumption DEF Kept

\* A Client that loads a row has what the row says.
LEMMA ReplaceAgrees ==
    ASSUME NEW state \in States, NEW t \in Nat
    PROVE  Agree(state, Replace(state, t), t)
<1>1. \A o \in Own : Kept(state, o) = Restored(state, o) /\ Kept(state, o) \in Cookies
  BY KeptType, FileAssumption DEF Kept
<1>2. \A o \in Own : Replace(state, t).kept[o] = Stored(Restored(state, o).value, Restored(state, o).until, t)
  BY JarAssumption DEF Replace
<1> QED BY <1>1, <1>2, StoredLive DEF Agree

\* A jar without cookies of other hosts comes back as it was saved.
LEMMA SnapshotRestored ==
    ASSUME NEW j \in Jars, PlainJar(j), NEW t \in Nat, NEW o \in Own
    PROVE  Restored(Snapshot(j, t), o) = IF Live(j.kept[o], t) THEN j.kept[o] ELSE NoCookie
<1> DEFINE state == Snapshot(j, t)
           from == {s \in Slots : Becomes[s] = o /\ state[s] # NoCookie}
           last == CHOOSE s \in from : \A r \in from : Behind[s] <= Behind[r]
<1>1. \A s \in Slots : state[s] = IF Live(j.kept[s], t) THEN j.kept[s] ELSE NoCookie
  BY DEF Snapshot, PlainJar
<1>2. from \subseteq {o}
  <2>1. \A s \in Slots : s \notin Own => state[s] = NoCookie
    BY <1>1 DEF PlainJar
  <2> QED BY <2>1, JarAssumption
<1>3. o \in Slots /\ Becomes[o] = o
  BY JarAssumption
<1>4. CASE from = {}
  BY <1>1, <1>3, <1>4 DEF Restored
<1>5. CASE from # {}
  <2>1. last \in from
    BY <1>5, JarAssumption
  <2> QED BY <1>1, <1>2, <1>3, <1>5, <2>1 DEF Restored
<1> QED BY <1>4, <1>5

LEMMA SnapshotAgrees ==
    ASSUME NEW j \in Jars, PlainJar(j), NEW t \in Nat
    PROVE  Agree(Snapshot(j, t), j, t)
<1>1. Snapshot(j, t) # NoRow
  BY SnapshotType, FileAssumption
<1>2. \A o \in Own : Kept(Snapshot(j, t), o) = IF Live(j.kept[o], t) THEN j.kept[o] ELSE NoCookie
  BY <1>1, SnapshotRestored DEF Kept
<1>3. ~ Live(NoCookie, t)
  BY DEF Live, NoCookie
<1> QED BY <1>2, <1>3 DEF Agree

LEMMA EmptyAgrees == ASSUME NEW t \in Nat PROVE Agree(NoRow, EmptyJar, t)
  BY JarAssumption DEF Agree, Kept, EmptyJar

\* Who agrees now agrees later: the cookies that are left are among those there were.
LEMMA AgreeLater ==
    ASSUME NEW row \in States \cup {NoRow}, NEW j \in Jars, NEW t \in Nat, Agree(row, j, t)
    PROVE  Agree(row, j, t + 1)
<1>1. ASSUME NEW c \in Cookies, Live(c, t + 1) PROVE Live(c, t)
  BY <1>1, CookieFields, JarAssumption DEF Live
<1>2. \A o \in Own : Kept(row, o) \in Cookies /\ j.kept[o] \in Cookies
  BY KeptType, JarAssumption DEF Jars
<1> QED BY <1>1, <1>2 DEF Agree

\* Who agrees sends the same.
LEMMA AgreeSends ==
    ASSUME NEW row \in States \cup {NoRow}, NEW j \in Jars, NEW t \in Nat, Agree(row, j, t)
    PROVE  Sent(IF row = NoRow THEN EmptyJar ELSE Replace(row, t), t) = Sent(j, t)
<1> DEFINE next == IF row = NoRow THEN EmptyJar ELSE Replace(row, t)
<1> SUFFICES ASSUME NEW o \in Own
             PROVE  (IF Live(next.kept[o], t) THEN next.kept[o].value ELSE NoValue)
                    = IF Live(j.kept[o], t) THEN j.kept[o].value ELSE NoValue
  BY DEF Sent
<1>1. Kept(row, o) \in Cookies
  BY KeptType
<1>2. Live(Kept(row, o), t) \/ Live(j.kept[o], t) => Kept(row, o) = j.kept[o]
  BY DEF Agree
<1>3. next.kept[o] = IF Live(Kept(row, o), t) THEN Kept(row, o) ELSE NoCookie
  <2>1. CASE row = NoRow
    BY <2>1, JarAssumption DEF Kept, EmptyJar
  <2>2. CASE row # NoRow
    <3>1. next.kept[o] = Stored(Restored(row, o).value, Restored(row, o).until, t)
      BY <2>2, JarAssumption DEF Replace
    <3> QED BY <1>1, <2>2, <3>1, StoredLive DEF Kept
  <2> QED BY <2>1, <2>2
<1>4. ~ Live(NoCookie, t)
  BY DEF Live, NoCookie
<1> QED BY <1>2, <1>3, <1>4
-----------------------------------------------------------------------------
\* The file, as the Client sees it.

LEMMA RowType == ASSUME Inv PROVE FileRows[Mine] \in States \cup {NoRow}
  BY RowsType, FileAssumption, SessionAssumption DEF Inv, RowSets, Mine

LEMMA AstrayStays == ASSUME Inv, [Next]_vars, astray PROVE astray'
<1>1. ASSUME NEW t \in Threads, Step(t) PROVE astray'
  BY <1>1 DEF Step, Read, Load, Begin, Write, Sync, Rename, Fail
<1>2. ASSUME NEW t \in Threads, NEW op, NEW s, Call(t, op, s) PROVE astray'
  BY <1>2 DEF Call
<1>3. ASSUME NEW t \in Threads, Return(t) PROVE astray'
  BY <1>3 DEF Return
<1>4. CASE (\E p \in Processes : Crash(p)) \/ WriteBack \/ PowerLoss \/ UNCHANGED vars
  BY <1>4 DEF Crash, WriteBack, PowerLoss, vars
<1> QED BY <1>1, <1>2, <1>3, <1>4 DEF Next

\* What others do leaves the row and the call of the Client alone.
LEMMA OtherStep ==
    ASSUME SessionInv, NEW t \in Others, Step(t)
    PROVE  calls'[Me] = calls[Me] /\ (~ astray' => FileRows'[Mine] = FileRows[Mine])
<1>1. t \in Threads /\ t # Me /\ Me \in Threads /\ Account[t] # Mine /\ Mine \in Accounts
  BY SessionAssumption, FileAssumption DEF Others, Mine
<1>2. calls'[Me] = calls[Me]
  BY <1>1 DEF Step, Read, Load, Begin, Write, Sync, Rename, Fail, Answer, SessionInv, Inv, TypeOK
<1>3. FileRows \in RowSets
  BY RowsType DEF SessionInv, Inv
<1>4. ASSUME Store!Act(t) PROVE FileRows'[Mine] = FileRows[Mine]
  BY <1>1, <1>3, <1>4 DEF Store!Act, RowSets
<1> QED BY <1>1, <1>2, <1>4, StepRefines DEF SessionInv, Store!storeVars

\* Most steps are none of the Client's business.
LEMMA Frame ==
    ASSUME SessionInv, Inv', UNCHANGED client, calls'[Me] = calls[Me], astray => astray',
           ~ astray' => FileRows'[Mine] = FileRows[Mine]
    PROVE  SessionInv'
<1>1. ClientType' /\ (plain => PlainJar(jar))'
  BY DEF client, SessionInv, ClientType
<1>2. Pending'
  BY DEF client, SessionInv, Pending
<1>3. Settled'
  BY DEF client, SessionInv, Settled
<1> QED BY <1>1, <1>2, <1>3 DEF SessionInv
-----------------------------------------------------------------------------
\* One lemma per action of the Client.

LEMMA ClientFacts ==
    ASSUME SessionInv
    PROVE  /\ Me \in Threads /\ Mine \in Accounts
           /\ now \in 0 .. MaxTime /\ now \in Nat /\ made \in Nat /\ jar \in Jars
           /\ plain \in BOOLEAN /\ settled \in BOOLEAN
           /\ pc[Me] = "idle" <=> calls[Me] = NoCall
  BY SessionAssumption, FileAssumption DEF SessionInv, ClientType, Inv, CallInv, Mine

LEMMA CountType == ASSUME SessionInv, Count PROVE made' \in 0 .. MaxCalls
  BY SessionAssumption DEF Count, SessionInv, ClientType

LEMMA MyCall ==
    ASSUME SessionInv, NEW op \in Store!Ops, NEW s \in States \cup {None},
           op = "save" => s \in States, Call(Me, op, s)
    PROVE  /\ Inv' /\ calls'[Me] # NoCall
           /\ calls'[Me].op = op /\ calls'[Me].state = s /\ calls'[Me].result = None
           /\ FileRows' = FileRows /\ astray' = astray
<1>1. Inv'
  BY ClientFacts, CallStep DEF SessionInv
<1>2. calls'[Me] = [op |-> op, state |-> s, result |-> None] /\ FileRows' = FileRows /\ astray' = astray
  BY ClientFacts DEF Call, SessionInv, Inv, TypeOK, FileRows
<1>3. calls'[Me] # NoCall
  BY <1>1, ClientFacts DEF Call, Inv, CallInv, SessionInv, TypeOK
<1> QED BY <1>1, <1>2, <1>3

LEMMA SetJar ==
    ASSUME SessionInv, NEW c \in SetCookies, Set(c)
    PROVE  jar' \in Jars /\ plain' \in BOOLEAN /\ (plain' => PlainJar(jar'))
  BY ClientFacts, SetType, SetPlain DEF Set, SessionInv

LEMMA AnsweredStep == ASSUME SessionInv, NEW c \in SetCookies, Answered(c) PROVE SessionInv'
<1>1. jar' \in Jars /\ plain' \in BOOLEAN /\ (plain' => PlainJar(jar'))
  BY SetJar DEF Answered
<1>2. Snapshot(jar', now) \in States
  BY <1>1, SnapshotType
<1>3. /\ Inv' /\ calls'[Me].op = "save" /\ calls'[Me].state = Snapshot(jar', now)
      /\ calls'[Me].result = None
  BY <1>2, MyCall DEF Answered, Store!Ops
<1>4. now' = now /\ settled' = FALSE
  BY DEF Answered
<1>5. plain' => Agree(Snapshot(jar', now), jar', now)
  BY <1>1, SnapshotAgrees, ClientFacts
<1>6. ClientType'
  BY <1>1, <1>4, CountType DEF Answered, SessionInv, ClientType
<1>7. Pending'
  BY <1>3, <1>4, <1>5 DEF Pending
<1>8. Settled'
  BY <1>4 DEF Settled
<1> QED BY <1>1, <1>3, <1>6, <1>7, <1>8 DEF SessionInv

LEMMA SetOnlyStep == ASSUME SessionInv, NEW c \in SetCookies, SetOnly(c) PROVE SessionInv'
<1>1. jar' \in Jars /\ plain' \in BOOLEAN /\ (plain' => PlainJar(jar'))
  BY SetJar DEF SetOnly
<1>2. Inv'
  BY StutterStep DEF SetOnly, SessionInv
<1>3. calls'[Me] = NoCall /\ settled' = FALSE
  BY ClientFacts DEF SetOnly, vars
<1>4. ClientType'
  BY <1>1, <1>3, CountType DEF SetOnly, SessionInv, ClientType
<1>5. Pending' /\ Settled'
  BY <1>3 DEF Pending, Settled
<1> QED BY <1>1, <1>2, <1>4, <1>5 DEF SessionInv

LEMMA ClearStep == ASSUME SessionInv, ClearSession PROVE SessionInv'
<1>1. Inv' /\ calls'[Me].op = "delete" /\ calls'[Me].result = None
  BY MyCall DEF ClearSession, Store!Ops
<1>2. jar' = EmptyJar /\ plain' = TRUE /\ settled' = FALSE /\ now' = now
  BY DEF ClearSession
<1>3. ClientType' /\ PlainJar(jar')
  BY <1>2, CountType, NoCookieType, EmptyJarPlain DEF ClearSession, SessionInv, ClientType
<1>4. Pending' /\ Settled'
  BY <1>1, <1>2 DEF Pending, Settled
<1> QED BY <1>1, <1>3, <1>4 DEF SessionInv

LEMMA RestoreStep == ASSUME SessionInv, Restore PROVE SessionInv'
<1>1. /\ Inv' /\ calls'[Me].op = "load" /\ calls'[Me].result = None
      /\ FileRows' = FileRows /\ astray' = astray
  BY MyCall DEF Restore, Store!Ops
<1>2. UNCHANGED <<now, jar, plain, settled>>
  BY DEF Restore
<1>3. ClientType' /\ (plain' => PlainJar(jar'))
  BY <1>2, CountType DEF Restore, SessionInv, ClientType
<1>4. Pending'
  BY <1>1 DEF Pending
<1>5. Settled'
  BY <1>1, <1>2 DEF SessionInv, Settled
<1> QED BY <1>1, <1>3, <1>4, <1>5 DEF SessionInv

LEMMA ReturnedStep == ASSUME SessionInv, Returned PROVE SessionInv'
<1>1. Inv'
  BY ReturnStep, ClientFacts DEF Returned, SessionInv
<1>2. /\ calls[Me] # NoCall /\ calls[Me].result # None /\ calls'[Me] = NoCall
      /\ FileRows' = FileRows /\ astray' = astray /\ now' = now /\ made' = made
  BY ClientFacts DEF Returned, Return, SessionInv, Inv, TypeOK, CallInv, FileRows
<1>3. Pending'
  BY <1>2 DEF Pending
<1>4. CASE /\ calls[Me].op = "load" /\ calls[Me].result.status = "ok"
           /\ jar' = Replace(calls[Me].result.state, now) /\ plain' = TRUE /\ settled' = TRUE
  <2> DEFINE state == calls[Me].result.state
  <2>1. state \in States /\ (~ astray => FileRows[Mine] = state)
    BY <1>2, <1>4 DEF SessionInv, Pending
  <2> HIDE DEF state
  <2>2. jar' = Replace(state, now)
    BY <1>4 DEF state
  <2>3. jar' \in Jars /\ PlainJar(jar') /\ Agree(state, jar', now)
    BY <2>1, <2>2, ReplaceType, ReplacePlain, ReplaceAgrees, ClientFacts
  <2>4. ClientType'
    BY <1>2, <1>4, <2>3 DEF SessionInv, ClientType
  <2>5. Settled'
    BY <1>2, <2>1, <2>3 DEF Settled
  <2> QED BY <1>1, <1>3, <2>3, <2>4, <2>5 DEF SessionInv
<1>5. CASE /\ calls[Me].op # "load"
           /\ settled' = (calls[Me].result.status # "error") /\ UNCHANGED <<jar, plain>>
  <2>1. ClientType' /\ (plain' => PlainJar(jar'))
    BY <1>2, <1>5 DEF SessionInv, ClientType
  <2>2. Settled'
    BY <1>2, <1>5 DEF SessionInv, Pending, Settled
  <2> QED BY <1>1, <1>3, <2>1, <2>2 DEF SessionInv
<1>6. CASE UNCHANGED <<jar, plain, settled>>
  <2>1. ClientType' /\ (plain' => PlainJar(jar'))
    BY <1>2, <1>6 DEF SessionInv, ClientType
  <2>2. Settled'
    BY <1>2, <1>6 DEF SessionInv, Settled
  <2> QED BY <1>1, <1>3, <2>1, <2>2 DEF SessionInv
<1> QED BY <1>4, <1>5, <1>6 DEF Returned
\* The call keeps its arguments, and has a result or not.
LEMMA MyAnswer ==
    ASSUME SessionInv, pc[Me] # "idle", NEW r \in Store!Results, Answer(Me, r)
    PROVE  /\ calls'[Me].op = calls[Me].op /\ calls'[Me].state = calls[Me].state
           /\ calls'[Me].result = r
<1>1. calls'[Me] = [calls[Me] EXCEPT !.result = r]
  BY ClientFacts DEF Answer, SessionInv, Inv, TypeOK
<1> QED BY <1>1, CallFields, ClientFacts DEF SessionInv, Inv, Store!Calls

LEMMA MyStepCall ==
    ASSUME SessionInv, Step(Me)
    PROVE  \/ calls' = calls
           \/ \E r \in Store!Results : Answer(Me, r)
<1>1. ASSUME Fail(Me) PROVE \E r \in Store!Results : Answer(Me, r)
  BY <1>1, ErrorType DEF Fail
<1>2. ASSUME Load(Me) PROVE \E r \in Store!Results : Answer(Me, r)
  <2>1. FileRows[Account[Me]] \in States \cup {NoRow}
    BY RowType DEF SessionInv, Mine
  <2>2. FileRows[Account[Me]] # NoRow => Store!Loaded(FileRows[Account[Me]]) \in Store!Results
    BY <2>1 DEF Store!Loaded, Store!Results
  <2> QED BY <1>2, <2>2, ErrorType DEF Load
<1> QED BY <1>1, <1>2, ErrorType DEF Step, Read, Begin, Write, Sync, Rename

LEMMA MyLoad ==
    ASSUME SessionInv, Step(Me), calls[Me].op = "load"
    PROVE  /\ Fail(Me) \/ Load(Me)
           /\ FileRows' = FileRows /\ astray' = astray
<1>0. pc[Me] \notin {"read", "written", "synced"}
  BY ClientFacts DEF SessionInv, Inv, CallInv, Holding
<1>1. pc[Me] = "called" /\ Read(Me)
  BY <1>0 DEF Step, Write, Sync, Rename, Read
<1>2. Fail(Me) \/ Load(Me)
  BY <1>1 DEF Read, Begin
<1> QED BY <1>2 DEF Fail, Load, FileRows

LEMMA MyStep == ASSUME SessionInv, Inv', Step(Me), UNCHANGED client PROVE SessionInv'
<1>1. pc[Me] # "idle" /\ calls[Me] # NoCall /\ calls[Me].result = None
  BY ClientFacts DEF Step, Read, Write, Sync, Rename, SessionInv, Inv, CallInv
<1>2. calls'[Me].op = calls[Me].op /\ calls'[Me].state = calls[Me].state
  BY <1>1, MyStepCall, MyAnswer
<1>3. UNCHANGED <<now, made, jar, plain, settled>>
  BY DEF client
<1>4. ClientType' /\ (plain' => PlainJar(jar'))
  BY <1>3 DEF SessionInv, ClientType
<1>5. Pending'
  <2>1. calls'[Me].op # "load" => ~ settled'
    BY <1>1, <1>2, <1>3 DEF SessionInv, Pending
  <2>2. calls'[Me].op = "save" /\ plain' => Agree(calls'[Me].state, jar', now')
    BY <1>1, <1>2, <1>3 DEF SessionInv, Pending
  <2>3. calls'[Me].op = "delete" => jar' = EmptyJar
    BY <1>1, <1>2, <1>3 DEF SessionInv, Pending
  <2>4. ASSUME calls'[Me].op = "load", calls'[Me].result # None, calls'[Me].result.status = "ok"
        PROVE  calls'[Me].result.state \in States /\ FileRows'[Mine] = calls'[Me].result.state
    <3>1. Fail(Me) \/ Load(Me)
      BY <1>2, <2>4, MyLoad
    <3>2. FileRows' = FileRows
      BY <1>2, <2>4, MyLoad
    <3>3. FileRows[Mine] \in States \cup {NoRow}
      BY RowType DEF SessionInv
    <3>4. CASE Fail(Me)
      <4>1. calls'[Me].result = Store!Error
        BY <1>1, <3>4, ErrorType, MyAnswer DEF Fail
      <4> QED BY <2>4, <4>1 DEF Store!Error
    <3>5. CASE Load(Me)
      <4>1. FileRows[Mine] # NoRow => Store!Loaded(FileRows[Mine]) \in Store!Results
        BY <3>3 DEF Store!Loaded, Store!Results
      <4>2. calls'[Me].result = IF FileRows[Mine] = NoRow THEN Store!NotFound ELSE Store!Loaded(FileRows[Mine])
        BY <1>1, <3>5, <4>1, ErrorType, MyAnswer DEF Load, Mine
      <4>3. Store!NotFound.status # "ok" /\ \A s : Store!Loaded(s).state = s
        BY DEF Store!NotFound, Store!Loaded
      <4>4. FileRows[Mine] # NoRow /\ calls'[Me].result = Store!Loaded(FileRows[Mine])
        BY <2>4, <4>2, <4>3
      <4> QED BY <3>2, <3>3, <4>3, <4>4
    <3> QED BY <3>1, <3>4, <3>5
  <2>5. ASSUME calls'[Me].op # "load", calls'[Me].result # None, calls'[Me].result.status # "error",
               plain', ~ astray'
        PROVE  Agree(FileRows'[Mine], jar', now')
    <3>1. Store!Act(Me)
      <4>1. calls' # calls
        BY <1>1, <2>5
      <4> QED BY <4>1, <2>5, StepRefines, ClientFacts DEF SessionInv, Store!storeVars
    <3>2. Mine \in Accounts /\ FileRows \in RowSets
      BY ClientFacts, RowsType DEF SessionInv, Inv
    <3>3. CASE calls[Me].op = "save" /\ FileRows' = [FileRows EXCEPT ![Mine] = calls[Me].state]
      <4>1. FileRows'[Mine] = calls[Me].state
        BY <3>2, <3>3 DEF RowSets
      <4> QED BY <1>2, <2>2, <2>5, <3>3, <4>1
    <3>4. CASE calls[Me].op = "delete" /\ FileRows' = [FileRows EXCEPT ![Mine] = NoRow]
      <4>1. FileRows'[Mine] = NoRow
        BY <3>2, <3>4 DEF RowSets
      <4> QED BY <1>2, <1>3, <2>3, <3>4, <4>1, EmptyAgrees, ClientFacts
    <3>5. CASE Store!StoreAnswer(Me, Store!Error)
      <4>1. calls'[Me].result = Store!Error
        BY <3>5, <1>1, CallFields, ClientFacts DEF Store!StoreAnswer, SessionInv, Inv, TypeOK, Store!Calls
      <4> QED BY <2>5, <4>1 DEF Store!Error
    <3> QED BY <1>2, <2>5, <3>1, <3>3, <3>4, <3>5 DEF Store!Act, Mine
  <2> QED BY <2>1, <2>2, <2>3, <2>4, <2>5 DEF Pending
<1>6. Settled'
  <2>1. settled => calls[Me].op = "load"
    BY <1>1 DEF SessionInv, Pending
  <2> QED BY <1>3, <2>1, MyLoad DEF SessionInv, Settled
<1> QED BY <1>4, <1>5, <1>6 DEF SessionInv

-----------------------------------------------------------------------------
\* The steps of others, and of the world.

LEMMA WorkStep == ASSUME SessionInv, NEW t \in Threads, Work(t) PROVE SessionInv'
<1>1. Inv' /\ (astray => astray')
  BY NextInv, AstrayStays DEF Work, Next, SessionInv
<1>2. CASE t = Me
  BY <1>1, <1>2, MyStep DEF Work
<1>3. CASE t \in Others
  BY <1>1, <1>3, OtherStep, Frame DEF Work
<1> QED BY <1>2, <1>3 DEF Others

LEMMA OtherCallStep == ASSUME SessionInv, NEW t \in Others, Other(t) PROVE SessionInv'
<1>1. t \in Threads /\ t # Me /\ Me \in Threads
  BY SessionAssumption DEF Others
<1>2. PICK op \in Store!Ops, s \in States \cup {None} : Call(t, op, s) /\ (op = "save" => s \in States)
  BY SessionAssumption DEF Other, Store!Ops
<1>3. Inv'
  BY <1>1, <1>2, CallStep DEF SessionInv
<1>4. calls'[Me] = calls[Me] /\ FileRows' = FileRows /\ astray' = astray
  BY <1>1, <1>2 DEF Call, FileRows, SessionInv, Inv, TypeOK
<1>5. ClientType' /\ (plain' => PlainJar(jar'))
  BY CountType DEF Other, SessionInv, ClientType
<1>6. Pending'
  BY <1>4 DEF Other, SessionInv, Pending
<1>7. Settled'
  BY <1>4 DEF Other, SessionInv, Settled
<1> QED BY <1>3, <1>5, <1>6, <1>7 DEF SessionInv

LEMMA OtherReturnStep ==
    ASSUME SessionInv, NEW t \in Others, Return(t), UNCHANGED client
    PROVE  SessionInv'
<1>1. t \in Threads /\ t # Me /\ Me \in Threads
  BY SessionAssumption DEF Others
<1>2. Inv'
  BY <1>1, ReturnStep DEF SessionInv
<1>3. calls'[Me] = calls[Me] /\ FileRows' = FileRows /\ astray' = astray
  BY <1>1 DEF Return, FileRows, SessionInv, Inv, TypeOK
<1> QED BY <1>2, <1>3, Frame

\* A process that starts has no cookies and is in no call.
LEMMA RestartStep == ASSUME SessionInv, Inv', Restart, calls'[Me] = NoCall PROVE SessionInv'
<1>1. ClientType' /\ (plain' => PlainJar(jar'))
  BY NoCookieType, EmptyJarPlain DEF Restart, SessionInv, ClientType
<1>2. Pending' /\ Settled'
  BY DEF Restart, Pending, Settled
<1> QED BY <1>1, <1>2 DEF SessionInv

LEMMA SessionCrashStep == ASSUME SessionInv, NEW p \in Processes, SessionCrash(p) PROVE SessionInv'
<1>1. Inv'
  BY CrashStep DEF SessionCrash, SessionInv
<1>2. CASE p = Process[Me]
  <2>1. calls'[Me] = NoCall
    BY <1>2, ClientFacts DEF SessionCrash, Crash, Die
  <2> QED BY <1>1, <1>2, <2>1, RestartStep DEF SessionCrash
<1>3. CASE p # Process[Me]
  <2>1. calls'[Me] = calls[Me] /\ FileRows' = FileRows /\ astray' = astray
    BY <1>3, ClientFacts DEF SessionCrash, Crash, Die, FileRows
  <2> QED BY <1>1, <1>3, <2>1, Frame DEF SessionCrash
<1> QED BY <1>2, <1>3

LEMMA SessionPowerLossStep == ASSUME SessionInv, SessionPowerLoss PROVE SessionInv'
<1>1. Inv'
  BY PowerLossStep DEF SessionPowerLoss, SessionInv
<1>2. calls'[Me] = NoCall
  BY ClientFacts DEF SessionPowerLoss, PowerLoss, Die
<1> QED BY <1>1, <1>2, RestartStep DEF SessionPowerLoss

LEMMA TickStep == ASSUME SessionInv, Tick PROVE SessionInv'
<1>1. Inv'
  BY StutterStep DEF Tick, SessionInv
<1>2. /\ now' = now + 1 /\ now' \in 0 .. MaxTime
      /\ UNCHANGED <<made, jar, plain, settled, calls, pc, astray>> /\ FileRows' = FileRows
  BY ClientFacts, SessionAssumption DEF Tick, vars, FileRows
<1>3. ClientType' /\ (plain' => PlainJar(jar'))
  BY <1>2 DEF SessionInv, ClientType
<1>4. FileRows[Mine] \in States \cup {NoRow}
  BY RowType DEF SessionInv
<1>5. calls[Me] # NoCall /\ calls[Me].op = "save" => calls[Me].state \in States
  BY ClientFacts DEF SessionInv, Inv, CallInv
<1>6. Pending'
  BY <1>2, <1>4, <1>5, AgreeLater, ClientFacts DEF SessionInv, Pending
<1>7. Settled'
  BY <1>2, <1>4, AgreeLater, ClientFacts DEF SessionInv, Settled
<1> QED BY <1>1, <1>3, <1>6, <1>7 DEF SessionInv

LEMMA QuietStep ==
    ASSUME SessionInv, (WriteBack /\ UNCHANGED client) \/ UNCHANGED sessionVars
    PROVE  SessionInv'
<1>1. Inv'
  BY WriteBackStep, StutterStep DEF SessionInv, sessionVars, vars
<1>2. UNCHANGED client /\ calls' = calls /\ astray' = astray /\ FileRows' = FileRows
  BY DEF WriteBack, sessionVars, client, FileRows
<1> QED BY <1>1, <1>2, Frame

LEMMA SessionInitInv == ASSUME SessionInit PROVE SessionInv
<1>1. Inv /\ calls[Me] = NoCall
  BY InitInv, SessionAssumption DEF SessionInit, Init
<1>0. 0 \in 0 .. MaxTime /\ 0 \in 0 .. MaxCalls
  BY SessionAssumption
<1>2. ClientType /\ PlainJar(jar)
  BY <1>0, NoCookieType, EmptyJarPlain DEF SessionInit, ClientType
<1> QED BY <1>1, <1>2 DEF SessionInit, SessionInv, Pending, Settled

LEMMA SessionNextInv == ASSUME SessionInv, [SessionNext]_sessionVars PROVE SessionInv'
  BY AnsweredStep, SetOnlyStep, ClearStep, RestoreStep, ReturnedStep, WorkStep, OtherCallStep,
     OtherReturnStep, SessionCrashStep, SessionPowerLossStep, TickStep, QuietStep
  DEF SessionNext

\* The Client and the world use the file as FileStore says.
LEMMA SessionNextFile == ASSUME SessionInv, [SessionNext]_sessionVars PROVE [Next]_vars
<1>1. ASSUME NEW c \in SetCookies, Answered(c) PROVE Next
  <2>1. Snapshot(jar', now) \in States
    BY <1>1, SetJar, SnapshotType DEF Answered
  <2> QED BY <1>1, <2>1, ClientFacts DEF Answered, Next, Store!Ops
<1>2. ASSUME NEW t \in Threads, NEW op \in {"load", "delete"}, Call(t, op, None) PROVE Next
  <2>1. PICK s : s \in States
    BY NoCookieType, SessionAssumption, SnapshotType
  <2> QED BY <1>2, <2>1 DEF Next, Store!Ops
<1>3. ASSUME NEW t \in Threads, NEW s \in States, Call(t, "save", s) PROVE Next
  BY <1>3 DEF Next, Store!Ops
<1>4. ASSUME NEW t \in Others, Other(t) PROVE Next
  BY <1>2, <1>3, <1>4, SessionAssumption DEF Other, Others
<1>5. ASSUME NEW t \in Threads, Step(t) \/ Return(t) PROVE Next
  BY <1>5 DEF Next
<1>6. CASE ClearSession \/ Restore
  BY <1>2, <1>6, ClientFacts DEF ClearSession, Restore
<1>7. CASE Returned \/ (\E t \in Threads : Work(t)) \/ (\E t \in Others : Return(t))
  BY <1>5, <1>7, ClientFacts DEF Returned, Work, Others
<1>8. CASE (\E p \in Processes : SessionCrash(p)) \/ SessionPowerLoss \/ WriteBack
  BY <1>8 DEF SessionCrash, SessionPowerLoss, Next
<1>9. CASE Tick \/ (\E c \in SetCookies : SetOnly(c)) \/ UNCHANGED sessionVars
  BY <1>9 DEF Tick, SetOnly, sessionVars, vars
<1> QED BY <1>1, <1>4, <1>6, <1>7, <1>8, <1>9 DEF SessionNext

-----------------------------------------------------------------------------
(* Theorems.                                                                 *)

THEOREM SessionInvariance == SessionSpec => []SessionInv
<1>1. SessionInit => SessionInv
  BY SessionInitInv
<1>2. SessionInv /\ [SessionNext]_sessionVars => SessionInv'
  BY SessionNextInv
<1> QED BY <1>1, <1>2, PTL DEF SessionSpec

\* The composition of the Client and the file keeps to FileStore.
THEOREM UsesFile == SessionSpec => Spec
<1>1. SessionInit => Init
  BY DEF SessionInit
<1>2. SessionInv /\ [SessionNext]_sessionVars => [Next]_vars
  BY SessionNextFile
<1> QED BY <1>1, <1>2, SessionInvariance, PTL DEF SessionSpec, Spec

\* Every variable keeps its type: cookies that are late, deleted or half set
\* included (setCookiesLocked and Snapshot, auth.go).
THEOREM Session_Type == SessionSpec => []SessionTypeOK
<1>1. SessionInv => SessionTypeOK
  BY DEF SessionInv, Inv, ClientType, SessionTypeOK
<1> QED BY <1>1, SessionInvariance, PTL

\* The file a Client uses can be read after any crash (write, session_store.go).
THEOREM File_Readable == SessionSpec => []Readable
<1>1. SessionInv => Readable
  BY DEF SessionInv, Inv, FileInv, Readable
<1> QED BY <1>1, SessionInvariance, PTL

\* No operation that is over left a temporary file (write, session_store.go).
THEOREM No_Litter == SessionSpec => []NoLitter
<1>1. SessionInv => NoLitter
  BY DEF SessionInv, Inv, TempInv, NoLitter
<1> QED BY <1>1, SessionInvariance, PTL

\* The file keeps the contract of SessionStore (auth.go), unless two processes
\* overlapped or the disk reverted.
THEOREM File_Implements == SessionSpec => Implements
  BY UsesFile, FileImplementsStore, PTL

\* The next process resumes the session that was saved, restored or cleared
\* (saveSession and ClearSession, auth.go; loadStoredSession, session.go).
THEOREM Session_Resumes == SessionSpec => []Resumes
<1>1. SessionInv => Resumes
  <2> SUFFICES ASSUME SessionInv, settled, plain, ~ astray PROVE NextSends = Sent(jar, now)
    BY DEF Resumes
  <2>1. Agree(FileRows[Mine], jar, now)
    BY DEF SessionInv, Settled
  <2>2. FileRows[Mine] \in States \cup {NoRow}
    BY RowType DEF SessionInv
  <2> QED BY <2>1, <2>2, AgreeSends, ClientFacts DEF NextSends
<1> QED BY <1>1, SessionInvariance, PTL
=============================================================================
