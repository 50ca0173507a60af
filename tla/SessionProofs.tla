---------------------------- MODULE SessionProofs ----------------------------
(***************************************************************************)
(* Proofs about Session, for every set of clients, addresses, requests and *)
(* slaves, and about the lengths of Framing for every length of data.      *)
(***************************************************************************)
EXTENDS Session, TLAPS

-----------------------------------------------------------------------------
(* The lengths.                                                            *)

\* What is encrypted fits into the buffer, and what is decrypted is as long as it was,
\* but for the lengths that are taken for whole chunks.
LEMMA FrameLengths ==
    ASSUME NEW n \in 0..Frame!MaxData
    PROVE  /\ Frame!Received(n) = IF Frame!LooksWhole(n) THEN Frame!Whole(n) ELSE n
           /\ Frame!Received(n) \in 0..Frame!Room
           /\ Frame!Encrypted(n) <= Frame!Room
  <1> DEFINE q == n \div 256
             r == n % 256
             pad == Frame!Padded(r)
  <1>1. n = 256 * q + r /\ q \in 0..3 /\ r \in 0..255 /\ n <= 1022
    BY DEF Frame!MaxData
  <1>2. /\ pad \in 0..256 /\ pad >= r
        /\ pad = 0 <=> r = 0
        /\ pad = 256 <=> r > 240
    BY <1>1 DEF Frame!Padded
  <1>3. Frame!Encrypted(n) = 1 + 256 * q + pad
    BY DEF Frame!Encrypted
  <1>4. Frame!Encrypted(n) <= Frame!Room
    BY <1>1, <1>2, <1>3 DEF Frame!Room, Frame!MaxData
  <1>5. Frame!Encrypted(n) - 1 = 256 * q + pad
    BY <1>1, <1>2, <1>3
  <1>6. CASE r = 0
    <2>1. (256 * q + pad) \div 256 = q /\ (256 * q + pad) % 256 = 0
      BY <1>1, <1>2, <1>6
    <2>2. Frame!Received(n) = n
      BY <1>1, <1>5, <1>6, <2>1 DEF Frame!Received, Frame!Decrypted
    <2>3. QED
      BY <1>1, <1>4, <1>6, <2>2 DEF Frame!LooksWhole, Frame!Room, Frame!MaxData
  <1>7. CASE r > 240
    <2>1. (256 * q + pad) \div 256 = q + 1 /\ (256 * q + pad) % 256 = 0
      BY <1>1, <1>2, <1>7
    <2>2. Frame!Received(n) = 256 * q + 256
      BY <1>1, <1>5, <1>7, <2>1 DEF Frame!Received, Frame!Decrypted
    <2>3. Frame!Whole(n) = 256 * q + 256
      BY <1>1 DEF Frame!Whole
    <2>4. QED
      BY <1>1, <1>4, <1>7, <2>2, <2>3 DEF Frame!LooksWhole, Frame!Room, Frame!MaxData
  <1>8. CASE 0 < r /\ r <= 240
    <2>1. (256 * q + pad) \div 256 = q /\ (256 * q + pad) % 256 # 0
      BY <1>1, <1>2, <1>8
    <2>2. Frame!Received(n) = n
      BY <1>1, <1>5, <1>8, <2>1 DEF Frame!Received, Frame!Decrypted
    <2>3. QED
      BY <1>1, <1>4, <1>8, <2>2 DEF Frame!LooksWhole, Frame!Room, Frame!MaxData
  <1>9. QED
    BY <1>1, <1>6, <1>7, <1>8

-----------------------------------------------------------------------------
(* Type correctness.                                                       *)

LEMMA LiveType == TypeOK => Live \subseteq Addr
  BY DEF TypeOK, Live

LEMMA ObjectType ==
    /\ \A c \in Clients : NewUser(c) \in Object
    /\ Raw \in Object
    /\ \A o \in Object : /\ o.of \in Clients \union {Null} /\ o.enc \in Keys
                         /\ o.encrypted \in BOOLEAN /\ o.login \in BOOLEAN
  BY DEF NewUser, Raw, Object, Keys

LEMMA UpdateType ==
    ASSUME NEW o \in Object, NEW b \in BOOLEAN, NEW k \in Keys
    PROVE  /\ [o EXCEPT !.login = b] \in Object
           /\ [o EXCEPT !.encrypted = b] \in Object
           /\ [o EXCEPT !.enc = k] \in Object
  BY DEF Object

\* What a slave reads has its type, whether its user is there or not.
LEMMA ReadType ==
    ASSUME TypeOK, NEW j \in Jobs
    PROVE  /\ Read(j, obj[ptr[j]].of, Clients \union {Null}) \subseteq Clients \union {Null}
           /\ Read(j, obj[ptr[j]].enc, Keys \ {NoKey}) \subseteq Keys
  <1>1. ptr[j] \in Live => obj[ptr[j]] \in Object
    BY LiveType DEF TypeOK
  <1>2. QED
    BY <1>1, ObjectType DEF Read

LEMMA MessageType ==
    ASSUME TypeOK, NEW j \in Jobs, NEW to \in Clients \union {Null}, NEW data \in BOOLEAN
    PROVE  Message(j, to, data) \in Answer
  <1>1. Length[j] \in 0..Frame!MaxData
    BY SessionAssumption
  <1>2. Length[j] \in 0..Frame!Room
    BY <1>1 DEF Frame!MaxData, Frame!Room
  <1>3. 0 \in 0..Frame!Room
    BY DEF Frame!MaxData, Frame!Room
  <1>4. (IF ~data THEN 0 ELSE IF key[j] = NoKey THEN Length[j] ELSE Frame!Received(Length[j]))
           \in 0..Frame!Room
    BY <1>1, <1>2, <1>3, FrameLengths
  <1>5. key[j] \in Keys
    BY DEF TypeOK
  <1>6. QED
    BY <1>4, <1>5 DEF Message, Answer

LEMMA StageType ==
    ASSUME TypeOK, NEW j \in Jobs,
           Pool!Accept(j) \/ Pool!TurnAway(j) \/ Pool!Reject(j) \/ Pool!Start(j) \/ Pool!Finish(j)
    PROVE  stage' \in [Jobs -> {"new", "queued", "running", "finished", "busy", "rejected"}]
  BY DEF TypeOK, Pool!Accept, Pool!TurnAway, Pool!Reject, Pool!Start, Pool!Finish, Pool!Move

LEMMA PendingType == Pending \subseteq Jobs /\ (\A a : Of(a) \subseteq Jobs)
  BY DEF Pending, Of, Pool!Held, Pool!At

LEMMA InitType == Init => TypeOK
  <1> SUFFICES ASSUME Init PROVE TypeOK
    OBVIOUS
  <1>1. obj \in [Addr -> Object]
    BY ObjectType DEF Init
  <1>2. stage \in [Jobs -> {"new", "queued", "running", "finished", "busy", "rejected"}]
    BY DEF Init, Pool!Init
  <1>3. NoKey \in Keys
    BY DEF Keys
  <1>4. QED
    BY <1>1, <1>2, <1>3 DEF Init, TypeOK

LEMMA DispatcherType ==
    ASSUME TypeOK, dpc # "recv" => from \in Clients /\ du \in Addr,
           \/ \E c \in Clients : Receive(c)
           \/ HandleOther \/ HandleCrash \/ HandleLogin \/ HandleSetAes \/ KeyWritten \/ FlagSet
           \/ HandleStopEncryption \/ HandleLogout
           \/ \E j \in Jobs : HandlePath(j)
    PROVE  TypeOK'
  <1> USE DEF users, requests, slaves, history
  <1>1. CASE \E c \in Clients : Receive(c)
    BY <1>1, ObjectType DEF Receive, TypeOK
  <1>2. CASE HandleOther
    BY <1>2 DEF HandleOther, Back, TypeOK
  <1>3. CASE HandleCrash
    <2>1. obj' \in [Addr -> Object]
      BY <1>3, ObjectType DEF HandleCrash
    <2>2. NoKey \in Keys
      BY DEF Keys
    <2>3. QED
      BY <1>3, <2>1, <2>2 DEF HandleCrash, Back, TypeOK
  <1>4. CASE HandleLogin \/ HandleSetAes \/ KeyWritten \/ FlagSet \/ HandleStopEncryption
    <2>1. from \in Clients /\ du \in Addr
      BY <1>4 DEF HandleLogin, HandleSetAes, KeyWritten, FlagSet, HandleStopEncryption, LoggedIn
    <2>2. obj' \in [Addr -> Object]
      <3>1. obj[du] \in Object /\ from \in Keys /\ Torn \in Keys
        BY <2>1 DEF TypeOK, Keys
      <3>2. CASE HandleLogin
        <4>1. [obj[du] EXCEPT !.login = TRUE] \in Object
          BY <3>1, UpdateType
        <4>2. QED
          BY <3>2, <4>1, <2>1 DEF HandleLogin, TypeOK
      <3>3. CASE HandleSetAes
        <4>1. [obj[du] EXCEPT !.enc = Torn] \in Object
          BY <3>1, UpdateType
        <4>2. QED
          BY <3>3, <4>1, <2>1 DEF HandleSetAes, TypeOK
      <3>4. CASE KeyWritten
        <4>1. [obj[du] EXCEPT !.enc = from] \in Object
          BY <3>1, UpdateType
        <4>2. QED
          BY <3>4, <4>1, <2>1 DEF KeyWritten, TypeOK
      <3>5. CASE FlagSet
        <4>1. [obj[du] EXCEPT !.encrypted = TRUE] \in Object
          BY <3>1, UpdateType
        <4>2. QED
          BY <3>5, <4>1, <2>1 DEF FlagSet, TypeOK
      <3>6. CASE HandleStopEncryption
        <4>1. [obj[du] EXCEPT !.encrypted = FALSE] \in Object
          BY <3>1, UpdateType
        <4>2. QED
          BY <3>6, <4>1, <2>1 DEF HandleStopEncryption, TypeOK
      <3>7. QED
        BY <1>4, <3>2, <3>3, <3>4, <3>5, <3>6
    <2>3. stopped' \subseteq Jobs /\ rekeyed' \subseteq Jobs /\ private' \subseteq Clients /\ authed' \subseteq Clients
      BY <1>4, <2>1, PendingType DEF HandleLogin, HandleSetAes, Rekey, KeyWritten, FlagSet,
                                     HandleStopEncryption, TypeOK
    <2>4. QED
      BY <1>4, <2>1, <2>2, <2>3 DEF HandleLogin, HandleSetAes, KeyWritten, FlagSet,
                                    HandleStopEncryption, Back, TypeOK
  <1>5. CASE HandleLogout
    <2>1. orphan' \subseteq Jobs
      BY <1>5, PendingType DEF HandleLogout, TypeOK
    <2>2. QED
      BY <1>5, <2>1, ObjectType DEF HandleLogout, Back, TypeOK
  <1>6. CASE \E j \in Jobs : HandlePath(j)
    <2>1. PICK j \in Jobs : HandlePath(j)
      BY <1>6
    <2>2. stage' \in [Jobs -> {"new", "queued", "running", "finished", "busy", "rejected"}]
      BY <2>1, StageType DEF HandlePath
    <2>3. from \in Clients /\ du \in Addr
      BY <2>1 DEF HandlePath, LoggedIn
    <2>4. /\ ptr' \in [Jobs -> Addr \union {Null}]
          /\ asker' \in [Jobs -> Clients \union {Null}]
          /\ secret' \subseteq Jobs
      BY <2>1, <2>3 DEF HandlePath, TypeOK
    <2>5. QED
      BY <2>1, <2>2, <2>4 DEF HandlePath, Back, TypeOK
  <1>7. QED
    BY <1>1, <1>2, <1>3, <1>4, <1>5, <1>6

LEMMA SendType ==
    ASSUME TypeOK, NEW j \in Jobs, NEW data \in BOOLEAN, Send(j, data)
    PROVE  TypeOK'
  <1>1. sent' \in [Jobs -> Answer \union {Null}]
    <2>1. PICK to \in Read(j, obj[ptr[j]].of, Clients \union {Null}) :
              sent' = [sent EXCEPT ![j] = Message(j, to, data)]
      BY DEF Send
    <2>2. Message(j, to, data) \in Answer
      BY ReadType, MessageType
    <2>3. QED
      BY <2>1, <2>2 DEF TypeOK
  <1>2. stage' \in [Jobs -> {"new", "queued", "running", "finished", "busy", "rejected"}]
    BY StageType DEF Send, Finish
  <1>3. NoKey \in Keys
    BY DEF Keys
  <1>4. QED
    BY <1>1, <1>2, <1>3 DEF Send, Finish, TypeOK, users, history

LEMMA SlaveType ==
    ASSUME TypeOK, NEW j \in Jobs,
           Start(j) \/ SendCode(j) \/ ReadFlag(j) \/ Encrypt(j) \/ SendData(j)
    PROVE  TypeOK'
  <1> USE DEF users, requests, slaves, history
  <1>1. CASE Start(j)
    BY <1>1, StageType DEF Start, TypeOK
  <1>2. CASE SendCode(j) \/ SendData(j)
    BY <1>2, SendType DEF SendCode, SendData
  <1>3. CASE ReadFlag(j)
    BY <1>3 DEF ReadFlag, TypeOK
  <1>4. CASE Encrypt(j)
    BY <1>4, ReadType DEF Encrypt, TypeOK
  <1>5. QED
    BY <1>1, <1>2, <1>3, <1>4

-----------------------------------------------------------------------------
(* The users and the dispatcher.                                           *)

\* Each client has a User object of its own, which holds its address.
OwnObject ==
    /\ \A c, d \in Clients : user[c] # Null /\ user[c] = user[d] => c = d
    /\ \A c \in Clients : user[c] # Null => obj[user[c]].of = c

\* The dispatcher works for the sender of the datagram, with its user.
AtWork == dpc # "recv" => from \in Clients /\ du = user[from] /\ du # Null

\* The key is whole before the flag is set, and while it is, unless it is being rewritten.
KeyBeforeFlag ==
    /\ \A c \in Clients :
          user[c] # Null /\ obj[user[c]].encrypted /\ ~(dpc = "key" /\ c = from)
            => obj[user[c]].enc = c
    /\ \A c \in Clients :
          user[c] # Null /\ obj[user[c]].encrypted => obj[user[c]].enc \in {c, Torn}
    /\ dpc = "flag" => obj[du].enc = from

\* A client that was told that encryption is on is encrypted.
PrivateIsOn == \A c \in private : user[c] # Null /\ obj[user[c]].encrypted

UserInv == TypeOK /\ OwnObject /\ AtWork /\ KeyBeforeFlag /\ PrivateIsOn /\ LoginIsOwn

LEMMA InitUserInv == Init => UserInv
  <1> SUFFICES ASSUME Init PROVE UserInv
    OBVIOUS
  <1>1. TypeOK
    BY InitType
  <1>2. OwnObject /\ AtWork /\ KeyBeforeFlag /\ PrivateIsOn /\ LoginIsOwn
    BY DEF Init, OwnObject, AtWork, KeyBeforeFlag, PrivateIsOn, LoginIsOwn
  <1>3. QED
    BY <1>1, <1>2 DEF UserInv

\* A datagram finds its user or gets a new one, in memory where none lives.
LEMMA ReceiveUserInv ==
    ASSUME UserInv, NEW c \in Clients, Receive(c)
    PROVE  OwnObject' /\ AtWork' /\ KeyBeforeFlag' /\ PrivateIsOn' /\ LoginIsOwn'
  <1> USE DEF UserInv, TypeOK, history
  <1>1. CASE user[c] # Null
    <2>1. UNCHANGED <<user, obj, private, authed>> /\ du' = user[c] /\ from' = c
          /\ dpc' = "handle" /\ dpc = "recv"
      BY <1>1 DEF Receive, users
    <2>2. QED
      BY <1>1, <2>1 DEF OwnObject, AtWork, KeyBeforeFlag, PrivateIsOn, LoginIsOwn
  <1>2. CASE user[c] = Null
    <2>1. PICK a \in Addr \ Live : /\ du' = a
                                  /\ user' = [user EXCEPT ![c] = a]
                                  /\ obj' = [obj EXCEPT ![a] = NewUser(c)]
      BY <1>2 DEF Receive
    <2>2. dpc' = "handle" /\ dpc = "recv" /\ from' = c /\ UNCHANGED <<private, authed>>
      BY DEF Receive
    <2>3. a # Null
      BY SessionAssumption
    <2>4. user'[c] = a /\ obj'[a] = NewUser(c)
      BY <2>1
    <2>5. \A d \in Clients : d # c => user'[d] = user[d] /\ user[d] # a
      BY <2>1, <2>3 DEF Live
    <2>6. \A d \in Clients : d # c /\ user[d] # Null => obj'[user[d]] = obj[user[d]]
      BY <2>1, <2>5
    <2>7. c \notin private
      BY <1>2 DEF PrivateIsOn
    <2>8. NewUser(c).of = c /\ ~NewUser(c).login /\ ~NewUser(c).encrypted
      BY DEF NewUser
    <2>9. OwnObject' /\ AtWork' /\ LoginIsOwn'
      BY <2>1, <2>2, <2>3, <2>4, <2>5, <2>6, <2>8 DEF OwnObject, AtWork, LoginIsOwn
    <2>10. KeyBeforeFlag' /\ PrivateIsOn'
      BY <2>1, <2>2, <2>3, <2>4, <2>5, <2>6, <2>7, <2>8 DEF KeyBeforeFlag, PrivateIsOn
    <2>11. QED
      BY <2>9, <2>10
  <1>3. QED
    BY <1>1, <1>2

\* A handler changes the user of its client only.
LEMMA HandlerUserInv ==
    ASSUME UserInv, HandleLogin \/ HandleSetAes \/ KeyWritten \/ FlagSet \/ HandleStopEncryption
    PROVE  OwnObject' /\ AtWork' /\ KeyBeforeFlag' /\ PrivateIsOn' /\ LoginIsOwn'
  <1> USE DEF UserInv, history
  <1>1. from \in Clients /\ du = user[from] /\ du # Null /\ du \in Addr /\ UNCHANGED user
    BY DEF AtWork, TypeOK, HandleLogin, HandleSetAes, KeyWritten, FlagSet, HandleStopEncryption,
           LoggedIn
  <1>2. /\ \A c \in Clients : c # from /\ user[c] # Null => user[c] # du
        /\ \A c \in Clients : user[c] # Null => user[c] \in Addr
    BY <1>1 DEF OwnObject, TypeOK
  <1>3. \A a \in Addr : a # du => obj'[a] = obj[a]
    BY <1>1 DEF TypeOK, HandleLogin, HandleSetAes, KeyWritten, FlagSet, HandleStopEncryption
  <1>4. obj'[du].of = obj[du].of
    <2>1. obj[du] \in Object
      BY <1>1 DEF TypeOK
    <2>2. QED
      BY <1>1, <2>1 DEF TypeOK, Object, HandleLogin, HandleSetAes, KeyWritten, FlagSet,
                       HandleStopEncryption
  <1>5. OwnObject'
    BY <1>1, <1>2, <1>3, <1>4 DEF OwnObject
  <1>6. AtWork'
    BY <1>1 DEF AtWork, HandleLogin, HandleSetAes, KeyWritten, FlagSet, HandleStopEncryption, Back
  <1>7. obj[du] \in Object
    BY <1>1 DEF TypeOK
  <1>8. CASE HandleLogin
    <2>1. obj'[du].encrypted = obj[du].encrypted /\ obj'[du].enc = obj[du].enc
      BY <1>1, <1>7, <1>8 DEF HandleLogin, TypeOK, Object
    <2>2. UNCHANGED private /\ dpc' = "recv" /\ dpc = "handle" /\ authed' = authed \union {from}
      BY <1>8 DEF HandleLogin, Back
    <2>3. QED
      BY <1>1, <1>2, <1>3, <1>5, <1>6, <2>1, <2>2 DEF KeyBeforeFlag, PrivateIsOn, LoginIsOwn, TypeOK
  <1>9. CASE HandleSetAes \/ KeyWritten
    <2>1. /\ obj'[du].login = obj[du].login
          /\ obj'[du].encrypted = obj[du].encrypted
          /\ obj'[du].enc = IF dpc' = "key" THEN Torn ELSE from
      BY <1>1, <1>7, <1>9 DEF HandleSetAes, KeyWritten, TypeOK, Object
    <2>2. UNCHANGED <<private, authed, du, from>> /\ dpc' \in {"key", "flag"} /\ dpc # "flag"
          /\ (dpc = "key" => dpc' = "flag")
      BY <1>9 DEF HandleSetAes, KeyWritten
    <2>3. KeyBeforeFlag'
      BY <1>1, <1>2, <1>3, <2>1, <2>2 DEF KeyBeforeFlag, TypeOK
    <2>4. QED
      BY <1>1, <1>2, <1>3, <1>5, <1>6, <2>1, <2>2, <2>3
         DEF PrivateIsOn, LoginIsOwn, TypeOK
  <1>10. CASE FlagSet
    <2>1. obj'[du].login = obj[du].login /\ obj'[du].encrypted /\ obj'[du].enc = from
      BY <1>1, <1>7, <1>10 DEF FlagSet, TypeOK, Object, KeyBeforeFlag
    <2>2. UNCHANGED authed /\ dpc' = "recv" /\ private' = private \union {from}
      BY <1>10 DEF FlagSet, Back
    <2>3. QED
      BY <1>1, <1>2, <1>3, <1>5, <1>6, <2>1, <2>2 DEF KeyBeforeFlag, PrivateIsOn, LoginIsOwn, TypeOK
  <1>11. CASE HandleStopEncryption
    <2>1. obj'[du].login = obj[du].login /\ ~obj'[du].encrypted
      BY <1>1, <1>7, <1>11 DEF HandleStopEncryption, TypeOK, Object
    <2>2. UNCHANGED authed /\ dpc' = "recv" /\ private' = private \ {from}
      BY <1>11 DEF HandleStopEncryption, Back
    <2>3. QED
      BY <1>1, <1>2, <1>3, <1>5, <1>6, <2>1, <2>2 DEF KeyBeforeFlag, PrivateIsOn, LoginIsOwn, TypeOK
  <1>12. QED
    BY <1>8, <1>9, <1>10, <1>11

\* A logout takes the client out of everything that is said about its user.
LEMMA LogoutUserInv ==
    ASSUME UserInv, HandleLogout
    PROVE  OwnObject' /\ AtWork' /\ KeyBeforeFlag' /\ PrivateIsOn' /\ LoginIsOwn'
  <1> USE DEF UserInv
  <1>1. from \in Clients /\ du = user[from] /\ du # Null /\ du \in Addr
    BY DEF AtWork, TypeOK, HandleLogout, LoggedIn
  <1>2. \A c \in Clients : c # from => user'[c] = user[c]
    BY DEF HandleLogout, TypeOK
  <1>3. user'[from] = Null
    BY <1>1 DEF HandleLogout, TypeOK
  <1>4. \A c \in Clients : c # from /\ user[c] # Null => obj'[user[c]] = obj[user[c]]
    BY <1>1 DEF HandleLogout, OwnObject, TypeOK
  <1>5. dpc' = "recv" /\ private' = private \ {from} /\ authed' = authed \ {from}
    BY DEF HandleLogout, Back
  <1>6. QED
    BY <1>1, <1>2, <1>3, <1>4, <1>5
       DEF OwnObject, AtWork, KeyBeforeFlag, PrivateIsOn, LoginIsOwn, TypeOK

LEMMA UserStep == UserInv /\ [Next]_vars => UserInv'
  <1> SUFFICES ASSUME UserInv, [Next]_vars PROVE UserInv'
    OBVIOUS
  <1>1. TypeOK /\ (dpc # "recv" => from \in Clients /\ du \in Addr)
    BY DEF UserInv, AtWork, TypeOK
  <1>2. TypeOK'
    <2>1. CASE UNCHANGED vars
      BY <1>1, <2>1 DEF TypeOK, vars, users, requests, slaves, history
    <2>2. CASE Next
      BY <1>1, <2>2, DispatcherType, SlaveType DEF Next
    <2>3. QED
      BY <2>1, <2>2
  <1>3. CASE \E c \in Clients : Receive(c)
    BY <1>2, <1>3, ReceiveUserInv DEF UserInv
  <1>4. CASE HandleLogin \/ HandleSetAes \/ KeyWritten \/ FlagSet \/ HandleStopEncryption
    BY <1>2, <1>4, HandlerUserInv DEF UserInv
  <1>5. CASE HandleLogout
    BY <1>2, <1>5, LogoutUserInv DEF UserInv
  <1>6. CASE HandleCrash
    BY <1>2, <1>6 DEF HandleCrash, Back, UserInv, OwnObject, AtWork, KeyBeforeFlag, PrivateIsOn,
                      LoginIsOwn
  <1>7. CASE HandleOther \/ \E j \in Jobs : HandlePath(j)
    <2>1. UNCHANGED <<user, obj, private, authed>> /\ dpc' = "recv" /\ dpc = "handle"
      BY <1>7 DEF HandleOther, HandlePath, LoggedIn, Back, users, history
    <2>2. QED
      BY <1>2, <2>1 DEF UserInv, OwnObject, AtWork, KeyBeforeFlag, PrivateIsOn, LoginIsOwn
  <1>8. CASE \/ UNCHANGED vars
             \/ \E j \in Jobs : Start(j) \/ SendCode(j) \/ ReadFlag(j) \/ Encrypt(j) \/ SendData(j)
    <2>1. UNCHANGED <<user, obj, private, authed, dpc, du, from>>
      BY <1>8 DEF vars, Start, SendCode, SendData, Send, Finish, ReadFlag, Encrypt, users, history
    <2>2. QED
      BY <1>2, <2>1 DEF UserInv, OwnObject, AtWork, KeyBeforeFlag, PrivateIsOn, LoginIsOwn
  <1>9. QED
    BY <1>3, <1>4, <1>5, <1>6, <1>7, <1>8 DEF Next

LEMMA AlwaysUserInv == Spec => []UserInv
  BY InitUserInv, UserStep, PTL DEF Spec

\* Every variable of the session keeps its type, for any number of clients and requests:
\* no answer is longer than the buffer it is put together in.
THEOREM TypeCorrect == Spec => []TypeOK
  <1>1. UserInv => TypeOK
    BY DEF UserInv
  <1>2. QED
    BY <1>1, AlwaysUserInv, PTL

\* Whoever is logged in has given a right login itself since it came: the memory of a
\* user who has left never logs in the one who is allocated there next.
THEOREM LoginsAreOwn == Spec => []LoginIsOwn
  <1>1. UserInv => LoginIsOwn
    BY DEF UserInv
  <1>2. QED
    BY <1>1, AlwaysUserInv, PTL

-----------------------------------------------------------------------------
(* The requests and the slaves.                                            *)

\* A request leads to the user of the client that sent it, unless this client has
\* logged out since.
PointsToAsker ==
    \A j \in Pending \ orphan :
        asker[j] \in Clients /\ ptr[j] = user[asker[j]] /\ ptr[j] # Null

\* How far the answer to a request can be.
Progress ==
    \A j \in Jobs : /\ spc[j] # "run" => stage[j] = "running"
                    /\ spc[j] # "send" => key[j] = NoKey
                    /\ sent[j] # Null => stage[j] = "finished"
                    /\ stage[j] = "new" => j \notin secret

\* While a key that is in use is rewritten, the requests of its client know.
RekeyIsKnown ==
    dpc = "key" /\ obj[du].encrypted => Of(du) \subseteq rekeyed \union stopped

\* What a slave has read of the encryption still holds, unless the client has logged
\* out or stopped the encryption since.
ReadHolds ==
    \A j \in Pending \ (orphan \union stopped) :
        /\ spc[j] = "encrypt" => obj[ptr[j]].encrypted
        /\ spc[j] = "send" => key[j] \in KeysFor(j)
        /\ j \in secret => obj[ptr[j]].encrypted /\ (spc[j] = "send" => key[j] # NoKey)

AnswersRight == RightAddressee /\ KeyIsWhole /\ SecretKept /\ LengthKept

RequestInv ==
    UserInv /\ PointsToAsker /\ Progress /\ RekeyIsKnown /\ ReadHolds /\ AnswersRight

LEMMA InitRequestInv == Init => RequestInv
  <1> SUFFICES ASSUME Init PROVE RequestInv
    OBVIOUS
  <1>1. UserInv
    BY InitUserInv
  <1>2. Pending = {}
    BY DEF Init, Pending, Pool!Init, Pool!Held, Pool!At
  <1>3. secret = {} /\ \A j \in Jobs : sent[j] = Null /\ spc[j] = "run" /\ key[j] = NoKey
    BY DEF Init
  <1>4. PointsToAsker /\ Progress /\ RekeyIsKnown /\ ReadHolds
    BY <1>2, <1>3 DEF Init, PointsToAsker, Progress, RekeyIsKnown, ReadHolds
  <1>5. AnswersRight
    BY <1>3 DEF AnswersRight, RightAddressee, KeyIsWhole, KeysFor, SecretKept, LengthKept, Answered
  <1>6. QED
    BY <1>1, <1>4, <1>5 DEF RequestInv

\* The users that are there stay where they are, and their encryption on.
UsersKept ==
    \A c \in Clients : user[c] # Null =>
        /\ user'[c] = user[c]
        /\ obj[user[c]].encrypted => obj'[user[c]].encrypted

\* What the dispatcher does for the users does not touch the requests.
LEMMA KeptInv ==
    ASSUME RequestInv, UsersKept, UNCHANGED <<requests, slaves, orphan, stopped>>,
           rekeyed \subseteq rekeyed'
    PROVE  PointsToAsker' /\ Progress' /\ ReadHolds' /\ AnswersRight'
  <1> USE DEF requests, slaves
  <1>1. Pending' = Pending
    BY DEF Pending, Pool!Held, Pool!At
  <1>2. PointsToAsker'
    BY <1>1 DEF RequestInv, UsersKept, PointsToAsker
  <1>3. Progress'
    BY DEF RequestInv, Progress
  <1>4. ReadHolds'
    BY <1>1 DEF RequestInv, UsersKept, PointsToAsker, ReadHolds, KeysFor
  <1>5. AnswersRight'
    BY DEF RequestInv, AnswersRight, RightAddressee, KeyIsWhole, KeysFor, SecretKept, LengthKept, Answered
  <1>6. QED
    BY <1>2, <1>3, <1>4, <1>5

LEMMA UsersAreKept ==
    ASSUME UserInv,
           \/ \E c \in Clients : Receive(c)
           \/ HandleLogin \/ HandleSetAes \/ KeyWritten \/ FlagSet
    PROVE  UsersKept
  <1> USE DEF UserInv
  <1>1. CASE \E c \in Clients : Receive(c)
    <2>1. PICK c \in Clients : Receive(c)
      BY <1>1
    <2>2. CASE user[c] # Null
      BY <2>1, <2>2 DEF Receive, users, UsersKept
    <2>3. CASE user[c] = Null
      BY <2>1, <2>3 DEF Receive, UsersKept, Live, TypeOK
    <2>4. QED
      BY <2>2, <2>3
  <1>2. CASE HandleLogin \/ HandleSetAes \/ KeyWritten \/ FlagSet
    <2>1. du \in Addr /\ UNCHANGED user
      BY <1>2 DEF AtWork, TypeOK, HandleLogin, HandleSetAes, KeyWritten, FlagSet
    <2>2. obj[du] \in Object
      BY <2>1 DEF TypeOK
    <2>3. \A a \in Addr : obj[a].encrypted => obj'[a].encrypted
      BY <1>2, <2>1, <2>2 DEF HandleLogin, HandleSetAes, KeyWritten, FlagSet, TypeOK, Object
    <2>4. QED
      BY <2>1, <2>3 DEF UsersKept, TypeOK
  <1>3. QED
    BY <1>1, <1>2

LEMMA StopEncryptionInv ==
    ASSUME RequestInv, HandleStopEncryption
    PROVE  PointsToAsker' /\ Progress' /\ ReadHolds' /\ AnswersRight'
  <1> USE DEF requests, slaves, RequestInv, HandleStopEncryption
  <1>1. Pending' = Pending /\ stopped' = stopped \union Of(du)
    BY DEF Pending, Pool!Held, Pool!At
  <1>2. PointsToAsker' /\ Progress'
    BY <1>1 DEF PointsToAsker, Progress
  <1>3. \A j \in Pending \ (orphan \union stopped') : ptr[j] # du
    BY <1>1 DEF Of
  <1>4. \A a \in Addr : a # du => obj'[a] = obj[a]
    BY DEF UserInv, TypeOK
  <1>5. \A j \in Pending \ orphan : ptr[j] \in Addr
    BY DEF PointsToAsker, UserInv, TypeOK
  <1>6. ReadHolds'
    BY <1>1, <1>3, <1>4, <1>5 DEF ReadHolds, KeysFor
  <1>7. AnswersRight'
    BY <1>1 DEF AnswersRight, RightAddressee, KeyIsWhole, KeysFor, SecretKept, LengthKept, Answered
  <1>8. QED
    BY <1>2, <1>6, <1>7

LEMMA LogoutInv ==
    ASSUME RequestInv, HandleLogout
    PROVE  PointsToAsker' /\ Progress' /\ ReadHolds' /\ AnswersRight'
  <1> USE DEF requests, slaves, RequestInv, HandleLogout
  <1>1. Pending' = Pending /\ orphan' = orphan \union Of(du)
    BY DEF Pending, Pool!Held, Pool!At
  <1>2. from \in Clients /\ du = user[from]
    BY DEF UserInv, AtWork, LoggedIn
  <1>3. \A j \in Pending \ orphan' : ptr[j] # du
    BY <1>1 DEF Of
  <1>4. \A a \in Addr : a # du => obj'[a] = obj[a]
    BY DEF UserInv, TypeOK
  <1>5. \A j \in Pending \ orphan' : asker[j] # from /\ asker[j] \in Clients /\ ptr[j] \in Addr
    BY <1>1, <1>2, <1>3 DEF PointsToAsker, UserInv, TypeOK
  <1>6. PointsToAsker'
    BY <1>1, <1>5 DEF PointsToAsker, UserInv, TypeOK
  <1>7. ReadHolds'
    BY <1>1, <1>3, <1>4, <1>5 DEF ReadHolds, KeysFor
  <1>8. Progress'
    BY DEF Progress
  <1>9. AnswersRight'
    BY <1>1 DEF AnswersRight, RightAddressee, KeyIsWhole, KeysFor, SecretKept, LengthKept, Answered
  <1>10. QED
    BY <1>6, <1>7, <1>8, <1>9

\* A request gets the user of its sender, and is secret if the sender is encrypted.
LEMMA PathInv ==
    ASSUME RequestInv, NEW j \in Jobs, HandlePath(j)
    PROVE  PointsToAsker' /\ Progress' /\ ReadHolds' /\ AnswersRight'
  <1> USE DEF slaves, users, history, RequestInv
  <1>1. /\ from \in Clients /\ du = user[from] /\ du # Null /\ du \in Addr
        /\ UNCHANGED <<user, obj, spc, key, sent, orphan, stopped, rekeyed>>
    BY DEF HandlePath, LoggedIn, UserInv, AtWork, TypeOK
  <1>2. stage[j] = "new" /\ \A i \in Jobs : i # j => stage'[i] = stage[i]
    BY DEF HandlePath, Pool!TurnAway, Pool!Reject, Pool!Accept, Pool!Move, UserInv, TypeOK
  <1>3. sent[j] = Null /\ spc[j] = "run"
    BY <1>2 DEF Progress
  <1>4. Progress'
    <2>1. stage'[j] # "new"
      BY DEF HandlePath, Pool!TurnAway, Pool!Reject, Pool!Accept, Pool!Move, UserInv, TypeOK
    <2>2. secret' \subseteq secret \union {j}
      BY DEF HandlePath
    <2>3. QED
      BY <1>1, <1>2, <1>3, <2>1, <2>2 DEF Progress
  <1>5. \A i \in Jobs : i # j => /\ ptr'[i] = ptr[i] /\ asker'[i] = asker[i]
                                /\ (i \in secret' <=> i \in secret)
    BY DEF HandlePath, UserInv, TypeOK
  <1>6. AnswersRight'
    <2>1. RightAddressee' /\ KeyIsWhole' /\ LengthKept'
      BY <1>1, <1>3, <1>5 DEF AnswersRight, RightAddressee, KeyIsWhole, KeysFor, LengthKept, Answered
    <2>2. secret' \subseteq secret \union {j}
      BY DEF HandlePath
    <2>3. SecretKept'
      BY <1>1, <1>3, <2>2 DEF AnswersRight, SecretKept, Answered
    <2>4. QED
      BY <2>1, <2>3 DEF AnswersRight
  <1>7. \A i \in Jobs : i # j => (i \in Pending' <=> i \in Pending)
    BY <1>2 DEF Pending, Pool!Held, Pool!At
  <1>8. Pending' \subseteq Jobs
    BY DEF Pending, Pool!Held, Pool!At
  <1>9. CASE Pool!TurnAway(j) \/ Pool!Reject(j)
    <2>1. j \notin Pending'
      BY <1>9 DEF Pending, Pool!Held, Pool!At, Pool!TurnAway, Pool!Reject, Pool!Move, UserInv, TypeOK
    <2>2. QED
      BY <1>1, <1>4, <1>5, <1>6, <1>7, <1>8, <2>1 DEF PointsToAsker, ReadHolds, KeysFor
  <1>10. CASE Pool!Accept(j)
    <2>1. stage'[j] = "queued"
      BY <1>10 DEF Pool!Accept, Pool!Move, UserInv, TypeOK
    <2>2. /\ ptr'[j] = du /\ asker'[j] = from
          /\ j \in secret' => j \in secret \/ from \in private
      BY <1>10, <2>1 DEF HandlePath, Pool!TurnAway, Pool!Reject, Pool!Move, UserInv, TypeOK
    <2>3. j \in secret' /\ j \notin secret => obj[du].encrypted
      BY <1>1, <2>2 DEF UserInv, PrivateIsOn
    <2>4. PointsToAsker'
      BY <1>1, <1>5, <1>7, <1>8, <2>2 DEF PointsToAsker
    <2>5. j \notin secret
      BY <1>2 DEF Progress
    <2>6. QED
      BY <1>1, <1>3, <1>4, <1>5, <1>6, <1>7, <1>8, <2>2, <2>3, <2>4, <2>5 DEF ReadHolds, KeysFor
  <1>11. QED
    BY <1>9, <1>10 DEF HandlePath

\* A slave takes the request; its answer has not begun.
LEMMA StartInv ==
    ASSUME RequestInv, NEW j \in Jobs, Start(j)
    PROVE  PointsToAsker' /\ Progress' /\ ReadHolds' /\ AnswersRight'
  <1> USE DEF slaves, users, history, RequestInv
  <1>1. UNCHANGED <<user, obj, ptr, asker, secret, spc, key, sent, orphan, stopped, rekeyed>>
    BY DEF Start
  <1>2. /\ stage[j] = "queued" /\ stage'[j] = "running"
        /\ \A i \in Jobs : i # j => stage'[i] = stage[i]
    BY DEF Start, Pool!Start, Pool!Move, UserInv, TypeOK
  <1>3. Pending' = Pending
    BY <1>2 DEF Pending, Pool!Held, Pool!At
  <1>4. PointsToAsker' /\ ReadHolds'
    BY <1>1, <1>3 DEF PointsToAsker, ReadHolds, KeysFor
  <1>5. Progress'
    BY <1>1, <1>2 DEF Progress
  <1>6. AnswersRight'
    BY <1>1 DEF AnswersRight, RightAddressee, KeyIsWhole, KeysFor, SecretKept, LengthKept, Answered
  <1>7. QED
    BY <1>4, <1>5, <1>6

\* A slave that reads its user finds the one that asked, unless this one has logged out.
LEMMA ReadsAsker ==
    ASSUME RequestInv, NEW j \in Pending \ orphan
    PROVE  /\ asker[j] \in Clients /\ ptr[j] = user[asker[j]] /\ ptr[j] \in Live
           /\ \A value, any : Read(j, value, any) = {value}
  <1>1. asker[j] \in Clients /\ ptr[j] = user[asker[j]] /\ ptr[j] # Null
    BY DEF RequestInv, PointsToAsker
  <1>2. ptr[j] \in Live
    BY <1>1 DEF Live
  <1>3. QED
    BY <1>1, <1>2 DEF Read

LEMMA ReadFlagInv ==
    ASSUME RequestInv, NEW j \in Jobs, ReadFlag(j)
    PROVE  PointsToAsker' /\ Progress' /\ ReadHolds' /\ AnswersRight'
  <1> USE DEF users, requests, history, RequestInv
  <1>1. UNCHANGED <<user, obj, stage, ptr, asker, secret, key, sent, orphan, stopped, rekeyed>>
    BY DEF ReadFlag
  <1>2. stage[j] = "running" /\ spc[j] = "run" /\ key[j] = NoKey
    BY DEF ReadFlag, Progress
  <1>3. \A i \in Jobs : i # j => spc'[i] = spc[i]
    BY DEF ReadFlag, UserInv, TypeOK
  <1>4. Pending' = Pending
    BY <1>1 DEF Pending, Pool!Held, Pool!At
  <1>5. PointsToAsker'
    BY <1>1, <1>4 DEF PointsToAsker
  <1>6. Progress'
    BY <1>1, <1>2, <1>3 DEF Progress
  <1>7. AnswersRight'
    BY <1>1 DEF AnswersRight, RightAddressee, KeyIsWhole, KeysFor, SecretKept, LengthKept, Answered
  <1>8. ASSUME j \in Pending \ (orphan \union stopped)
        PROVE  /\ spc'[j] = "encrypt" => obj[ptr[j]].encrypted
               /\ j \in secret => spc'[j] # "send"
    <2>1. PICK encrypted \in Read(j, obj[ptr[j]].encrypted, BOOLEAN) :
              spc' = [spc EXCEPT ![j] = IF encrypted THEN "encrypt" ELSE "send"]
      BY DEF ReadFlag
    <2>2. encrypted = obj[ptr[j]].encrypted
      BY <1>8, <2>1, ReadsAsker
    <2>3. j \in secret => obj[ptr[j]].encrypted
      BY <1>8 DEF ReadHolds, KeysFor
    <2>4. spc'[j] = IF encrypted THEN "encrypt" ELSE "send"
      BY <2>1 DEF UserInv, TypeOK
    <2>5. QED
      BY <2>2, <2>3, <2>4
  <1>9. ReadHolds'
    BY <1>1, <1>2, <1>3, <1>4, <1>8, PendingType DEF ReadHolds, KeysFor
  <1>10. QED
    BY <1>5, <1>6, <1>7, <1>9

LEMMA EncryptInv ==
    ASSUME RequestInv, NEW j \in Jobs, Encrypt(j)
    PROVE  PointsToAsker' /\ Progress' /\ ReadHolds' /\ AnswersRight'
  <1> USE DEF users, requests, history, RequestInv
  <1>1. UNCHANGED <<user, obj, stage, ptr, asker, secret, sent, orphan, stopped, rekeyed>>
    BY DEF Encrypt
  <1>2. spc[j] = "encrypt" /\ spc'[j] = "send" /\ stage[j] = "running"
    BY DEF Encrypt, Progress, UserInv, TypeOK
  <1>3. \A i \in Jobs : i # j => spc'[i] = spc[i] /\ key'[i] = key[i]
    BY DEF Encrypt, UserInv, TypeOK
  <1>4. Pending' = Pending
    BY <1>1 DEF Pending, Pool!Held, Pool!At
  <1>5. PointsToAsker'
    BY <1>1, <1>4 DEF PointsToAsker
  <1>6. Progress'
    BY <1>1, <1>2, <1>3 DEF Progress
  <1>7. AnswersRight'
    BY <1>1 DEF AnswersRight, RightAddressee, KeyIsWhole, KeysFor, SecretKept, LengthKept, Answered
  <1>8. ASSUME j \in Pending \ (orphan \union stopped)
        PROVE  key'[j] \in KeysFor(j) /\ key'[j] # NoKey
    <2>1. PICK k \in Read(j, obj[ptr[j]].enc, Keys \ {NoKey}) : key' = [key EXCEPT ![j] = k]
      BY DEF Encrypt
    <2>2. k = obj[ptr[j]].enc /\ asker[j] \in Clients /\ ptr[j] = user[asker[j]]
      BY <1>8, <2>1, ReadsAsker
    <2>3. obj[ptr[j]].encrypted
      BY <1>2, <1>8 DEF ReadHolds, KeysFor
    <2>4. ptr[j] # Null
      BY <1>8 DEF PointsToAsker
    <2>5. k \in KeysFor(j)
      <3>1. CASE dpc = "key" /\ asker[j] = from
        <4>1. ptr[j] = du
          BY <2>2, <3>1 DEF UserInv, AtWork
        <4>2. j \in rekeyed
          BY <1>8, <2>3, <3>1, <4>1 DEF RekeyIsKnown, Of
        <4>3. k \in {asker[j], Torn}
          BY <2>2, <2>3, <2>4 DEF UserInv, KeyBeforeFlag
        <4>4. QED
          BY <4>2, <4>3 DEF KeysFor
      <3>2. CASE ~(dpc = "key" /\ asker[j] = from)
        BY <2>2, <2>3, <2>4, <3>2 DEF UserInv, KeyBeforeFlag, KeysFor
      <3>3. QED
        BY <3>1, <3>2
    <2>6. k # NoKey
      BY <2>2, <2>3, <2>4, SessionAssumption DEF UserInv, KeyBeforeFlag
    <2>7. QED
      BY <2>1, <2>5, <2>6 DEF UserInv, TypeOK
  <1>9. ReadHolds'
    BY <1>1, <1>2, <1>3, <1>4, <1>8, PendingType DEF ReadHolds, KeysFor
  <1>10. QED
    BY <1>5, <1>6, <1>7, <1>9

\* Only SET_AES begins to write a key, and a request that is answered is no longer waiting.
LEMMA RekeyStep == UserInv /\ RekeyIsKnown /\ [Next]_vars => RekeyIsKnown'
  <1> SUFFICES ASSUME UserInv, RekeyIsKnown, [Next]_vars, dpc' = "key", (obj[du].encrypted)'
               PROVE  Of(du)' \subseteq rekeyed' \union stopped'
    BY DEF RekeyIsKnown
  <1>1. CASE HandleSetAes
    <2>1. Of(du)' = Of(du) /\ UNCHANGED <<stopped, du>>
      BY <1>1 DEF HandleSetAes, Of, Pending, Pool!Held, Pool!At, requests
    <2>2. obj[du].encrypted
      BY <1>1 DEF HandleSetAes, UserInv, AtWork, TypeOK, Object
    <2>3. QED
      BY <1>1, <2>1, <2>2 DEF HandleSetAes, Rekey
  <1>2. CASE UNCHANGED vars
    BY <1>2 DEF vars, users, requests, history, RekeyIsKnown, Of, Pending, Pool!Held, Pool!At
  <1>3. ASSUME NEW j \in Jobs, Start(j) \/ SendCode(j) \/ ReadFlag(j) \/ Encrypt(j) \/ SendData(j)
        PROVE  Of(du)' \subseteq rekeyed' \union stopped'
    <2>1. UNCHANGED <<obj, dpc, du, orphan, stopped, rekeyed>>
      BY <1>3 DEF Start, SendCode, SendData, Send, Finish, ReadFlag, Encrypt, users, history
    <2>2. Pending' \subseteq Pending
      BY <1>3 DEF Start, SendCode, SendData, Send, Finish, ReadFlag, Encrypt, requests,
         Pending, Pool!Held, Pool!At, Pool!Start, Pool!Finish, Pool!Move, UserInv, TypeOK
    <2>3. \A i \in Pending' : ptr'[i] = ptr[i]
      BY <1>3 DEF Start, SendCode, SendData, Send, Finish, ReadFlag, Encrypt, requests,
         Pending, Pool!Held, Pool!At, Pool!Finish, Pool!Move, UserInv, TypeOK
    <2>4. Of(du)' \subseteq Of(du)
      BY <2>1, <2>2, <2>3 DEF Of
    <2>5. QED
      BY <2>1, <2>4 DEF RekeyIsKnown
  <1>4. QED
    BY <1>1, <1>2, <1>3 DEF Next, Receive, HandleOther, HandleCrash, HandleLogin, KeyWritten,
       FlagSet, HandleStopEncryption, HandleLogout, HandlePath, Back

\* The answer is put together from what has been read, and is the last of the request.
LEMMA SendInv ==
    ASSUME RequestInv, NEW j \in Jobs, SendCode(j) \/ SendData(j)
    PROVE  PointsToAsker' /\ Progress' /\ ReadHolds' /\ AnswersRight'
  <1> USE DEF users, history, RequestInv
  <1>1. PICK data \in BOOLEAN : Send(j, data) /\ (data => spc[j] = "send")
    BY DEF SendCode, SendData
  <1>2. PICK to \in Read(j, obj[ptr[j]].of, Clients \union {Null}) :
            sent' = [sent EXCEPT ![j] = Message(j, to, data)]
    BY <1>1 DEF Send
  <1>3. UNCHANGED <<user, obj, asker, secret, orphan, stopped, rekeyed>>
    BY <1>1 DEF Send, Finish
  <1>4. /\ stage[j] = "running" /\ stage'[j] = "finished"
        /\ spc'[j] = "run" /\ key'[j] = NoKey
    BY <1>1 DEF Send, Finish, Pool!Finish, Pool!Move, UserInv, TypeOK
  <1>5. \A i \in Jobs : i # j => /\ stage'[i] = stage[i] /\ ptr'[i] = ptr[i]
                                /\ spc'[i] = spc[i] /\ key'[i] = key[i] /\ sent'[i] = sent[i]
    BY <1>1, <1>2 DEF Send, Finish, Pool!Finish, Pool!Move, UserInv, TypeOK
  <1>6. j \in Pending /\ Pending' = Pending \ {j}
    BY <1>4, <1>5 DEF Pending, Pool!Held, Pool!At
  <1>7. PointsToAsker'
    BY <1>3, <1>5, <1>6, PendingType DEF PointsToAsker
  <1>8. ReadHolds'
    BY <1>3, <1>5, <1>6, PendingType DEF ReadHolds, KeysFor
  <1>9. Progress'
    BY <1>3, <1>4, <1>5 DEF Progress
  <1>10. sent'[j] = Message(j, to, data)
    BY <1>2 DEF UserInv, TypeOK
  <1>11. /\ sent'[j].to = to /\ sent'[j].data = data /\ sent'[j].key = key[j]
         /\ sent'[j].len = IF ~data THEN 0
                           ELSE IF key[j] = NoKey THEN Length[j] ELSE Frame!Received(Length[j])
    BY <1>10 DEF Message
  <1>12. RightAddressee'
    <2>1. j \notin orphan => to = asker[j]
      <3> SUFFICES ASSUME j \notin orphan PROVE to = asker[j]
        OBVIOUS
      <3>1. to = obj[ptr[j]].of /\ asker[j] \in Clients /\ ptr[j] = user[asker[j]]
        BY <1>2, <1>6, ReadsAsker
      <3>2. ptr[j] # Null
        BY <1>6 DEF PointsToAsker
      <3>3. QED
        BY <3>1, <3>2 DEF UserInv, OwnObject
    <2>2. QED
      BY <1>3, <1>5, <1>11, <2>1 DEF AnswersRight, RightAddressee, Answered
  <1>13. KeyIsWhole'
    <2>1. j \notin orphan \union stopped => key[j] \in KeysFor(j)
      BY <1>6 DEF ReadHolds, KeysFor, Progress
    <2>2. QED
      BY <1>3, <1>5, <1>11, <2>1 DEF AnswersRight, KeyIsWhole, KeysFor, Answered
  <1>14. SecretKept'
    <2>1. j \in secret \ (orphan \union stopped) /\ data => key[j] # NoKey
      BY <1>1, <1>6 DEF ReadHolds, KeysFor
    <2>2. secret \subseteq Jobs
      BY DEF UserInv, TypeOK
    <2>3. QED
      BY <1>3, <1>5, <1>11, <2>1, <2>2 DEF AnswersRight, SecretKept, Answered
  <1>15. LengthKept'
    <2>1. Length[j] \in 0..Frame!MaxData
      BY SessionAssumption
    <2>2. /\ Frame!Received(Length[j]) =
                 IF Frame!LooksWhole(Length[j]) THEN Frame!Whole(Length[j]) ELSE Length[j]
          /\ Frame!Encrypted(Length[j]) <= Frame!Room
      BY <2>1, FrameLengths
    <2>3. QED
      BY <1>5, <1>11, <2>2 DEF AnswersRight, LengthKept, Answered
  <1>16. QED
    BY <1>7, <1>8, <1>9, <1>12, <1>13, <1>14, <1>15 DEF AnswersRight

\* Nothing is left after the program has ended.
LEMMA CrashInv ==
    ASSUME HandleCrash
    PROVE  PointsToAsker' /\ Progress' /\ ReadHolds' /\ AnswersRight'
  <1>1. /\ secret' = {}
        /\ \A j \in Jobs : /\ stage'[j] = "new" /\ sent'[j] = Null
                           /\ spc'[j] = "run" /\ key'[j] = NoKey
    BY DEF HandleCrash
  <1>2. Pending' = {}
    BY <1>1 DEF Pending, Pool!Held, Pool!At
  <1>3. PointsToAsker' /\ Progress' /\ ReadHolds'
    BY <1>1, <1>2 DEF PointsToAsker, Progress, ReadHolds, KeysFor
  <1>4. AnswersRight'
    BY <1>1 DEF AnswersRight, RightAddressee, KeyIsWhole, KeysFor, SecretKept, LengthKept, Answered
  <1>5. QED
    BY <1>3, <1>4

LEMMA RequestStep == RequestInv /\ [Next]_vars => RequestInv'
  <1> SUFFICES ASSUME RequestInv, [Next]_vars PROVE RequestInv'
    OBVIOUS
  <1>1. UserInv' /\ RekeyIsKnown'
    BY UserStep, RekeyStep DEF RequestInv
  <1>2. CASE \/ \E c \in Clients : Receive(c)
             \/ HandleLogin \/ HandleSetAes \/ KeyWritten \/ FlagSet
    <2>1. UsersKept
      BY <1>2, UsersAreKept DEF RequestInv
    <2>2. UNCHANGED <<requests, slaves, orphan, stopped>> /\ rekeyed \subseteq rekeyed'
      BY <1>2 DEF Receive, HandleLogin, HandleSetAes, Rekey, KeyWritten, FlagSet, history
    <2>3. QED
      BY <1>1, <2>1, <2>2, KeptInv DEF RequestInv
  <1>3. CASE HandleOther \/ UNCHANGED vars
    <2>1. UNCHANGED <<user, obj, requests, slaves, orphan, stopped, rekeyed>>
      BY <1>3 DEF HandleOther, vars, users, history
    <2>2. UsersKept
      BY <2>1 DEF UsersKept
    <2>3. QED
      BY <1>1, <2>1, <2>2, KeptInv DEF RequestInv
  <1>4. CASE HandleCrash
    BY <1>1, <1>4, CrashInv DEF RequestInv
  <1>5. CASE HandleStopEncryption
    BY <1>1, <1>5, StopEncryptionInv DEF RequestInv
  <1>6. CASE HandleLogout
    BY <1>1, <1>6, LogoutInv DEF RequestInv
  <1>7. ASSUME NEW j \in Jobs, HandlePath(j) PROVE RequestInv'
    BY <1>1, <1>7, PathInv DEF RequestInv
  <1>8. ASSUME NEW j \in Jobs, Start(j) PROVE RequestInv'
    BY <1>1, <1>8, StartInv DEF RequestInv
  <1>9. ASSUME NEW j \in Jobs, ReadFlag(j) PROVE RequestInv'
    BY <1>1, <1>9, ReadFlagInv DEF RequestInv
  <1>10. ASSUME NEW j \in Jobs, Encrypt(j) PROVE RequestInv'
    BY <1>1, <1>10, EncryptInv DEF RequestInv
  <1>11. ASSUME NEW j \in Jobs, SendCode(j) \/ SendData(j) PROVE RequestInv'
    BY <1>1, <1>11, SendInv DEF RequestInv
  <1>12. QED
    BY <1>2, <1>3, <1>4, <1>5, <1>6, <1>7, <1>8, <1>9, <1>10, <1>11 DEF Next

LEMMA AlwaysRequestInv == Spec => []RequestInv
  BY InitRequestInv, RequestStep, PTL DEF Spec

\* The answer to a request goes to the client that sent it, unless it has logged out
\* meanwhile: then the pointer of the request leads to freed memory.
THEOREM AnswersReachTheirAsker == Spec => []RightAddressee
  <1>1. RequestInv => RightAddressee
    BY DEF RequestInv, AnswersRight
  <1>2. QED
    BY <1>1, AlwaysRequestInv, PTL

\* No answer is encrypted with a key that is being written, though no lock keeps the
\* slaves from reading it then: the flag is set after the first key. Only a client that
\* sets another key over the one in use can meet a half of it, in the answers to the
\* requests it has waiting.
THEOREM KeysAreWhole == Spec => []KeyIsWhole
  <1>1. RequestInv => KeyIsWhole
    BY DEF RequestInv, AnswersRight
  <1>2. QED
    BY <1>1, AlwaysRequestInv, PTL

\* The data asked for after the client was told that encryption is on are never sent
\* in clear, unless the client stops the encryption or leaves.
THEOREM SecretsStaySecret == Spec => []SecretKept
  <1>1. RequestInv => SecretKept
    BY DEF RequestInv, AnswersRight
  <1>2. QED
    BY <1>1, AlwaysRequestInv, PTL

\* Encrypted data come back as long as they were, but for the lengths that look like
\* whole chunks, and fit into the buffer, whatever the lengths of the answers are.
THEOREM LengthsAreKept == Spec => []LengthKept
  <1>1. RequestInv => LengthKept
    BY DEF RequestInv, AnswersRight
  <1>2. QED
    BY <1>1, AlwaysRequestInv, PTL
=============================================================================
