--------------------------- MODULE RemoteProofs ----------------------------
(***************************************************************************)
(* Theorems about the servers, for any servers, clients and bots: the      *)
(* server manager (ServerManager), and what a server shares between its    *)
(* bots, the SnowLuma stack with its reference count (RemoteStack) and the *)
(* QQ tree with the entry both flavours write (QqTree).                    *)
(***************************************************************************)
EXTENDS ServerManager, RemoteStack, QqTree, FiniteSetTheorems, TLAPS

-----------------------------------------------------------------------------
(* The server manager.                                                     *)
(*                                                                         *)
(* What an operation has left to do is a sequence of steps.  The proofs    *)
(* need no more of it than which step may come after which.                *)

Steps == {"remember", "insert", "replace", "evict", "remove", "forget", "handshake",
          "handshaking", "authorize", "drop password", "rekey", "keep", "connect", "lock",
          "auto", "autoshaking", "cool", "warm", "unlock", "check", "probe",
          "Connected", "Disconnected", "Failed", "health"}

\* The steps of the automatic connect and of the live check.
LockSteps == {"connect", "lock", "auto", "autoshaking", "cool", "warm", "unlock", "check",
              "evict", "Connected", "Disconnected", "Failed", "health"}

Ops == DOMAIN Program
StepsOf(op) == IF op \in SharesLock THEN LockSteps ELSE Steps

\* Step b may come right after step a in what an operation has left to do.
MayFollow(op, a, b) ==
    /\ b \notin {"handshaking", "auto", "autoshaking"}
    /\ b = "Disconnected" => a = "evict"
    /\ b = "Connected" => a = "keep"
    /\ b = "keep" => a = "rekey"
    /\ b = "rekey" => a = "drop password"
    /\ b = "drop password" => a = "authorize"
    /\ a = "replace" => b = "evict"
    /\ a = "remove" => b = "forget"
    /\ a = "keep" => b = "Connected"
    /\ op \in SharesLock => b # "evict"

Binding == {"replace", "remove", "keep"}

Shape(op, q) ==
    /\ q \in Seq(StepsOf(op))
    /\ \A i \in 1 .. Len(q) - 1 : MayFollow(op, q[i], q[i + 1])
    /\ q # <<>> => q[Len(q)] \notin Binding

Profiles == [state : ServerState, auth : {"none", "password", "key"}]
NoCopy == <<>>
Records == [op : Ops \cup {"none"}, id : Servers \cup {NoClient}, todo : Seq(Steps),
            phase : {"next", "loaded", "open"}, copy : {NoCopy} \cup [Servers -> Profiles],
            shared : BOOLEAN]

Types ==
    /\ profiles \in [Servers -> Profiles]
    /\ torn \in BOOLEAN /\ clobbered \in BOOLEAN /\ saveErrors \in Nat
    /\ passwords \subseteq Servers /\ cooling \subseteq Servers /\ crossed \subseteq Servers
    /\ hosts \in [Servers -> {"none", "alive", "dead"}]
    /\ flight \in [Servers -> Clients \cup {NoClient}]
    /\ client \in [Clients -> Records]

HeadIn(q, steps) == q # <<>> /\ Head(q) \in steps
At(c, steps) == HeadIn(client[c].todo, steps)

\* An operation has a server and a list of steps, and what is loaded is edited.
Sound(r) ==
    /\ r # Idle => r.op \in Ops /\ r.id \in Servers
    /\ Shape(r.op, r.todo)
    /\ r.phase # "next" => HeadIn(r.todo, Edits) /\ r.copy \in [Servers -> Profiles]
    /\ r.phase # "open" => ~r.shared
ClientsAreSound == \A c \in Clients : Sound(client[c])

\* Operations on one server are automatic connects and live checks, or alone.
OthersShare ==
    \A s \in Servers \ crossed : \A c, d \in Clients :
        (c # d /\ client[c].id = s /\ client[d].id = s) => {client[c].op, client[d].op} \subseteq SharesLock

\* The steps done under the connect lock: by every operation, and by those
\* that are not alone with their server.
LockIsHeld ==
    \A s \in Servers \ crossed : \A c \in Clients :
        client[c].id = s =>
            /\ At(c, {"auto", "autoshaking"}) => flight[s] = c
            /\ At(c, {"evict", "Disconnected"}) /\ client[c].op \in SharesLock => flight[s] = c

\* One rewrite of the file at a time, on a copy that is not stale.
OneRewrite ==
    ~clobbered =>
        /\ \A c, d \in Clients : Rewriting(c) /\ Rewriting(d) => c = d
        /\ torn => \E c \in Clients : client[c].phase = "open"
        /\ \A c \in Clients : Rewriting(c) => ~client[c].shared
        /\ \A c \in Clients : client[c].phase = "loaded" => client[c].copy = profiles /\ ~torn
        /\ \A c \in Clients : client[c].phase = "open" =>
              LET edit == Head(client[c].todo)
                  id == client[c].id
              IN /\ client[c].copy = [profiles EXCEPT ![id] = Edited(edit, profiles[id])]
                 /\ edit = "insert" <=> profiles[id] = NoServer

Quiet(s) == ~clobbered /\ s \notin crossed /\ saveErrors = 0

\* A server that is connected to, or is to be marked Connected, is in the file.
TargetIsThere ==
    \A s \in Servers : Quiet(s) => \A c \in Clients :
        (client[c].id = s /\ At(c, {"handshaking", "autoshaking", "drop password", "rekey", "keep", "Connected"}))
            => profiles[s] # NoServer

\* A server is marked Disconnected while it has no cached connection.
MarkedIsGone ==
    \A s \in Servers : Quiet(s) => \A c \in Clients :
        client[c].id = s /\ At(c, {"Disconnected"}) => hosts[s] = "none"

\* A cached connection the profile does not tell of is about to be told of or
\* to be dropped.
HostIsMended ==
    \A s \in Servers : Quiet(s) /\ hosts[s] # "none" /\ profiles[s].state \notin {"Connected", "Failed"} =>
        \E c \in Clients : client[c].id = s /\ At(c, {"evict", "forget", "Connected"})

ServerInv == /\ Types /\ ClientsAreSound /\ OthersShare /\ LockIsHeld /\ OneRewrite
             /\ TargetIsThere /\ MarkedIsGone /\ HostIsMended

-----------------------------------------------------------------------------
(* Lists of steps.                                                         *)

\* Steps that what may come after them may come after each other.
Free == Steps \ {"replace", "remove", "keep", "evict", "rekey", "drop password", "authorize"}

LEMMA StepFacts ==
    /\ LockSteps \subseteq Steps /\ Edits \subseteq Steps /\ Free \subseteq Steps
    /\ \A op : StepsOf(op) \subseteq Steps
BY DEF LockSteps, Steps, Edits, Free, StepsOf

LEMMA ShapeIsSeq ==
    ASSUME NEW op, NEW q, Shape(op, q)
    PROVE  q \in Seq(Steps) /\ q \in Seq(StepsOf(op))
<1>1. q \in Seq(StepsOf(op))
  BY DEF Shape
<1> QED
  BY <1>1, StepFacts

LEMMA TailShape ==
    ASSUME NEW op, NEW q, Shape(op, q), q # <<>>
    PROVE  /\ Shape(op, Tail(q)) /\ Head(q) \in StepsOf(op)
           /\ Tail(q) # <<>> => MayFollow(op, Head(q), Head(Tail(q)))
           /\ Tail(q) = <<>> => Head(q) \notin Binding
<1>1. q \in Seq(StepsOf(op)) /\ Len(q) \in Nat \ {0}
  BY DEF Shape
<1>2. /\ Tail(q) \in Seq(StepsOf(op)) /\ Len(Tail(q)) = Len(q) - 1
      /\ \A i \in 1 .. Len(q) - 1 : Tail(q)[i] = q[i + 1]
  BY <1>1
<1>3. \A i \in 1 .. Len(Tail(q)) - 1 : MayFollow(op, Tail(q)[i], Tail(q)[i + 1])
  <2> SUFFICES ASSUME NEW i \in 1 .. Len(Tail(q)) - 1
               PROVE  MayFollow(op, Tail(q)[i], Tail(q)[i + 1])
    OBVIOUS
  <2>1. i + 1 \in 1 .. Len(q) - 1 /\ i \in 1 .. Len(q) - 1
    BY <1>1, <1>2
  <2>2. Tail(q)[i] = q[i + 1] /\ Tail(q)[i + 1] = q[(i + 1) + 1]
    BY <1>2, <2>1
  <2>3. MayFollow(op, q[i + 1], q[(i + 1) + 1])
    BY <2>1 DEF Shape
  <2> QED
    BY <2>2, <2>3
<1>4. Tail(q) # <<>> => Tail(q)[Len(Tail(q))] = q[Len(q)]
  BY <1>1, <1>2
<1>5. q[Len(q)] \notin Binding
  BY DEF Shape
<1>6. Shape(op, Tail(q))
  BY <1>2, <1>3, <1>4, <1>5 DEF Shape
<1>7. Head(q) \in StepsOf(op) /\ Head(q) = q[1]
  BY <1>1
<1>8. ASSUME Tail(q) # <<>> PROVE MayFollow(op, Head(q), Head(Tail(q)))
  <2>1. Len(q) - 1 >= 1 /\ Head(Tail(q)) = q[1 + 1]
    BY <1>1, <1>2, <1>8
  <2>2. 1 \in 1 .. Len(q) - 1
    BY <1>1, <2>1
  <2>3. MayFollow(op, q[1], q[1 + 1])
    BY <2>2 DEF Shape
  <2> QED
    BY <1>7, <2>1, <2>3
<1>9. ASSUME Tail(q) = <<>> PROVE Head(q) \notin Binding
  <2>1. Len(q) = 1
    BY <1>1, <1>2, <1>9
  <2> QED
    BY <1>5, <1>7, <2>1
<1> QED
  BY <1>6, <1>7, <1>8, <1>9

LEMMA JoinShape ==
    ASSUME NEW op, NEW p, NEW q, Shape(op, p), Shape(op, q), p # <<>>,
           q # <<>> => MayFollow(op, p[Len(p)], Head(q))
    PROVE  Shape(op, p \o q) /\ p \o q # <<>> /\ Head(p \o q) = Head(p)
<1> DEFINE r == p \o q
<1>1. p \in Seq(StepsOf(op)) /\ q \in Seq(StepsOf(op)) /\ Len(p) \in Nat \ {0} /\ Len(q) \in Nat
  BY DEF Shape
<1>2. /\ r \in Seq(StepsOf(op)) /\ Len(r) = Len(p) + Len(q)
      /\ \A i \in 1 .. Len(p) : r[i] = p[i]
      /\ \A i \in 1 .. Len(q) : r[Len(p) + i] = q[i]
  BY <1>1
<1>a. q # <<>> => Head(q) = q[1]
  BY <1>1
<1> HIDE DEF r
<1>3. \A i \in 1 .. Len(r) - 1 : MayFollow(op, r[i], r[i + 1])
  <2> SUFFICES ASSUME NEW i \in 1 .. Len(r) - 1 PROVE MayFollow(op, r[i], r[i + 1])
    OBVIOUS
  <2>1. CASE i < Len(p)
    <3>1. i \in 1 .. Len(p) - 1 /\ i \in 1 .. Len(p) /\ i + 1 \in 1 .. Len(p)
      BY <1>1, <2>1
    <3>2. r[i] = p[i] /\ r[i + 1] = p[i + 1]
      BY <1>2, <3>1
    <3>3. MayFollow(op, p[i], p[i + 1])
      BY <3>1 DEF Shape
    <3> QED
      BY <3>2, <3>3
  <2>2. CASE i = Len(p)
    <3>1. Len(q) >= 1 /\ q # <<>>
      BY <1>1, <1>2, <2>2
    <3>2. r[i] = p[Len(p)] /\ r[i + 1] = q[1]
      BY <1>1, <1>2, <2>2, <3>1
    <3> QED
      BY <1>a, <3>1, <3>2
  <2>3. CASE i > Len(p)
    <3>1. i - Len(p) \in 1 .. Len(q) - 1 /\ i - Len(p) \in 1 .. Len(q) /\ (i - Len(p)) + 1 \in 1 .. Len(q)
      BY <1>1, <1>2, <2>3
    <3>2. r[Len(p) + (i - Len(p))] = q[i - Len(p)] /\ r[Len(p) + ((i - Len(p)) + 1)] = q[(i - Len(p)) + 1]
      BY <1>2, <3>1
    <3>3. Len(p) + (i - Len(p)) = i /\ Len(p) + ((i - Len(p)) + 1) = i + 1
      BY <1>1
    <3>4. MayFollow(op, q[i - Len(p)], q[(i - Len(p)) + 1])
      BY <3>1 DEF Shape
    <3> QED
      BY <3>2, <3>3, <3>4
  <2> QED
    BY <1>1, <1>2, <2>1, <2>2, <2>3
<1>4. r # <<>> /\ Head(r) = r[1] /\ r[1] = p[1] /\ Head(p) = p[1]
  BY <1>1, <1>2
<1>5. r[Len(r)] \notin Binding
  <2>1. CASE q = <<>>
    <3>1. Len(r) = Len(p) /\ Len(p) \in 1 .. Len(p)
      BY <1>1, <1>2, <2>1
    <3> QED
      BY <1>2, <3>1 DEF Shape
  <2>2. CASE q # <<>>
    <3>1. Len(q) \in 1 .. Len(q)
      BY <1>1, <2>2
    <3> QED
      BY <1>2, <2>2, <3>1 DEF Shape
  <2> QED
    BY <2>1, <2>2
<1>6. Shape(op, r)
  BY <1>2, <1>3, <1>5 DEF Shape
<1> QED
  BY <1>4, <1>6 DEF r

\* A step replaced by others of its kind.
LEMMA ReplacedShape ==
    ASSUME NEW op, NEW p, NEW q, Shape(op, q), q # <<>>, Head(q) \in Free,
           Shape(op, p), p # <<>>, p[Len(p)] \in Free
    PROVE  Shape(op, p \o Tail(q)) /\ p \o Tail(q) # <<>> /\ Head(p \o Tail(q)) = Head(p)
<1>1. /\ Shape(op, Tail(q))
      /\ Tail(q) # <<>> => MayFollow(op, Head(q), Head(Tail(q)))
  BY TailShape
<1>2. Tail(q) # <<>> => MayFollow(op, p[Len(p)], Head(Tail(q)))
  BY <1>1 DEF MayFollow, Free
<1> QED
  BY <1>1, <1>2, JoinShape

LEMMA Lists ==
    ASSUME NEW op
    PROVE  /\ Shape(op, <<>>)
           /\ Shape(op, <<"lock">>) /\ Shape(op, <<"auto">>)
           /\ Shape(op, <<"autoshaking">>) /\ Shape(op, <<"cool">>)
           /\ Shape(op, <<"Connected", "health">>) /\ Shape(op, <<"Failed", "health">>)
           /\ Shape(op, <<"warm", "unlock">>) /\ Shape(op, <<"health", "unlock">>)
           /\ Shape(op, <<"evict", "Disconnected", "health">>)
           /\ Shape(op, <<"evict", "Disconnected", "health", "unlock">>)
           /\ op \notin SharesLock => Shape(op, <<"handshaking">>)
<1>0. LockSteps \subseteq StepsOf(op) /\ (op \notin SharesLock => "handshaking" \in StepsOf(op))
  BY DEF StepsOf, LockSteps, Steps
<1>8. Shape(op, <<>>)
  BY DEF Shape
<1>9. ASSUME NEW a \in StepsOf(op) \ Binding PROVE Shape(op, <<a>>)
  <2> DEFINE q == <<a>>
  <2>1. q \in Seq(StepsOf(op)) /\ Len(q) = 1 /\ q[1] \notin Binding
    OBVIOUS
  <2> HIDE DEF q
  <2>2. Shape(op, q)
    BY <2>1 DEF Shape
  <2> QED
    BY <2>2 DEF q
<1>10. {"lock", "auto", "autoshaking", "cool"} \subseteq StepsOf(op) \ Binding
  BY <1>0 DEF LockSteps, Binding
<1>11. op \notin SharesLock => "handshaking" \in StepsOf(op) \ Binding
  BY <1>0 DEF Binding
<1>2. Shape(op, <<"Connected", "health">>)
  <2> DEFINE q == <<"Connected", "health">>
  <2>a. "Connected" \in StepsOf(op)
    BY <1>0 DEF LockSteps
  <2>b. "health" \in StepsOf(op)
    BY <1>0 DEF LockSteps
  <2>1. q \in Seq(StepsOf(op)) /\ Len(q) = 2
    BY <2>a, <2>b
  <2>2. MayFollow(op, q[1], q[1 + 1])
    BY DEF MayFollow
  <2>3. q # <<>> /\ q[2] \notin Binding
    BY DEF Binding
  <2> HIDE DEF q
  <2>4. \A i \in 1 .. Len(q) - 1 : i = 1
    BY <2>1
  <2>5. Shape(op, q)
    BY <2>1, <2>2, <2>3, <2>4 DEF Shape
  <2> QED
    BY <2>5 DEF q
<1>3. Shape(op, <<"Failed", "health">>)
  <2> DEFINE q == <<"Failed", "health">>
  <2>a. "Failed" \in StepsOf(op)
    BY <1>0 DEF LockSteps
  <2>b. "health" \in StepsOf(op)
    BY <1>0 DEF LockSteps
  <2>1. q \in Seq(StepsOf(op)) /\ Len(q) = 2
    BY <2>a, <2>b
  <2>2. MayFollow(op, q[1], q[1 + 1])
    BY DEF MayFollow
  <2>3. q # <<>> /\ q[2] \notin Binding
    BY DEF Binding
  <2> HIDE DEF q
  <2>4. \A i \in 1 .. Len(q) - 1 : i = 1
    BY <2>1
  <2>5. Shape(op, q)
    BY <2>1, <2>2, <2>3, <2>4 DEF Shape
  <2> QED
    BY <2>5 DEF q
<1>4. Shape(op, <<"warm", "unlock">>)
  <2> DEFINE q == <<"warm", "unlock">>
  <2>a. "warm" \in StepsOf(op)
    BY <1>0 DEF LockSteps
  <2>b. "unlock" \in StepsOf(op)
    BY <1>0 DEF LockSteps
  <2>1. q \in Seq(StepsOf(op)) /\ Len(q) = 2
    BY <2>a, <2>b
  <2>2. MayFollow(op, q[1], q[1 + 1])
    BY DEF MayFollow
  <2>3. q # <<>> /\ q[2] \notin Binding
    BY DEF Binding
  <2> HIDE DEF q
  <2>4. \A i \in 1 .. Len(q) - 1 : i = 1
    BY <2>1
  <2>5. Shape(op, q)
    BY <2>1, <2>2, <2>3, <2>4 DEF Shape
  <2> QED
    BY <2>5 DEF q
<1>5. Shape(op, <<"health", "unlock">>)
  <2> DEFINE q == <<"health", "unlock">>
  <2>a. "health" \in StepsOf(op)
    BY <1>0 DEF LockSteps
  <2>b. "unlock" \in StepsOf(op)
    BY <1>0 DEF LockSteps
  <2>1. q \in Seq(StepsOf(op)) /\ Len(q) = 2
    BY <2>a, <2>b
  <2>2. MayFollow(op, q[1], q[1 + 1])
    BY DEF MayFollow
  <2>3. q # <<>> /\ q[2] \notin Binding
    BY DEF Binding
  <2> HIDE DEF q
  <2>4. \A i \in 1 .. Len(q) - 1 : i = 1
    BY <2>1
  <2>5. Shape(op, q)
    BY <2>1, <2>2, <2>3, <2>4 DEF Shape
  <2> QED
    BY <2>5 DEF q
<1>6. Shape(op, <<"evict", "Disconnected", "health">>)
  <2> DEFINE q == <<"evict", "Disconnected", "health">>
  <2>a. "evict" \in StepsOf(op)
    BY <1>0 DEF LockSteps
  <2>b. "Disconnected" \in StepsOf(op)
    BY <1>0 DEF LockSteps
  <2>c. "health" \in StepsOf(op)
    BY <1>0 DEF LockSteps
  <2>1. q \in Seq(StepsOf(op)) /\ Len(q) = 3
    BY <2>a, <2>b, <2>c
  <2>2. MayFollow(op, q[1], q[1 + 1])
    BY DEF MayFollow
  <2>3. MayFollow(op, q[2], q[2 + 1])
    BY DEF MayFollow
  <2>4. q # <<>> /\ q[3] \notin Binding
    BY DEF Binding
  <2> HIDE DEF q
  <2>5. \A i \in 1 .. Len(q) - 1 : i = 1 \/ i = 2
    BY <2>1
  <2>6. Shape(op, q)
    BY <2>1, <2>2, <2>3, <2>4, <2>5 DEF Shape
  <2> QED
    BY <2>6 DEF q
<1>7. Shape(op, <<"evict", "Disconnected", "health", "unlock">>)
  <2> DEFINE q == <<"evict", "Disconnected", "health", "unlock">>
  <2>a. "evict" \in StepsOf(op)
    BY <1>0 DEF LockSteps
  <2>b. "Disconnected" \in StepsOf(op)
    BY <1>0 DEF LockSteps
  <2>c. "health" \in StepsOf(op)
    BY <1>0 DEF LockSteps
  <2>d. "unlock" \in StepsOf(op)
    BY <1>0 DEF LockSteps
  <2>1. q \in Seq(StepsOf(op)) /\ Len(q) = 4
    BY <2>a, <2>b, <2>c, <2>d
  <2>2. MayFollow(op, q[1], q[1 + 1])
    BY DEF MayFollow
  <2>3. MayFollow(op, q[2], q[2 + 1])
    BY DEF MayFollow
  <2>4. MayFollow(op, q[3], q[3 + 1])
    BY DEF MayFollow
  <2>5. q # <<>> /\ q[4] \notin Binding
    BY DEF Binding
  <2> HIDE DEF q
  <2>6. \A i \in 1 .. Len(q) - 1 : i = 1 \/ i = 2 \/ i = 3
    BY <2>1
  <2>7. Shape(op, q)
    BY <2>1, <2>2, <2>3, <2>4, <2>5, <2>6 DEF Shape
  <2> QED
    BY <2>7 DEF q
<1> QED
  BY <1>2, <1>3, <1>4, <1>5, <1>6, <1>7, <1>8, <1>9, <1>10, <1>11

LEMMA Programs == \A op \in Ops : Shape(op, Program[op])
<1>1. Shape("add", Program["add"])
  <2> DEFINE q == <<"remember", "insert">>
  <2>0. Program["add"] = q
    BY DEF Program
  <2>1. q \in Seq(StepsOf("add")) /\ Len(q) = 2
    BY DEF StepsOf, Steps, LockSteps, SharesLock
  <2>2. MayFollow("add", q[1], q[1 + 1])
    BY DEF MayFollow, SharesLock
  <2>3. q # <<>> /\ q[2] \notin Binding
    BY DEF Binding
  <2> HIDE DEF q
  <2>4. \A i \in 1 .. Len(q) - 1 : i = 1
    BY <2>1
  <2>5. Shape("add", q)
    BY <2>1, <2>2, <2>3, <2>4 DEF Shape
  <2> QED
    BY <2>0, <2>5 DEF q
<1>2. Shape("update", Program["update"])
  <2> DEFINE q == <<"replace", "evict", "Disconnected">>
  <2>0. Program["update"] = q
    BY DEF Program
  <2>1. q \in Seq(StepsOf("update")) /\ Len(q) = 3
    BY DEF StepsOf, Steps, LockSteps, SharesLock
  <2>2. MayFollow("update", q[1], q[1 + 1])
    BY DEF MayFollow, SharesLock
  <2>3. MayFollow("update", q[2], q[2 + 1])
    BY DEF MayFollow, SharesLock
  <2>4. q # <<>> /\ q[3] \notin Binding
    BY DEF Binding
  <2> HIDE DEF q
  <2>5. \A i \in 1 .. Len(q) - 1 : i = 1 \/ i = 2
    BY <2>1
  <2>6. Shape("update", q)
    BY <2>1, <2>2, <2>3, <2>4, <2>5 DEF Shape
  <2> QED
    BY <2>0, <2>6 DEF q
<1>3. Shape("password", Program["password"])
  <2> DEFINE q == <<"replace", "evict", "Disconnected", "connect">>
  <2>0. Program["password"] = q
    BY DEF Program
  <2>1. q \in Seq(StepsOf("password")) /\ Len(q) = 4
    BY DEF StepsOf, Steps, LockSteps, SharesLock
  <2>2. MayFollow("password", q[1], q[1 + 1])
    BY DEF MayFollow, SharesLock
  <2>3. MayFollow("password", q[2], q[2 + 1])
    BY DEF MayFollow, SharesLock
  <2>4. MayFollow("password", q[3], q[3 + 1])
    BY DEF MayFollow, SharesLock
  <2>5. q # <<>> /\ q[4] \notin Binding
    BY DEF Binding
  <2> HIDE DEF q
  <2>6. \A i \in 1 .. Len(q) - 1 : i = 1 \/ i = 2 \/ i = 3
    BY <2>1
  <2>7. Shape("password", q)
    BY <2>1, <2>2, <2>3, <2>4, <2>5, <2>6 DEF Shape
  <2> QED
    BY <2>0, <2>7 DEF q
<1>4. Shape("delete", Program["delete"])
  <2> DEFINE q == <<"remove", "forget">>
  <2>0. Program["delete"] = q
    BY DEF Program
  <2>1. q \in Seq(StepsOf("delete")) /\ Len(q) = 2
    BY DEF StepsOf, Steps, LockSteps, SharesLock
  <2>2. MayFollow("delete", q[1], q[1 + 1])
    BY DEF MayFollow, SharesLock
  <2>3. q # <<>> /\ q[2] \notin Binding
    BY DEF Binding
  <2> HIDE DEF q
  <2>4. \A i \in 1 .. Len(q) - 1 : i = 1
    BY <2>1
  <2>5. Shape("delete", q)
    BY <2>1, <2>2, <2>3, <2>4 DEF Shape
  <2> QED
    BY <2>0, <2>5 DEF q
<1>5. Shape("test", Program["test"])
  <2> DEFINE q == <<"handshake">>
  <2>0. Program["test"] = q
    BY DEF Program
  <2>1. q \in Seq(StepsOf("test")) /\ Len(q) = 1
    BY DEF StepsOf, Steps, LockSteps, SharesLock
  <2>2. q # <<>> /\ q[1] \notin Binding
    BY DEF Binding
  <2> HIDE DEF q
  <2>3. \A i \in 1 .. Len(q) - 1 : FALSE
    BY <2>1
  <2>4. Shape("test", q)
    BY <2>1, <2>2, <2>3 DEF Shape
  <2> QED
    BY <2>0, <2>4 DEF q
<1>6. Shape("setup", Program["setup"])
  <2> DEFINE q == <<"authorize", "drop password", "rekey", "keep", "Connected">>
  <2>0. Program["setup"] = q
    BY DEF Program
  <2>1. q \in Seq(StepsOf("setup")) /\ Len(q) = 5
    BY DEF StepsOf, Steps, LockSteps, SharesLock
  <2>2. MayFollow("setup", q[1], q[1 + 1])
    BY DEF MayFollow, SharesLock
  <2>3. MayFollow("setup", q[2], q[2 + 1])
    BY DEF MayFollow, SharesLock
  <2>4. MayFollow("setup", q[3], q[3 + 1])
    BY DEF MayFollow, SharesLock
  <2>5. MayFollow("setup", q[4], q[4 + 1])
    BY DEF MayFollow, SharesLock
  <2>6. q # <<>> /\ q[5] \notin Binding
    BY DEF Binding
  <2> HIDE DEF q
  <2>7. \A i \in 1 .. Len(q) - 1 : i = 1 \/ i = 2 \/ i = 3 \/ i = 4
    BY <2>1
  <2>8. Shape("setup", q)
    BY <2>1, <2>2, <2>3, <2>4, <2>5, <2>6, <2>7 DEF Shape
  <2> QED
    BY <2>0, <2>8 DEF q
<1>7. Shape("ensure", Program["ensure"])
  <2> DEFINE q == <<"connect">>
  <2>0. Program["ensure"] = q
    BY DEF Program
  <2>1. q \in Seq(StepsOf("ensure")) /\ Len(q) = 1
    BY DEF StepsOf, Steps, LockSteps, SharesLock
  <2>2. q # <<>> /\ q[1] \notin Binding
    BY DEF Binding
  <2> HIDE DEF q
  <2>3. \A i \in 1 .. Len(q) - 1 : FALSE
    BY <2>1
  <2>4. Shape("ensure", q)
    BY <2>1, <2>2, <2>3 DEF Shape
  <2> QED
    BY <2>0, <2>4 DEF q
<1>8. Shape("live", Program["live"])
  <2> DEFINE q == <<"check", "connect">>
  <2>0. Program["live"] = q
    BY DEF Program
  <2>1. q \in Seq(StepsOf("live")) /\ Len(q) = 2
    BY DEF StepsOf, Steps, LockSteps, SharesLock
  <2>2. MayFollow("live", q[1], q[1 + 1])
    BY DEF MayFollow, SharesLock
  <2>3. q # <<>> /\ q[2] \notin Binding
    BY DEF Binding
  <2> HIDE DEF q
  <2>4. \A i \in 1 .. Len(q) - 1 : i = 1
    BY <2>1
  <2>5. Shape("live", q)
    BY <2>1, <2>2, <2>3, <2>4 DEF Shape
  <2> QED
    BY <2>0, <2>5 DEF q
<1>9. Shape("refresh", Program["refresh"])
  <2> DEFINE q == <<"evict", "connect", "health">>
  <2>0. Program["refresh"] = q
    BY DEF Program
  <2>1. q \in Seq(StepsOf("refresh")) /\ Len(q) = 3
    BY DEF StepsOf, Steps, LockSteps, SharesLock
  <2>2. MayFollow("refresh", q[1], q[1 + 1])
    BY DEF MayFollow, SharesLock
  <2>3. MayFollow("refresh", q[2], q[2 + 1])
    BY DEF MayFollow, SharesLock
  <2>4. q # <<>> /\ q[3] \notin Binding
    BY DEF Binding
  <2> HIDE DEF q
  <2>5. \A i \in 1 .. Len(q) - 1 : i = 1 \/ i = 2
    BY <2>1
  <2>6. Shape("refresh", q)
    BY <2>1, <2>2, <2>3, <2>4, <2>5 DEF Shape
  <2> QED
    BY <2>0, <2>6 DEF q
<1>10. Shape("mark", Program["mark"])
  <2> DEFINE q == <<"evict", "Disconnected", "health">>
  <2>0. Program["mark"] = q
    BY DEF Program
  <2>1. q \in Seq(StepsOf("mark")) /\ Len(q) = 3
    BY DEF StepsOf, Steps, LockSteps, SharesLock
  <2>2. MayFollow("mark", q[1], q[1 + 1])
    BY DEF MayFollow, SharesLock
  <2>3. MayFollow("mark", q[2], q[2 + 1])
    BY DEF MayFollow, SharesLock
  <2>4. q # <<>> /\ q[3] \notin Binding
    BY DEF Binding
  <2> HIDE DEF q
  <2>5. \A i \in 1 .. Len(q) - 1 : i = 1 \/ i = 2
    BY <2>1
  <2>6. Shape("mark", q)
    BY <2>1, <2>2, <2>3, <2>4, <2>5 DEF Shape
  <2> QED
    BY <2>0, <2>6 DEF q
<1>11. Shape("walk", Program["walk"])
  <2> DEFINE q == <<"probe">>
  <2>0. Program["walk"] = q
    BY DEF Program
  <2>1. q \in Seq(StepsOf("walk")) /\ Len(q) = 1
    BY DEF StepsOf, Steps, LockSteps, SharesLock
  <2>2. q # <<>> /\ q[1] \notin Binding
    BY DEF Binding
  <2> HIDE DEF q
  <2>3. \A i \in 1 .. Len(q) - 1 : FALSE
    BY <2>1
  <2>4. Shape("walk", q)
    BY <2>1, <2>2, <2>3 DEF Shape
  <2> QED
    BY <2>0, <2>4 DEF q
<1> QED
  BY <1>1, <1>2, <1>3, <1>4, <1>5, <1>6, <1>7, <1>8, <1>9, <1>10, <1>11 DEF Ops, Program

-----------------------------------------------------------------------------
(* One step of one operation.                                              *)

\* The records of a task that goes on with the same operation, and of one
\* that has returned.
GoesOnAs(c, r) == /\ r.op = client[c].op /\ r.id = client[c].id
                  /\ r.phase = "next" /\ Shape(r.op, r.todo) /\ r.shared = client[c].shared

LEMMA IdleFacts ==
    /\ Idle \in Records /\ Sound(Idle) /\ Idle.todo = <<>> /\ Idle.phase = "next"
    /\ Idle.op = "none" /\ Idle.id = NoClient /\ NoClient \notin Servers /\ NoClient \notin Clients
BY Lists, NobodyAssumption DEF Idle, Records, Sound, Shape, NoCopy

LEMMA ClientFacts ==
    ASSUME ServerInv, NEW c \in Clients
    PROVE  client[c] \in Records /\ Sound(client[c])
BY DEF ServerInv, Types, ClientsAreSound

LEMMA LiftedStep ==
    ASSUME ServerInv, NEW c \in Clients, NEW r \in Records, client' = [client EXCEPT ![c] = r]
    PROVE  client'[c] = r /\ \A d \in Clients \ {c} : client'[d] = client[d]
BY DEF ServerInv, Types

LEMMA SharingStays ==
    ASSUME ServerInv, NEW c \in Clients, NEW r \in Records, client' = [client EXCEPT ![c] = r],
           r = Idle \/ (r.op = client[c].op /\ r.id = client[c].id),
           crossed \subseteq crossed'
    PROVE  OthersShare'
<1>1. \A d \in Clients : client'[d] = Idle \/ (client'[d].op = client[d].op /\ client'[d].id = client[d].id)
  BY LiftedStep
<1>2. \A d \in Clients : client'[d].id \in Servers => (client'[d].op = client[d].op /\ client'[d].id = client[d].id)
  BY <1>1, IdleFacts
<1> QED
  BY <1>2 DEF OthersShare, ServerInv

\* A step that neither loads nor writes leaves the rewrites alone.
LEMMA RewritesStay ==
    ASSUME ServerInv, NEW c \in Clients, NEW r \in Records, client' = [client EXCEPT ![c] = r],
           client[c].phase = "next", r.phase = "next",
           UNCHANGED <<profiles, torn, clobbered>>
    PROVE  OneRewrite'
<1>1. client'[c].phase = "next" /\ \A d \in Clients \ {c} : client'[d] = client[d]
  BY LiftedStep
<1>2. \A d \in Clients : \/ client'[d] = client[d]
                         \/ client'[d].phase = "next" /\ client[d].phase = "next"
  BY <1>1
<1> SUFFICES ASSUME ~clobbered PROVE OneRewrite'
  BY DEF OneRewrite
<1>3. \A d, e \in Clients : Rewriting(d)' /\ Rewriting(e)' => d = e
  BY <1>2 DEF Rewriting, OneRewrite, ServerInv
<1>4. torn' => \E d \in Clients : client'[d].phase = "open"
  BY <1>2 DEF OneRewrite, ServerInv
<1>5. \A d \in Clients : Rewriting(d)' => ~client'[d].shared
  BY <1>2 DEF Rewriting, OneRewrite, ServerInv
<1>6. \A d \in Clients : client'[d].phase = "loaded" => client'[d].copy = profiles' /\ ~torn'
  BY <1>2 DEF OneRewrite, ServerInv
<1>7. \A d \in Clients : client'[d].phase = "open" => client'[d] = client[d] /\ profiles' = profiles
  BY <1>2
<1> QED
  BY <1>3, <1>4, <1>5, <1>6, <1>7 DEF OneRewrite, ServerInv

LEMMA QuietStays ==
    ASSUME UNCHANGED <<saveErrors, clobbered, crossed>>, NEW s
    PROVE  Quiet(s)' <=> Quiet(s)
BY DEF Quiet

FrameVars == <<profiles, torn, saveErrors, clobbered, crossed>>

\* What others hold on the lock of a server, an operation leaves to them.
LocksStay(c) ==
    /\ flight' \in [Servers -> Clients \cup {NoClient}]
    /\ \A t \in Servers \ crossed : \A d \in Clients \ {c} :
          (client[d].id = t /\ flight[t] = d) => flight'[t] = d

Settled == {"handshaking", "autoshaking", "drop password", "rekey", "keep", "Connected"}

\* The step begun next on server s has what it stands for: the lock, the server
\* in the file, no cached connection it would mark Disconnected.
NextIsReady(c, r, s) ==
    /\ (s \notin crossed /\ HeadIn(r.todo, {"auto", "autoshaking"})) => flight'[s] = c
    /\ (s \notin crossed /\ HeadIn(r.todo, {"evict", "Disconnected"}) /\ r.op \in SharesLock)
          => flight'[s] = c
    /\ (Quiet(s) /\ HeadIn(r.todo, Settled)) => profiles[s] # NoServer
    /\ HeadIn(r.todo, {"Disconnected"}) => hosts'[s] = "none"

\* The cache may change for server s: nobody marks a connection that comes,
\* and one the profile does not tell of is told of or dropped next.
CacheIsReady(c, r, s) ==
    /\ hosts' \in [Servers -> {"none", "alive", "dead"}]
    /\ \A t \in Servers \ {s} : hosts'[t] = hosts[t]
    /\ (Quiet(s) /\ hosts'[s] # "none" /\ hosts[s] = "none")
          => \A d \in Clients \ {c} : client[d].id = s => ~At(d, {"Disconnected"})
    /\ \/ hosts'[s] = "none"
       \/ HeadIn(r.todo, {"evict", "forget", "Connected"})
       \/ hosts[s] # "none" /\ ~At(c, {"evict", "forget", "Connected"})

\* A step of one task on its server: on the cache, the locks, the keyring.
PlainChange(c, r, s) ==
    /\ s = client[c].id /\ client[c] # Idle /\ client[c].phase = "next"
    /\ client' = [client EXCEPT ![c] = r]
    /\ r = Idle \/ GoesOnAs(c, r)
    /\ UNCHANGED FrameVars /\ passwords' \subseteq Servers /\ cooling' \subseteq Servers
    /\ LocksStay(c) /\ NextIsReady(c, r, s) /\ CacheIsReady(c, r, s)

LEMMA PlainStep ==
    ASSUME ServerInv, NEW c \in Clients, NEW r \in Records, NEW s, PlainChange(c, r, s)
    PROVE  ServerInv'
<1>a. /\ s = client[c].id /\ client[c] # Idle /\ client[c].phase = "next"
      /\ client' = [client EXCEPT ![c] = r]
      /\ r = Idle \/ GoesOnAs(c, r)
      /\ UNCHANGED <<profiles, torn, saveErrors, clobbered, crossed>>
      /\ passwords' \subseteq Servers /\ cooling' \subseteq Servers
  BY DEF PlainChange, FrameVars
<1>b. /\ flight' \in [Servers -> Clients \cup {NoClient}]
      /\ \A t \in Servers \ crossed : \A d \in Clients \ {c} :
            (client[d].id = t /\ flight[t] = d) => flight'[t] = d
  BY DEF PlainChange, LocksStay
<1>c. NextIsReady(c, r, s) /\ CacheIsReady(c, r, s)
  BY DEF PlainChange
<1>1. client'[c] = r /\ \A d \in Clients \ {c} : client'[d] = client[d]
  BY <1>a, LiftedStep
<1>2. client[c].op \in Ops /\ s \in Servers /\ client[c] \in Records
  BY <1>a, ClientFacts DEF Sound
<1>3. Sound(r) /\ r.phase = "next"
  BY <1>a, <1>2, IdleFacts, ClientFacts DEF Sound, GoesOnAs
<1>4. r.todo # <<>> => r.op = client[c].op /\ r.id = s
  BY <1>a, IdleFacts DEF GoesOnAs
<1>5. \A t : Quiet(t)' <=> Quiet(t)
  BY <1>a, QuietStays
<1>6. Types'
  BY <1>a, <1>b, <1>c DEF ServerInv, Types, CacheIsReady
<1>7. ClientsAreSound'
  BY <1>1, <1>3 DEF ServerInv, ClientsAreSound
<1>8. OthersShare'
  BY <1>a, SharingStays DEF GoesOnAs
<1>9. OneRewrite'
  BY <1>a, <1>3, RewritesStay
<1>10. r.id = s \/ r.id \notin Servers
  BY <1>a, IdleFacts DEF GoesOnAs
<1>11. LockIsHeld'
  <2> SUFFICES ASSUME NEW t \in Servers \ crossed, NEW d \in Clients, client'[d].id = t
               PROVE  /\ At(d, {"auto", "autoshaking"})' => flight'[t] = d
                      /\ (At(d, {"evict", "Disconnected"})' /\ client'[d].op \in SharesLock) => flight'[t] = d
    BY <1>a DEF LockIsHeld
  <2>1. CASE d = c
    BY <1>1, <1>10, <1>c, <2>1 DEF At, HeadIn, NextIsReady
  <2>2. CASE d # c
    <3>1. client'[d] = client[d] /\ client[d].id = t
      BY <1>1, <2>2
    <3>2. flight[t] = d => flight'[t] = d
      BY <1>b, <2>2, <3>1
    <3> QED
      BY <3>1, <3>2 DEF At, ServerInv, LockIsHeld
  <2> QED
    BY <2>1, <2>2
<1>12. TargetIsThere'
  <2> SUFFICES ASSUME NEW t \in Servers, Quiet(t), NEW d \in Clients, client'[d].id = t,
                      At(d, {"handshaking", "autoshaking", "drop password", "rekey", "keep", "Connected"})'
               PROVE  profiles[t] # NoServer
    BY <1>5, <1>a DEF TargetIsThere
  <2>1. CASE d = c
    BY <1>1, <1>10, <1>c, <2>1 DEF At, NextIsReady, Settled
  <2>2. CASE d # c
    BY <1>1, <2>2 DEF At, ServerInv, TargetIsThere
  <2> QED
    BY <2>1, <2>2
<1>13. MarkedIsGone'
  <2> SUFFICES ASSUME NEW t \in Servers, Quiet(t), NEW d \in Clients, client'[d].id = t, At(d, {"Disconnected"})'
               PROVE  hosts'[t] = "none"
    BY <1>5 DEF MarkedIsGone
  <2>1. CASE d = c
    BY <1>1, <1>10, <1>c, <2>1 DEF At, NextIsReady
  <2>2. CASE d # c
    <3>1. client[d].id = t /\ At(d, {"Disconnected"})
      BY <1>1, <2>2 DEF At
    <3>2. hosts[t] = "none"
      BY <3>1 DEF ServerInv, MarkedIsGone
    <3> QED
      BY <1>c, <2>2, <3>1, <3>2 DEF CacheIsReady
  <2> QED
    BY <2>1, <2>2
<1>14. HostIsMended'
  <2> SUFFICES ASSUME NEW t \in Servers, Quiet(t), hosts'[t] # "none",
                      profiles[t].state \notin {"Connected", "Failed"}
               PROVE  \E d \in Clients : client'[d].id = t /\ At(d, {"evict", "forget", "Connected"})'
    BY <1>5, <1>a DEF HostIsMended
  <2>1. CASE t = s /\ HeadIn(r.todo, {"evict", "forget", "Connected"})
    <3>1. r.todo # <<>>
      BY <2>1 DEF HeadIn
    <3> QED
      BY <1>1, <1>4, <2>1, <3>1 DEF At
  <2>2. CASE t # s \/ ~HeadIn(r.todo, {"evict", "forget", "Connected"})
    <3>1. hosts[t] # "none"
      BY <1>c, <2>2 DEF CacheIsReady
    <3>2. PICK d \in Clients : client[d].id = t /\ At(d, {"evict", "forget", "Connected"})
      BY <3>1 DEF ServerInv, HostIsMended
    <3>3. d # c
      BY <1>a, <1>c, <2>2, <3>2 DEF CacheIsReady
    <3> QED
      BY <1>1, <3>2, <3>3 DEF At
  <2> QED
    BY <2>1, <2>2
<1> QED
  BY <1>6, <1>7, <1>8, <1>9, <1>11, <1>12, <1>13, <1>14 DEF ServerInv

-----------------------------------------------------------------------------
(* The steps on the cache, the locks and the keyring.                      *)

NextRecord(c, q) == [client[c] EXCEPT !.todo = q]

LEMMA NextRecordFacts ==
    ASSUME ServerInv, NEW c \in Clients, client[c].phase = "next", NEW q, Shape(client[c].op, q)
    PROVE  /\ NextRecord(c, q) \in Records /\ GoesOnAs(c, NextRecord(c, q))
           /\ NextRecord(c, q).todo = q /\ NextRecord(c, q).op = client[c].op
<1>1. client[c] \in Records /\ q \in Seq(Steps)
  BY ClientFacts, ShapeIsSeq
<1> QED
  BY <1>1 DEF NextRecord, GoesOnAs, Records

LEMMA DoingFacts ==
    ASSUME ServerInv, NEW c \in Clients, NEW a, Doing(c, a)
    PROVE  LET q == client[c].todo
               op == client[c].op
           IN /\ client[c] # Idle /\ client[c].phase = "next" /\ q # <<>> /\ Head(q) = a
              /\ client[c].id \in Servers /\ op \in Ops /\ Shape(op, q) /\ a \in StepsOf(op)
              /\ Shape(op, Tail(q)) /\ Tail(q) = <<>> \o Tail(q)
              /\ Tail(q) # <<>> => MayFollow(op, a, Head(Tail(q)))
              /\ Tail(q) = <<>> => a \notin Binding
              /\ \A S : At(c, S) <=> a \in S
<1>1. client[c].phase = "next" /\ client[c].todo # <<>> /\ Head(client[c].todo) = a
  BY DEF Doing
<1>2. client[c] # Idle
  BY <1>1, IdleFacts
<1>3. Sound(client[c])
  BY ClientFacts
<1>4. client[c].id \in Servers /\ client[c].op \in Ops /\ Shape(client[c].op, client[c].todo)
  BY <1>2, <1>3 DEF Sound
<1>5. /\ a \in StepsOf(client[c].op) /\ Shape(client[c].op, Tail(client[c].todo))
      /\ Tail(client[c].todo) # <<>> => MayFollow(client[c].op, a, Head(Tail(client[c].todo)))
      /\ Tail(client[c].todo) = <<>> => a \notin Binding
  BY <1>1, <1>4, TailShape
<1>6. Tail(client[c].todo) = <<>> \o Tail(client[c].todo)
  <2>1. Tail(client[c].todo) \in Seq(Steps)
    BY <1>5, ShapeIsSeq
  <2> QED
    BY <2>1
<1>7. \A S : At(c, S) <=> a \in S
  BY <1>1 DEF At, HeadIn
<1> QED
  BY <1>1, <1>2, <1>4, <1>5, <1>6, <1>7

LEMMA ContinueFacts ==
    ASSUME ServerInv, NEW c \in Clients, NEW p, Continue(c, p)
    PROVE  client' = [client EXCEPT ![c] = NextRecord(c, p \o Tail(client[c].todo))]
BY DEF Continue, NextRecord, ServerInv, Types

LEMMA LeaveFacts ==
    ASSUME ServerInv, NEW c \in Clients, Leave(c)
    PROVE  /\ client' = [client EXCEPT ![c] = Idle]
           /\ flight' \in [Servers -> Clients \cup {NoClient}]
           /\ \A t \in Servers, d \in Clients \ {c} : flight[t] = d => flight'[t] = d
BY DEF Leave, ServerInv, Types

\* The operation returns.
LEMMA LeaveStep ==
    ASSUME ServerInv, NEW c \in Clients, client[c] # Idle, client[c].phase = "next", Leave(c),
           ~At(c, {"evict", "forget", "Connected"}),
           UNCHANGED <<profiles, torn, saveErrors, clobbered, crossed, hosts, passwords>>,
           cooling' \subseteq Servers
    PROVE  ServerInv'
<1>1. /\ client' = [client EXCEPT ![c] = Idle]
      /\ flight' \in [Servers -> Clients \cup {NoClient}]
      /\ \A t \in Servers, d \in Clients \ {c} : flight[t] = d => flight'[t] = d
  BY LeaveFacts
<1>2. \A S : ~HeadIn(Idle.todo, S)
  BY IdleFacts DEF HeadIn
<1>3. /\ passwords' \subseteq Servers
      /\ hosts' \in [Servers -> {"none", "alive", "dead"}]
  BY DEF ServerInv, Types
<1>4. Idle \in Records
  BY IdleFacts
<1>5. NextIsReady(c, Idle, client[c].id) /\ CacheIsReady(c, Idle, client[c].id) /\ LocksStay(c)
  BY <1>1, <1>2, <1>3 DEF NextIsReady, CacheIsReady, LocksStay
<1>6. PlainChange(c, Idle, client[c].id)
  BY <1>1, <1>3, <1>5 DEF PlainChange, FrameVars
<1> QED
  BY <1>4, <1>6, PlainStep

\* A connection in the cache is not marked Disconnected by anybody else.
LEMMA NobodyMarks ==
    ASSUME ServerInv, NEW c \in Clients, NEW s \in Servers \ crossed, client[c].id = s,
           client[c].op \notin SharesLock \/ flight[s] = c,
           NEW d \in Clients \ {c}, client[d].id = s
    PROVE  ~At(d, {"Disconnected"})
<1>1. {client[c].op, client[d].op} \subseteq SharesLock
  BY DEF ServerInv, OthersShare
<1>2. flight[s] = c /\ client[d].op \in SharesLock
  BY <1>1
<1>3. At(d, {"Disconnected"}) => flight[s] = d
  <2>1. At(d, {"Disconnected"}) => At(d, {"evict", "Disconnected"})
    BY DEF At, HeadIn
  <2> QED
    BY <1>2, <2>1 DEF ServerInv, LockIsHeld
<1> QED
  BY <1>2, <1>3


\* A step that is done, where any other may follow.
LEMMA FreeTailStep ==
    ASSUME ServerInv, NEW c \in Clients, NEW a \in Free \ {"forget", "Connected"}, Doing(c, a),
           Continue(c, <<>>), UNCHANGED FrameVars, UNCHANGED hosts,
           passwords' \subseteq Servers, cooling' \subseteq Servers, LocksStay(c)
    PROVE  ServerInv'
<1> DEFINE q == Tail(client[c].todo)
           s == client[c].id
           r == NextRecord(c, q)
<1>1. /\ client[c] # Idle /\ client[c].phase = "next" /\ s \in Servers
      /\ Shape(client[c].op, q) /\ q = <<>> \o q
      /\ q # <<>> => MayFollow(client[c].op, a, Head(q))
      /\ ~At(c, {"evict", "forget", "Connected"})
  BY DoingFacts DEF Free
<1>2. client' = [client EXCEPT ![c] = r]
  BY <1>1, ContinueFacts
<1>3. r \in Records /\ GoesOnAs(c, r) /\ r.todo = q /\ r.op = client[c].op
  BY <1>1, NextRecordFacts
<1>4. /\ ~HeadIn(q, {"auto", "autoshaking"}) /\ ~HeadIn(q, {"Disconnected"})
      /\ ~HeadIn(q, {"handshaking", "autoshaking", "drop password", "rekey", "keep", "Connected"})
      /\ client[c].op \in SharesLock => ~HeadIn(q, {"evict", "Disconnected"})
  BY <1>1 DEF HeadIn, MayFollow, Free
<1>5. hosts' \in [Servers -> {"none", "alive", "dead"}]
  BY DEF ServerInv, Types
<1>6. NextIsReady(c, r, s) /\ CacheIsReady(c, r, s)
  BY <1>1, <1>3, <1>4, <1>5 DEF NextIsReady, CacheIsReady, Settled
<1>7. PlainChange(c, r, s)
  BY <1>1, <1>2, <1>3, <1>6 DEF PlainChange
<1> HIDE DEF r, s, q
<1> QED
  BY <1>3, <1>7, PlainStep

\* A step replaced by others.  The first of these needs what it stands for:
\* the lock, the server in the file, or that nobody marks what is connected.
LEMMA ReplaceStep ==
    ASSUME ServerInv, NEW c \in Clients, NEW a \in Free \ {"forget", "Connected"}, Doing(c, a),
           NEW p, Shape(client[c].op, p), p # <<>>, p[Len(p)] \in Free, Head(p) # "Disconnected",
           Continue(c, p), UNCHANGED FrameVars, UNCHANGED <<passwords, cooling>>, LocksStay(c),
           NEW s, s = client[c].id,
           \/ UNCHANGED hosts
           \/ /\ hosts' = [hosts EXCEPT ![s] = "alive"] /\ Head(p) = "Connected"
              /\ client[c].op \notin SharesLock \/ flight[s] = c \/ s \in crossed,
           Head(p) \in {"auto", "autoshaking"} /\ s \notin crossed => flight'[s] = c,
           Head(p) = "evict" /\ client[c].op \in SharesLock => flight'[s] = c,
           (Quiet(s) /\ Head(p) \in Settled) => profiles[s] # NoServer
    PROVE  ServerInv'
<1> DEFINE q == p \o Tail(client[c].todo)
           r == NextRecord(c, q)
<1>1. /\ client[c] # Idle /\ client[c].phase = "next" /\ s \in Servers
      /\ Shape(client[c].op, client[c].todo) /\ client[c].todo # <<>> /\ Head(client[c].todo) = a
      /\ ~At(c, {"evict", "forget", "Connected"})
  BY DoingFacts DEF Free
<1>2. Shape(client[c].op, q) /\ q # <<>> /\ Head(q) = Head(p)
  BY <1>1, ReplacedShape
<1>3. client' = [client EXCEPT ![c] = r]
  BY ContinueFacts
<1>4. r \in Records /\ GoesOnAs(c, r) /\ r.todo = q /\ r.op = client[c].op
  BY <1>1, <1>2, NextRecordFacts
<1> HIDE DEF r, q
<1>5. \A S : HeadIn(r.todo, S) <=> Head(p) \in S
  BY <1>2, <1>4 DEF HeadIn
<1>6. /\ passwords' \subseteq Servers /\ cooling' \subseteq Servers
      /\ hosts \in [Servers -> {"none", "alive", "dead"}]
      /\ hosts' \in [Servers -> {"none", "alive", "dead"}]
  BY DEF ServerInv, Types
<1>7. \A t \in Servers \ {client[c].id} : hosts'[t] = hosts[t]
  BY <1>6
<1>8. UNCHANGED <<profiles, torn, saveErrors, clobbered, crossed>>
  BY DEF FrameVars
<1>9. (Quiet(s) /\ hosts'[s] # "none" /\ hosts[s] = "none")
         => \A d \in Clients \ {c} : client[d].id = s => ~At(d, {"Disconnected"})
  <2>1. SUFFICES ASSUME Quiet(s), hosts'[s] # hosts[s]
                 PROVE  \A d \in Clients \ {c} : client[d].id = s => ~At(d, {"Disconnected"})
    OBVIOUS
  <2>2. s \in Servers \ crossed /\ (client[c].op \notin SharesLock \/ flight[s] = c)
    BY <1>1, <2>1 DEF Quiet
  <2> QED
    BY <2>2, NobodyMarks
<1>10. CacheIsReady(c, r, s)
  BY <1>1, <1>5, <1>6, <1>7, <1>9 DEF CacheIsReady
<1>11. NextIsReady(c, r, s)
  BY <1>4, <1>5 DEF NextIsReady
<1>12. PlainChange(c, r, s)
  BY <1>1, <1>3, <1>4, <1>6, <1>10, <1>11 DEF PlainChange
<1> QED
  BY <1>4, <1>12, PlainStep

\* What the other operations of a server hold is left to them by one that
\* leaves the locks alone, takes a free one, or lets its own go.
LEMMA LocksStayFacts ==
    ASSUME ServerInv, NEW c \in Clients, NEW s \in Servers,
           \/ UNCHANGED flight
           \/ Leave(c)
           \/ flight' = [t \in Servers |-> IF flight[t] = c THEN NoClient ELSE flight[t]]
           \/ flight[s] = NoClient /\ flight' = [flight EXCEPT ![s] = c]
    PROVE  LocksStay(c)
<1>1. flight \in [Servers -> Clients \cup {NoClient}] /\ NoClient \notin Clients
  BY NobodyAssumption DEF ServerInv, Types
<1>2. CASE UNCHANGED flight
  BY <1>1, <1>2 DEF LocksStay
<1>3. CASE flight' = [t \in Servers |-> IF flight[t] = c THEN NoClient ELSE flight[t]]
  BY <1>1, <1>3 DEF LocksStay
<1>4. CASE flight[s] = NoClient /\ flight' = [flight EXCEPT ![s] = c]
  <2>1. \A t \in Servers, d \in Clients \ {c} : flight[t] = d => flight'[t] = d
    BY <1>1, <1>4
  <2> QED
    BY <1>1, <1>4, <2>1 DEF LocksStay
<1> QED
  BY <1>2, <1>3, <1>4 DEF Leave

LEMMA FreeSteps ==
    {"remember", "warm", "unlock", "connect", "lock", "auto", "handshake", "handshaking",
     "autoshaking", "check", "probe", "cool"} \subseteq Free \ {"forget", "Connected"}
BY DEF Free, Steps

LEMMA TypesFacts ==
    ASSUME ServerInv
    PROVE  /\ passwords \subseteq Servers /\ cooling \subseteq Servers
           /\ hosts \in [Servers -> {"none", "alive", "dead"}]
           /\ flight \in [Servers -> Clients \cup {NoClient}]
BY DEF ServerInv, Types

LEMMA RememberKeepsInv ==
    ASSUME ServerInv, NEW c \in Clients, Remember(c)
    PROVE  ServerInv'
<1>1. /\ Doing(c, "remember") /\ Continue(c, <<>>) /\ UNCHANGED FrameVars /\ UNCHANGED <<hosts, flight, cooling>>
      /\ passwords' = passwords \cup {client[c].id}
  BY DEF Remember, FrameVars, Target
<1>2. client[c].id \in Servers
  BY <1>1, DoingFacts
<1>3. passwords' \subseteq Servers /\ cooling' \subseteq Servers
  BY <1>1, <1>2, TypesFacts
<1> QED
  BY <1>1, <1>2, <1>3, LocksStayFacts, FreeSteps, FreeTailStep

LEMMA WarmKeepsInv ==
    ASSUME ServerInv, NEW c \in Clients, Warm(c)
    PROVE  ServerInv'
<1>1. /\ Doing(c, "warm") /\ Continue(c, <<>>) /\ UNCHANGED FrameVars /\ UNCHANGED <<hosts, flight, passwords>>
      /\ cooling' \subseteq cooling
  BY DEF Warm, FrameVars
<1>2. client[c].id \in Servers
  BY <1>1, DoingFacts
<1>3. passwords' \subseteq Servers /\ cooling' \subseteq Servers
  BY <1>1, TypesFacts
<1> QED
  BY <1>1, <1>2, <1>3, LocksStayFacts, FreeSteps, FreeTailStep

LEMMA UnlockKeepsInv ==
    ASSUME ServerInv, NEW c \in Clients, Unlock(c)
    PROVE  ServerInv'
<1>1. /\ Doing(c, "unlock") /\ Continue(c, <<>>) /\ UNCHANGED FrameVars /\ UNCHANGED <<hosts, passwords, cooling>>
      /\ flight' = [t \in Servers |-> IF flight[t] = c THEN NoClient ELSE flight[t]]
  BY DEF Unlock, FrameVars
<1>2. client[c].id \in Servers
  BY <1>1, DoingFacts
<1>3. passwords' \subseteq Servers /\ cooling' \subseteq Servers
  BY <1>1, TypesFacts
<1> QED
  BY <1>1, <1>2, <1>3, LocksStayFacts, FreeSteps, FreeTailStep

LEMMA FinishedKeepsInv ==
    ASSUME ServerInv, NEW c \in Clients, Finished(c)
    PROVE  ServerInv'
<1>1. /\ client[c] # Idle /\ client[c].todo = <<>> /\ Leave(c)
      /\ UNCHANGED <<profiles, torn, saveErrors, clobbered, crossed, hosts, passwords, cooling>>
  BY DEF Finished
<1>2. client[c].phase = "next"
  BY <1>1, ClientFacts DEF Sound, HeadIn, Records
<1>3. ~At(c, {"evict", "forget", "Connected"})
  BY <1>1 DEF At, HeadIn
<1> QED
  BY <1>1, <1>2, <1>3, LeaveStep, TypesFacts

LEMMA CoolKeepsInv ==
    ASSUME ServerInv, NEW c \in Clients, Cool(c)
    PROVE  ServerInv'
<1>1. /\ Doing(c, "cool") /\ Leave(c) /\ cooling' = cooling \cup {client[c].id}
      /\ UNCHANGED <<profiles, torn, saveErrors, clobbered, crossed, hosts, passwords>>
  BY DEF Cool, Target
<1>2. /\ client[c] # Idle /\ client[c].phase = "next" /\ client[c].id \in Servers
      /\ ~At(c, {"evict", "forget", "Connected"})
  BY <1>1, DoingFacts
<1>3. cooling' \subseteq Servers
  BY <1>1, <1>2, TypesFacts
<1> QED
  BY <1>1, <1>2, <1>3, LeaveStep

LEMMA HandshakeKeepsInv ==
    ASSUME ServerInv, NEW c \in Clients, Handshake(c)
    PROVE  ServerInv'
<1>1. Doing(c, "handshake") /\ UNCHANGED FrameVars /\ UNCHANGED <<hosts, passwords, cooling>>
  BY DEF Handshake, FrameVars
<1>2. /\ client[c] # Idle /\ client[c].phase = "next" /\ client[c].id \in Servers
      /\ ~At(c, {"evict", "forget", "Connected"}) /\ "handshake" \in StepsOf(client[c].op)
  BY <1>1, DoingFacts
<1>3. CASE Leave(c)
  BY <1>1, <1>2, <1>3, LeaveStep, TypesFacts DEF FrameVars
<1>4. CASE Listed(client[c].id) /\ Continue(c, <<"handshaking">>) /\ UNCHANGED flight
  <2> DEFINE p == <<"handshaking">>
  <2>1. p # <<>> /\ p[Len(p)] \in Free /\ Head(p) = "handshaking"
    BY FreeSteps
  <2>2. Shape(client[c].op, p)
    BY <1>2, Lists DEF StepsOf, LockSteps
  <2>3. Continue(c, p) /\ profiles[client[c].id] # NoServer
    BY <1>4 DEF Listed
  <2> HIDE DEF p
  <2> QED
    BY <1>1, <1>2, <1>4, <2>1, <2>2, <2>3, LocksStayFacts, FreeSteps, ReplaceStep
<1> QED
  BY <1>3, <1>4 DEF Handshake, ContinueOr, Target

LEMMA ConnectKeepsInv ==
    ASSUME ServerInv, NEW c \in Clients, Connect(c)
    PROVE  ServerInv'
<1>1. Doing(c, "connect") /\ UNCHANGED FrameVars /\ UNCHANGED <<hosts, passwords, cooling>>
  BY DEF Connect, FrameVars
<1>2. /\ client[c] # Idle /\ client[c].phase = "next" /\ client[c].id \in Servers
      /\ ~At(c, {"evict", "forget", "Connected"})
  BY <1>1, DoingFacts
<1>3. CASE Continue(c, <<>>) /\ UNCHANGED flight
  BY <1>1, <1>2, <1>3, TypesFacts, LocksStayFacts, FreeSteps, FreeTailStep
<1>4. CASE Leave(c)
  BY <1>1, <1>2, <1>4, LeaveStep, TypesFacts DEF FrameVars
<1>5. CASE Continue(c, <<"lock">>) /\ UNCHANGED flight
  <2> DEFINE p == <<"lock">>
  <2>1. p # <<>> /\ p[Len(p)] \in Free /\ Head(p) = "lock"
    BY FreeSteps
  <2>2. Shape(client[c].op, p) /\ Continue(c, p)
    BY <1>5, Lists
  <2> HIDE DEF p
  <2> QED
    BY <1>1, <1>2, <1>5, <2>1, <2>2, LocksStayFacts, FreeSteps, ReplaceStep DEF Settled
<1> QED
  BY <1>3, <1>4, <1>5 DEF Connect, ContinueOr

LEMMA LockKeepsInv ==
    ASSUME ServerInv, NEW c \in Clients, Lock(c)
    PROVE  ServerInv'
<1>1. Doing(c, "lock") /\ UNCHANGED FrameVars /\ UNCHANGED <<hosts, passwords, cooling>>
  BY DEF Lock, FrameVars
<1>2. client[c].id \in Servers
  BY <1>1, DoingFacts
<1>3. CASE Continue(c, <<>>) /\ UNCHANGED flight
  BY <1>1, <1>2, <1>3, TypesFacts, LocksStayFacts, FreeSteps, FreeTailStep
<1>4. CASE /\ flight[client[c].id] = NoClient
           /\ Continue(c, <<"auto">>) /\ flight' = [flight EXCEPT ![client[c].id] = c]
  <2> DEFINE p == <<"auto">>
  <2>1. p # <<>> /\ p[Len(p)] \in Free /\ Head(p) = "auto"
    BY FreeSteps
  <2>2. Shape(client[c].op, p) /\ Continue(c, p)
    BY <1>4, Lists
  <2>3. flight'[client[c].id] = c
    BY <1>2, <1>4, TypesFacts
  <2> HIDE DEF p
  <2>4. LocksStay(c)
    BY <1>2, <1>4, LocksStayFacts
  <2> QED
    BY <1>1, <1>2, <2>1, <2>2, <2>3, <2>4, FreeSteps, ReplaceStep DEF Settled
<1> QED
  BY <1>3, <1>4 DEF Lock, Target

LEMMA AutoKeepsInv ==
    ASSUME ServerInv, NEW c \in Clients, AutoAttempt(c)
    PROVE  ServerInv'
<1>1. Doing(c, "auto") /\ UNCHANGED FrameVars /\ UNCHANGED <<hosts, passwords, cooling, flight>>
  BY DEF AutoAttempt, FrameVars
<1>2. client[c].id \in Servers /\ At(c, {"auto", "autoshaking"})
  BY <1>1, DoingFacts
<1>3. LocksStay(c)
  BY <1>1, <1>2, LocksStayFacts
<1>4. CASE Continue(c, <<"cool">>)
  <2> DEFINE p == <<"cool">>
  <2>1. p # <<>> /\ p[Len(p)] \in Free /\ Head(p) = "cool"
    BY FreeSteps
  <2>2. Shape(client[c].op, p) /\ Continue(c, p)
    BY <1>4, Lists
  <2> HIDE DEF p
  <2> QED
    BY <1>1, <1>2, <1>3, <2>1, <2>2, FreeSteps, ReplaceStep DEF Settled
<1>5. CASE Listed(client[c].id) /\ Continue(c, <<"autoshaking">>)
  <2> DEFINE p == <<"autoshaking">>
  <2>1. p # <<>> /\ p[Len(p)] \in Free /\ Head(p) = "autoshaking"
    BY FreeSteps
  <2>2. Shape(client[c].op, p) /\ Continue(c, p) /\ profiles[client[c].id] # NoServer
    BY <1>5, Lists DEF Listed
  <2>3. client[c].id \notin crossed => flight'[client[c].id] = c
    BY <1>1, <1>2 DEF ServerInv, LockIsHeld
  <2> HIDE DEF p
  <2> QED
    BY <1>1, <1>2, <1>3, <2>1, <2>2, <2>3, FreeSteps, ReplaceStep
<1> QED
  BY <1>4, <1>5 DEF AutoAttempt, Target

LEMMA ProbeKeepsInv ==
    ASSUME ServerInv, NEW c \in Clients, Probe(c)
    PROVE  ServerInv'
<1>1. Doing(c, "probe") /\ UNCHANGED FrameVars /\ UNCHANGED <<hosts, passwords, cooling>>
  BY DEF Probe, FrameVars
<1>2. /\ client[c] # Idle /\ client[c].phase = "next" /\ client[c].id \in Servers
      /\ ~At(c, {"evict", "forget", "Connected"}) /\ "probe" \in StepsOf(client[c].op)
  BY <1>1, DoingFacts
<1>3. CASE Leave(c)
  BY <1>1, <1>2, <1>3, LeaveStep, TypesFacts DEF FrameVars
<1>4. CASE Continue(c, <<"evict", "Disconnected", "health">>) /\ UNCHANGED flight
  <2> DEFINE p == <<"evict", "Disconnected", "health">>
  <2>1. p # <<>> /\ p[Len(p)] \in Free /\ Head(p) = "evict"
    BY DEF Free, Steps
  <2>2. Shape(client[c].op, p) /\ Continue(c, p)
    BY <1>4, Lists
  <2>3. client[c].op \notin SharesLock
    BY <1>2 DEF StepsOf, LockSteps
  <2> HIDE DEF p
  <2> QED
    BY <1>1, <1>2, <1>4, <2>1, <2>2, <2>3, LocksStayFacts, FreeSteps, ReplaceStep DEF Settled
<1> QED
  BY <1>3, <1>4 DEF Probe, ContinueOr, Target

\* One list of steps after another.
LEMMA JoinedList ==
    ASSUME NEW op, NEW p, NEW q, Shape(op, p), Shape(op, q), p # <<>>, q # <<>>,
           MayFollow(op, p[Len(p)], Head(q)), q[Len(q)] \in Free
    PROVE  /\ Shape(op, p \o q) /\ p \o q # <<>> /\ Head(p \o q) = Head(p)
           /\ (p \o q)[Len(p \o q)] \in Free
<1>1. p \in Seq(Steps) /\ q \in Seq(Steps)
  BY ShapeIsSeq
<1>2. (p \o q)[Len(p \o q)] = q[Len(q)]
  BY <1>1
<1> QED
  BY <1>2, JoinShape

\* What a handshake that answered, or failed, is followed by.
StartsWith(op, p, a) == Shape(op, p) /\ p # <<>> /\ p[Len(p)] \in Free /\ Head(p) = a

LEMMA AnswerShapes ==
    ASSUME NEW op, NEW auto \in BOOLEAN
    PROVE  /\ StartsWith(op, <<"Connected", "health">> \o (IF auto THEN <<"warm", "unlock">> ELSE <<>>),
                         "Connected")
           /\ StartsWith(op, <<"Failed", "health">> \o (IF auto THEN <<"cool">> ELSE <<>>), "Failed")
<1>1. {"unlock", "cool", "health"} \subseteq Free
  BY DEF Free, Steps
<1>2. StartsWith(op, <<"Connected", "health">> \o <<"warm", "unlock">>, "Connected")
  <2> DEFINE p == <<"Connected", "health">>
             q == <<"warm", "unlock">>
  <2>1. Shape(op, p) /\ Shape(op, q) /\ p # <<>> /\ q # <<>> /\ Head(p) = "Connected"
    BY Lists
  <2>2. MayFollow(op, p[Len(p)], Head(q)) /\ q[Len(q)] \in Free
    BY <1>1 DEF MayFollow
  <2> HIDE DEF p, q
  <2>3. StartsWith(op, p \o q, "Connected")
    BY <2>1, <2>2, JoinedList DEF StartsWith
  <2> QED
    BY <2>3 DEF p, q
<1>3. StartsWith(op, <<"Failed", "health">> \o <<"cool">>, "Failed")
  <2> DEFINE p == <<"Failed", "health">>
             q == <<"cool">>
  <2>1. Shape(op, p) /\ Shape(op, q) /\ p # <<>> /\ q # <<>> /\ Head(p) = "Failed"
    BY Lists
  <2>2. MayFollow(op, p[Len(p)], Head(q)) /\ q[Len(q)] \in Free
    BY <1>1 DEF MayFollow
  <2> HIDE DEF p, q
  <2>3. StartsWith(op, p \o q, "Failed")
    BY <2>1, <2>2, JoinedList DEF StartsWith
  <2> QED
    BY <2>3 DEF p, q
<1>4. StartsWith(op, <<"Connected", "health">>, "Connected")
  <2>1. Shape(op, <<"Connected", "health">>)
    BY Lists
  <2> QED
    BY <1>1, <2>1 DEF StartsWith
<1>5. StartsWith(op, <<"Failed", "health">>, "Failed")
  <2>1. Shape(op, <<"Failed", "health">>)
    BY Lists
  <2> QED
    BY <1>1, <2>1 DEF StartsWith
<1>6. /\ <<"Connected", "health">> \o <<>> = <<"Connected", "health">>
      /\ <<"Failed", "health">> \o <<>> = <<"Failed", "health">>
  OBVIOUS
<1>7. CASE auto
  BY <1>2, <1>3, <1>7
<1>8. CASE ~auto
  BY <1>4, <1>5, <1>6, <1>8
<1> QED
  BY <1>7, <1>8

LEMMA AnsweredKeepsInv ==
    ASSUME ServerInv, NEW c \in Clients, Answered(c)
    PROVE  ServerInv'
<1> DEFINE auto == Doing(c, "autoshaking")
           s == client[c].id
<1>1. UNCHANGED FrameVars /\ UNCHANGED <<passwords, cooling, flight>>
  BY DEF Answered, FrameVars
<1>2. PICK a \in {"handshaking", "autoshaking"} : Doing(c, a)
  BY DEF Answered
<1>3. s \in Servers /\ a \in StepsOf(client[c].op) /\ \A S : At(c, S) <=> a \in S
  BY <1>2, DoingFacts
<1>4. client[c].op \notin SharesLock \/ flight[s] = c \/ s \in crossed
  <2>1. CASE a = "handshaking"
    BY <1>3, <2>1 DEF StepsOf, LockSteps
  <2>2. CASE a = "autoshaking"
    BY <1>3, <2>2 DEF ServerInv, LockIsHeld
  <2> QED
    BY <2>1, <2>2
<1>5. Quiet(s) => profiles[s] # NoServer
  BY <1>2, <1>3 DEF ServerInv, TargetIsThere
<1>6. LocksStay(c)
  BY <1>1, <1>3, LocksStayFacts
<1>7. a \in Free \ {"forget", "Connected"}
  BY FreeSteps
<1>a. auto \in BOOLEAN
  BY DEF Doing
<1>8. CASE /\ hosts' = [hosts EXCEPT ![s] = "alive"]
           /\ Continue(c, <<"Connected", "health">> \o (IF auto THEN <<"warm", "unlock">> ELSE <<>>))
  <2> DEFINE p == <<"Connected", "health">> \o (IF auto THEN <<"warm", "unlock">> ELSE <<>>)
  <2>1. Continue(c, p)
    BY <1>8
  <2>2. Shape(client[c].op, p) /\ p # <<>> /\ p[Len(p)] \in Free /\ Head(p) = "Connected"
    BY <1>a, AnswerShapes DEF StartsWith
  <2> HIDE DEF p, auto
  <2> QED
    BY <1>1, <1>2, <1>3, <1>4, <1>5, <1>6, <1>7, <1>8, <2>1, <2>2, ReplaceStep
<1>9. CASE /\ UNCHANGED hosts
           /\ Continue(c, <<"Failed", "health">> \o (IF auto THEN <<"cool">> ELSE <<>>))
  <2> DEFINE p == <<"Failed", "health">> \o (IF auto THEN <<"cool">> ELSE <<>>)
  <2>1. Continue(c, p)
    BY <1>9
  <2>2. Shape(client[c].op, p) /\ p # <<>> /\ p[Len(p)] \in Free /\ Head(p) = "Failed"
    BY <1>a, AnswerShapes DEF StartsWith
  <2> HIDE DEF p, auto
  <2> QED
    BY <1>1, <1>2, <1>3, <1>4, <1>5, <1>6, <1>7, <1>9, <2>1, <2>2, ReplaceStep DEF Settled
<1> QED
  BY <1>8, <1>9 DEF Answered, Target

\* A step that is done, where what comes next has what it stands for.
LEMMA TailStep ==
    ASSUME ServerInv, NEW c \in Clients, NEW a, Doing(c, a), Continue(c, <<>>), UNCHANGED FrameVars,
           passwords' \subseteq Servers, cooling' \subseteq Servers, LocksStay(c),
           NextIsReady(c, NextRecord(c, Tail(client[c].todo)), client[c].id),
           CacheIsReady(c, NextRecord(c, Tail(client[c].todo)), client[c].id)
    PROVE  ServerInv'
<1> DEFINE q == Tail(client[c].todo)
           r == NextRecord(c, q)
<1>1. /\ client[c] # Idle /\ client[c].phase = "next"
      /\ Shape(client[c].op, q) /\ q = <<>> \o q
  BY DoingFacts
<1>2. client' = [client EXCEPT ![c] = r]
  BY <1>1, ContinueFacts
<1>3. r \in Records /\ GoesOnAs(c, r)
  BY <1>1, NextRecordFacts
<1>4. PlainChange(c, r, client[c].id)
  BY <1>1, <1>2, <1>3 DEF PlainChange
<1> HIDE DEF r
<1> QED
  BY <1>3, <1>4, PlainStep

\* What is next after the steps that bind what comes after them.
LEMMA NextHead ==
    ASSUME ServerInv, NEW c \in Clients, NEW a, Doing(c, a), NEW S,
           LET q == Tail(client[c].todo) IN q = <<>> \/ Head(q) \notin S
    PROVE  ~HeadIn(NextRecord(c, Tail(client[c].todo)).todo, S)
<1>1. NextRecord(c, Tail(client[c].todo)).todo = Tail(client[c].todo)
  BY DoingFacts, NextRecordFacts
<1> QED
  BY <1>1 DEF HeadIn

LEMMA CheckKeepsInv ==
    ASSUME ServerInv, NEW c \in Clients, Check(c)
    PROVE  ServerInv'
<1> DEFINE s == client[c].id
<1>1. Doing(c, "check") /\ UNCHANGED FrameVars /\ UNCHANGED <<hosts, passwords, cooling>>
  BY DEF Check, FrameVars
<1>2. /\ client[c] # Idle /\ client[c].phase = "next" /\ s \in Servers
      /\ ~At(c, {"evict", "forget", "Connected"})
  BY <1>1, DoingFacts
<1>3. CASE Continue(c, <<>>) /\ UNCHANGED flight
  BY <1>1, <1>2, <1>3, TypesFacts, LocksStayFacts, FreeSteps, FreeTailStep
<1>4. ASSUME flight[s] = NoClient, flight' = [flight EXCEPT ![s] = c]
      PROVE  LocksStay(c) /\ flight'[s] = c
  BY <1>2, <1>4, LocksStayFacts, TypesFacts
<1>5. CASE /\ flight[s] = NoClient /\ flight' = [flight EXCEPT ![s] = c]
           /\ client' = [client EXCEPT ![c].todo = <<"health", "unlock">>]
  <2> DEFINE q == <<"health", "unlock">>
             r == NextRecord(c, q)
  <2>1. Shape(client[c].op, q) /\ q # <<>> /\ Head(q) = "health"
    BY Lists
  <2>2. client' = [client EXCEPT ![c] = r]
    BY <1>5 DEF NextRecord
  <2> HIDE DEF q
  <2>3. r \in Records /\ GoesOnAs(c, r) /\ r.todo = q
    BY <1>2, <2>1, NextRecordFacts
  <2>4. \A S : HeadIn(r.todo, S) <=> "health" \in S
    BY <2>1, <2>3 DEF HeadIn
  <2> HIDE DEF r
  <2>5. NextIsReady(c, r, s)
    BY <2>4 DEF NextIsReady, Settled
  <2>6. CacheIsReady(c, r, s)
    BY <1>1, <1>2, <2>4, TypesFacts DEF CacheIsReady
  <2>7. PlainChange(c, r, s)
    BY <1>1, <1>2, <1>4, <1>5, <2>2, <2>3, <2>5, <2>6, TypesFacts DEF PlainChange
  <2> QED
    BY <2>3, <2>7, PlainStep
<1>6. CASE /\ flight[s] = NoClient /\ flight' = [flight EXCEPT ![s] = c]
           /\ Continue(c, <<"evict", "Disconnected", "health", "unlock">>)
  <2> DEFINE p == <<"evict", "Disconnected", "health", "unlock">>
  <2>1. p # <<>> /\ p[Len(p)] \in Free /\ Head(p) = "evict"
    BY DEF Free, Steps
  <2>2. Shape(client[c].op, p) /\ Continue(c, p)
    BY <1>6, Lists
  <2> HIDE DEF p
  <2> QED
    BY <1>1, <1>2, <1>4, <1>6, <2>1, <2>2, FreeSteps, ReplaceStep DEF Settled
<1> QED
  BY <1>3, <1>5, <1>6 DEF Check, Target

LEMMA AuthorizeKeepsInv ==
    ASSUME ServerInv, NEW c \in Clients, Authorize(c)
    PROVE  ServerInv'
<1> DEFINE s == client[c].id
           r == NextRecord(c, Tail(client[c].todo))
<1>1. Doing(c, "authorize") /\ UNCHANGED FrameVars /\ UNCHANGED <<hosts, passwords, cooling>>
  BY DEF Authorize, FrameVars
<1>2. /\ client[c] # Idle /\ client[c].phase = "next" /\ s \in Servers
      /\ "authorize" \in StepsOf(client[c].op)
      /\ ~At(c, {"evict", "forget", "Connected"})
  BY <1>1, DoingFacts
<1>3. CASE Leave(c)
  BY <1>1, <1>2, <1>3, LeaveStep, TypesFacts DEF FrameVars
<1>4. CASE Listed(s) /\ Continue(c, <<>>) /\ UNCHANGED flight
  <2>1. client[c].op \notin SharesLock
    BY <1>2 DEF StepsOf, LockSteps
  <2>2. ~HeadIn(r.todo, {"auto", "autoshaking"}) /\ ~HeadIn(r.todo, {"Disconnected"})
    BY <1>1, DoingFacts, NextHead DEF MayFollow
  <2>3. r.op = client[c].op
    BY <1>1, DoingFacts, NextRecordFacts
  <2> HIDE DEF r
  <2>4. NextIsReady(c, r, s)
    BY <1>4, <2>1, <2>2, <2>3 DEF NextIsReady, Listed
  <2>5. CacheIsReady(c, r, s)
    BY <1>1, <1>2, TypesFacts DEF CacheIsReady
  <2> QED
    BY <1>1, <1>2, <1>4, <2>4, <2>5, TypesFacts, LocksStayFacts, TailStep DEF r
<1> QED
  BY <1>3, <1>4 DEF Authorize, Target

LEMMA DropPasswordKeepsInv ==
    ASSUME ServerInv, NEW c \in Clients, DropPassword(c)
    PROVE  ServerInv'
<1> DEFINE s == client[c].id
           r == NextRecord(c, Tail(client[c].todo))
<1>1. /\ Doing(c, "drop password") /\ Continue(c, <<>>) /\ UNCHANGED FrameVars
      /\ UNCHANGED <<hosts, cooling, flight>> /\ passwords' \subseteq passwords
  BY DEF DropPassword, FrameVars
<1>a. \A S : At(c, S) <=> "drop password" \in S
  BY <1>1, DoingFacts
<1>2. /\ s \in Servers /\ "drop password" \in StepsOf(client[c].op)
      /\ ~At(c, {"evict", "forget", "Connected"}) /\ At(c, Settled)
  <2>1. At(c, Settled) /\ ~At(c, {"evict", "forget", "Connected"})
    BY <1>a DEF Settled
  <2> QED
    BY <1>1, <2>1, DoingFacts
<1>3. client[c].op \notin SharesLock
  BY <1>2 DEF StepsOf, LockSteps
<1>4. ~HeadIn(r.todo, {"auto", "autoshaking"}) /\ ~HeadIn(r.todo, {"Disconnected"})
  BY <1>1, DoingFacts, NextHead DEF MayFollow
<1>5. r.op = client[c].op
  BY <1>1, DoingFacts, NextRecordFacts
<1>6. Quiet(s) => profiles[s] # NoServer
  BY <1>2 DEF ServerInv, TargetIsThere, Settled
<1> HIDE DEF r
<1>7. NextIsReady(c, r, s)
  BY <1>3, <1>4, <1>5, <1>6 DEF NextIsReady
<1>8. CacheIsReady(c, r, s)
  BY <1>1, <1>2, TypesFacts DEF CacheIsReady
<1>9. passwords' \subseteq Servers /\ cooling' \subseteq Servers /\ LocksStay(c)
  BY <1>1, <1>2, TypesFacts, LocksStayFacts
<1> QED
  BY <1>1, <1>7, <1>8, <1>9, TailStep DEF r

LEMMA KeepKeepsInv ==
    ASSUME ServerInv, NEW c \in Clients, Keep(c)
    PROVE  ServerInv'
<1> DEFINE s == client[c].id
           r == NextRecord(c, Tail(client[c].todo))
<1>1. /\ Doing(c, "keep") /\ Continue(c, <<>>) /\ UNCHANGED FrameVars
      /\ UNCHANGED <<passwords, cooling, flight>> /\ hosts' = [hosts EXCEPT ![s] = "alive"]
  BY DEF Keep, FrameVars, Target
<1>a. At(c, Settled)
  <2>1. \A S : At(c, S) <=> "keep" \in S
    BY <1>1, DoingFacts
  <2> QED
    BY <2>1 DEF Settled
<1>b. Tail(client[c].todo) # <<>> /\ Head(Tail(client[c].todo)) = "Connected"
  BY <1>1, DoingFacts DEF MayFollow, Binding
<1>2. /\ s \in Servers /\ "keep" \in StepsOf(client[c].op) /\ At(c, Settled)
      /\ Tail(client[c].todo) # <<>> /\ Head(Tail(client[c].todo)) = "Connected"
  BY <1>1, <1>a, <1>b, DoingFacts
<1>3. client[c].op \notin SharesLock
  BY <1>2 DEF StepsOf, LockSteps
<1>4. r.op = client[c].op /\ r.todo = Tail(client[c].todo)
  BY <1>1, DoingFacts, NextRecordFacts
<1> HIDE DEF r
<1>5. \A S : HeadIn(r.todo, S) <=> "Connected" \in S
  BY <1>2, <1>4 DEF HeadIn
<1>6. Quiet(s) => profiles[s] # NoServer
  BY <1>2 DEF ServerInv, TargetIsThere, Settled
<1>7. NextIsReady(c, r, s)
  BY <1>5, <1>6 DEF NextIsReady
<1>8. CacheIsReady(c, r, s)
  <2>1. Quiet(s) => \A d \in Clients \ {c} : client[d].id = s => ~At(d, {"Disconnected"})
    BY <1>2, <1>3, NobodyMarks DEF Quiet
  <2>2. hosts' \in [Servers -> {"none", "alive", "dead"}] /\ \A t \in Servers \ {s} : hosts'[t] = hosts[t]
    BY <1>1, TypesFacts
  <2> QED
    BY <1>5, <2>1, <2>2 DEF CacheIsReady
<1>9. passwords' \subseteq Servers /\ cooling' \subseteq Servers /\ LocksStay(c)
  BY <1>1, <1>2, TypesFacts, LocksStayFacts
<1> QED
  BY <1>1, <1>7, <1>8, <1>9, TailStep DEF r

LEMMA EvictKeepsInv ==
    ASSUME ServerInv, NEW c \in Clients, Evict(c)
    PROVE  ServerInv'
<1> DEFINE s == client[c].id
           r == NextRecord(c, Tail(client[c].todo))
<1>1. /\ Doing(c, "evict") /\ Continue(c, <<>>) /\ UNCHANGED FrameVars
      /\ UNCHANGED <<passwords, cooling, flight>> /\ hosts' = [hosts EXCEPT ![s] = "none"]
  BY DEF Evict, FrameVars, Target
<1>2. s \in Servers /\ At(c, {"evict", "Disconnected"})
  BY <1>1, DoingFacts
<1>3. s \notin crossed /\ client[c].op \in SharesLock => flight[s] = c
  BY <1>2 DEF ServerInv, LockIsHeld
<1>4. ~HeadIn(r.todo, {"auto", "autoshaking"}) /\ ~HeadIn(r.todo, Settled)
  <2>1. LET q == Tail(client[c].todo) IN q = <<>> \/ Head(q) \notin {"auto", "autoshaking"} \cup Settled
    BY <1>1, DoingFacts DEF MayFollow, Settled
  <2>2. ~HeadIn(r.todo, {"auto", "autoshaking"} \cup Settled)
    BY <1>1, <2>1, NextHead
  <2>3. \A q, A, B : ~HeadIn(q, A \cup B) => ~HeadIn(q, A) /\ ~HeadIn(q, B)
    BY DEF HeadIn
  <2> HIDE DEF r
  <2> QED
    BY <2>2, <2>3
<1>5. r.op = client[c].op
  BY <1>1, DoingFacts, NextRecordFacts
<1>6. /\ hosts' \in [Servers -> {"none", "alive", "dead"}] /\ hosts'[s] = "none"
      /\ \A t \in Servers \ {s} : hosts'[t] = hosts[t]
  BY <1>1, <1>2, TypesFacts
<1> HIDE DEF r
<1>7. NextIsReady(c, r, s)
  BY <1>1, <1>3, <1>4, <1>5, <1>6 DEF NextIsReady
<1>8. CacheIsReady(c, r, s)
  BY <1>6 DEF CacheIsReady
<1>9. passwords' \subseteq Servers /\ cooling' \subseteq Servers /\ LocksStay(c)
  BY <1>1, <1>2, TypesFacts, LocksStayFacts
<1> QED
  BY <1>1, <1>7, <1>8, <1>9, TailStep DEF r

LEMMA ForgetKeepsInv ==
    ASSUME ServerInv, NEW c \in Clients, Forget(c)
    PROVE  ServerInv'
<1> DEFINE s == client[c].id
           r == NextRecord(c, Tail(client[c].todo))
<1>1. /\ Doing(c, "forget") /\ Continue(c, <<>>) /\ UNCHANGED FrameVars
      /\ passwords' \subseteq passwords /\ cooling' \subseteq cooling
      /\ hosts' = [hosts EXCEPT ![s] = "none"] /\ flight' = [flight EXCEPT ![s] = NoClient]
  BY DEF Forget, FrameVars, Target
<1>2. s \in Servers /\ "forget" \in StepsOf(client[c].op)
  BY <1>1, DoingFacts
<1>3. client[c].op \notin SharesLock
  BY <1>2 DEF StepsOf, LockSteps
<1>4. ~HeadIn(r.todo, {"auto", "autoshaking"}) /\ ~HeadIn(r.todo, Settled) /\ ~HeadIn(r.todo, {"Disconnected"})
  <2>1. LET q == Tail(client[c].todo)
        IN q = <<>> \/ Head(q) \notin {"auto", "autoshaking", "Disconnected"} \cup Settled
    <3>1. LET q == Tail(client[c].todo) IN q = <<>> \/ MayFollow(client[c].op, "forget", Head(q))
      BY <1>1, DoingFacts
    <3> QED
      BY <3>1 DEF MayFollow, Settled
  <2>2. ~HeadIn(r.todo, {"auto", "autoshaking", "Disconnected"} \cup Settled)
    BY <1>1, <2>1, NextHead
  <2> HIDE DEF r
  <2> QED
    BY <2>2 DEF HeadIn
<1>5. r.op = client[c].op
  BY <1>1, DoingFacts, NextRecordFacts
<1>6. /\ hosts' \in [Servers -> {"none", "alive", "dead"}] /\ hosts'[s] = "none"
      /\ \A t \in Servers \ {s} : hosts'[t] = hosts[t]
  BY <1>1, <1>2, TypesFacts
<1> HIDE DEF r
<1>7. NextIsReady(c, r, s)
  BY <1>3, <1>4, <1>5 DEF NextIsReady
<1>8. CacheIsReady(c, r, s)
  BY <1>6 DEF CacheIsReady
<1>9. LocksStay(c)
  <2>1. flight' \in [Servers -> Clients \cup {NoClient}] /\ \A t \in Servers \ {s} : flight'[t] = flight[t]
    BY <1>1, TypesFacts
  <2>2. s \notin crossed => \A d \in Clients \ {c} : client[d].id # s
    BY <1>2, <1>3 DEF ServerInv, OthersShare
  <2> QED
    BY <2>1, <2>2 DEF LocksStay
<1>10. passwords' \subseteq Servers /\ cooling' \subseteq Servers
  BY <1>1, TypesFacts
<1> QED
  BY <1>1, <1>7, <1>8, <1>9, <1>10, TailStep DEF r

-----------------------------------------------------------------------------
(* The rewrites of servers.json.                                           *)

\* A step that changes no list leaves what is said of lists, while the file,
\* the cache and the locks are as they were.
ListsStay == \A d \in Clients : /\ client'[d].op = client[d].op /\ client'[d].id = client[d].id
                                /\ client'[d].todo = client[d].todo

LEMMA ListsStayStep ==
    ASSUME ServerInv, ListsStay, UNCHANGED <<profiles, hosts, flight, crossed, saveErrors>>,
           clobbered => clobbered'
    PROVE  OthersShare' /\ LockIsHeld' /\ TargetIsThere' /\ MarkedIsGone' /\ HostIsMended'
<1>1. \A t : Quiet(t)' => Quiet(t)
  BY DEF Quiet
<1>2. \A d \in Clients : \A S : At(d, S)' <=> At(d, S)
  BY DEF At, ListsStay
<1>3. OthersShare'
  BY DEF ServerInv, OthersShare, ListsStay
<1>4. LockIsHeld'
  BY <1>2 DEF ServerInv, LockIsHeld, ListsStay
<1>5. TargetIsThere'
  BY <1>1, <1>2 DEF ServerInv, TargetIsThere, ListsStay
<1>6. MarkedIsGone'
  BY <1>1, <1>2 DEF ServerInv, MarkedIsGone, ListsStay
<1>7. HostIsMended'
  BY <1>1, <1>2 DEF ServerInv, HostIsMended, ListsStay
<1> QED
  BY <1>3, <1>4, <1>5, <1>6, <1>7

LEMMA EditingFacts ==
    ASSUME ServerInv, NEW c \in Clients, client[c].phase # "next"
    PROVE  LET q == client[c].todo
               op == client[c].op
           IN /\ client[c] # Idle /\ q # <<>> /\ Head(q) \in Edits /\ Rewriting(c)
              /\ client[c].id \in Servers /\ op \in Ops /\ Shape(op, q) /\ Head(q) \in StepsOf(op)
              /\ Shape(op, Tail(q)) /\ client[c].copy \in [Servers -> Profiles]
              /\ Tail(q) # <<>> => MayFollow(op, Head(q), Head(Tail(q)))
              /\ Tail(q) = <<>> => Head(q) \notin Binding
              /\ \A S : At(c, S) <=> Head(q) \in S
<1>1. client[c] \in Records /\ Sound(client[c])
  BY ClientFacts
<1>2. client[c] # Idle
  BY IdleFacts
<1>3. Rewriting(c) /\ HeadIn(client[c].todo, Edits) /\ client[c].copy \in [Servers -> Profiles]
  BY <1>1 DEF Sound, Rewriting, Records
<1>4. client[c].id \in Servers /\ client[c].op \in Ops /\ Shape(client[c].op, client[c].todo)
  BY <1>1, <1>2 DEF Sound
<1>5. client[c].todo # <<>> /\ Head(client[c].todo) \in Edits
  BY <1>3 DEF HeadIn
<1>6. /\ Head(client[c].todo) \in StepsOf(client[c].op) /\ Shape(client[c].op, Tail(client[c].todo))
      /\ Tail(client[c].todo) # <<>> => MayFollow(client[c].op, Head(client[c].todo), Head(Tail(client[c].todo)))
      /\ Tail(client[c].todo) = <<>> => Head(client[c].todo) \notin Binding
  BY <1>4, <1>5, TailShape
<1>7. \A S : At(c, S) <=> Head(client[c].todo) \in S
  BY <1>5 DEF At, HeadIn
<1> QED
  BY <1>2, <1>3, <1>4, <1>5, <1>6, <1>7

LEMMA EditedIsProfile ==
    ASSUME NEW edit \in Edits, NEW x \in Profiles
    PROVE  Edited(edit, x) \in Profiles
BY DEF Edits, Edited, Profiles, NewServer, NoServer, ServerState

LEMMA LoadKeepsInv ==
    ASSUME ServerInv, NEW c \in Clients, Load(c)
    PROVE  ServerInv'
<1> DEFINE copy == IF torn THEN [s \in Servers |-> NoServer] ELSE profiles
           r == [client[c] EXCEPT !.phase = "loaded", !.copy = copy]
<1>1. /\ client[c].todo # <<>> /\ client[c].phase = "next" /\ Head(client[c].todo) \in Edits
      /\ client' = [client EXCEPT ![c].phase = "loaded", ![c].copy = copy]
      /\ clobbered' = (clobbered \/ \E d \in Clients : Rewriting(d))
      /\ UNCHANGED <<profiles, torn, passwords, hosts, flight, cooling, saveErrors, crossed>>
  BY DEF Load
<1>2. client[c] \in Records /\ Sound(client[c])
  BY ClientFacts
<1>3. copy \in [Servers -> Profiles]
  BY DEF ServerInv, Types, Profiles, NoServer, ServerState
<1> HIDE DEF copy
<1>4. /\ r \in Records /\ r.phase = "loaded" /\ r.copy = copy /\ r.shared = client[c].shared
      /\ r.op = client[c].op /\ r.id = client[c].id /\ r.todo = client[c].todo
  BY <1>2, <1>3 DEF Records
<1>5. client' = [client EXCEPT ![c] = r]
  BY <1>1
<1> HIDE DEF r
<1>6. client'[c] = r /\ \A d \in Clients \ {c} : client'[d] = client[d]
  BY <1>4, <1>5, LiftedStep
<1>7. Sound(r)
  BY <1>1, <1>2, <1>3, <1>4, IdleFacts DEF Sound, HeadIn
<1>8. ClientsAreSound'
  BY <1>6, <1>7 DEF ServerInv, ClientsAreSound
<1>9. Types'
  BY <1>1, <1>4, <1>5 DEF ServerInv, Types
<1>10. ListsStay
  BY <1>4, <1>6 DEF ListsStay
<1>11. OneRewrite'
  <2> SUFFICES ASSUME ~clobbered' PROVE OneRewrite'
    BY DEF OneRewrite
  <2>1. ~clobbered /\ \A d \in Clients : ~Rewriting(d)
    BY <1>1
  <2>2. ~torn /\ ~torn'
    BY <1>1, <2>1 DEF ServerInv, OneRewrite, Rewriting
  <2>3. client'[c].phase = "loaded" /\ client'[c].copy = profiles' /\ ~client'[c].shared
    BY <1>1, <1>2, <1>4, <1>6, <2>2 DEF copy, Sound
  <2>4. \A d \in Clients \ {c} : client'[d].phase \notin {"loaded", "open"}
    BY <1>6, <2>1 DEF Rewriting
  <2> QED
    BY <2>2, <2>3, <2>4 DEF OneRewrite, Rewriting
<1>12. OthersShare' /\ LockIsHeld' /\ TargetIsThere' /\ MarkedIsGone' /\ HostIsMended'
  BY <1>1, <1>10, ListsStayStep
<1> QED
  BY <1>8, <1>9, <1>11, <1>12 DEF ServerInv

\* The edit is over: the operation goes on with its next step, or returns.
EditDone(c) == [client[c] EXCEPT !.phase = "next", !.todo = Tail(@), !.copy = <<>>, !.shared = FALSE]

EditEnds(c, r) ==
    /\ Rewriting(c) /\ r \in {Idle, EditDone(c)}
    /\ client' = [client EXCEPT ![c] = r]
    /\ LocksStay(c) /\ UNCHANGED <<hosts, cooling, clobbered, crossed>>
    /\ passwords' \subseteq Servers /\ profiles' \in [Servers -> Profiles]
    /\ saveErrors' \in Nat /\ (saveErrors' = 0 => saveErrors = 0)
    /\ torn' \in BOOLEAN /\ (~clobbered => ~torn')

LEMMA EditDoneFacts ==
    ASSUME ServerInv, NEW c \in Clients, Rewriting(c), NEW r \in {Idle, EditDone(c)}
    PROVE  /\ r \in Records /\ Sound(r) /\ r.phase = "next"
           /\ r = Idle \/ (r.op = client[c].op /\ r.id = client[c].id /\ r.todo = Tail(client[c].todo))
           /\ \A S : HeadIn(r.todo, S) =>
                 /\ r = EditDone(c) /\ r.id = client[c].id /\ r.op = client[c].op
                 /\ \E b \in S : MayFollow(client[c].op, Head(client[c].todo), b)
<1>0. client[c].phase # "next"
  BY DEF Rewriting
<1>1. /\ client[c].id \in Servers /\ client[c].op \in Ops
      /\ client[c].todo # <<>> /\ Shape(client[c].op, Tail(client[c].todo))
      /\ Tail(client[c].todo) # <<>>
             => MayFollow(client[c].op, Head(client[c].todo), Head(Tail(client[c].todo)))
  BY <1>0, EditingFacts
<1>2. client[c] \in Records /\ Tail(client[c].todo) \in Seq(Steps)
  BY <1>1, ClientFacts, ShapeIsSeq
<1>3. CASE r = Idle
  BY <1>3, IdleFacts DEF HeadIn
<1>4. CASE r = EditDone(c)
  <2>1. /\ r \in Records /\ r.phase = "next" /\ r.todo = Tail(client[c].todo) /\ r.shared = FALSE
        /\ r.op = client[c].op /\ r.id = client[c].id
    BY <1>2, <1>4 DEF EditDone, Records, NoCopy
  <2>2. Sound(r)
    BY <1>1, <2>1 DEF Sound
  <2>3. \A S : HeadIn(r.todo, S) => \E b \in S : MayFollow(client[c].op, Head(client[c].todo), b)
    BY <1>1, <2>1 DEF HeadIn
  <2> QED
    BY <1>4, <2>1, <2>2, <2>3
<1> QED
  BY <1>3, <1>4

\* What does not speak of the profiles is kept by the end of an edit.
LEMMA EditEndsStep ==
    ASSUME ServerInv, NEW c \in Clients, NEW r, EditEnds(c, r)
    PROVE  /\ Types' /\ ClientsAreSound' /\ OthersShare' /\ LockIsHeld' /\ OneRewrite' /\ MarkedIsGone'
           /\ client'[c] = r /\ \A d \in Clients \ {c} : client'[d] = client[d]
           /\ \A t : Quiet(t)' => Quiet(t)
<1>a. /\ Rewriting(c) /\ r \in {Idle, EditDone(c)}
      /\ client' = [client EXCEPT ![c] = r]
      /\ UNCHANGED <<hosts, cooling, clobbered, crossed>>
      /\ passwords' \subseteq Servers /\ profiles' \in [Servers -> Profiles]
      /\ saveErrors' \in Nat /\ (saveErrors' = 0 => saveErrors = 0)
      /\ torn' \in BOOLEAN /\ (~clobbered => ~torn')
  BY DEF EditEnds
<1>b. /\ flight' \in [Servers -> Clients \cup {NoClient}]
      /\ \A t \in Servers \ crossed : \A d \in Clients \ {c} :
            (client[d].id = t /\ flight[t] = d) => flight'[t] = d
  BY DEF EditEnds, LocksStay
<1>1. /\ r \in Records /\ Sound(r) /\ r.phase = "next"
      /\ r = Idle \/ (r.op = client[c].op /\ r.id = client[c].id)
      /\ \A S : HeadIn(r.todo, S) =>
                 /\ r.op = client[c].op
                 /\ \E b \in S : MayFollow(client[c].op, Head(client[c].todo), b)
  BY <1>a, EditDoneFacts
<1>2. client'[c] = r /\ \A d \in Clients \ {c} : client'[d] = client[d]
  BY <1>a, <1>1, LiftedStep
<1>3. \A t : Quiet(t)' => Quiet(t)
  BY <1>a DEF Quiet
<1>4. Types'
  BY <1>a, <1>b, <1>1 DEF ServerInv, Types
<1>5. ClientsAreSound'
  BY <1>1, <1>2 DEF ServerInv, ClientsAreSound
<1>6. OthersShare'
  BY <1>a, <1>1, SharingStays
<1>7. OneRewrite'
  <2> SUFFICES ASSUME ~clobbered PROVE OneRewrite'
    BY <1>a DEF OneRewrite
  <2>1. \A d \in Clients \ {c} : ~Rewriting(d)
    BY <1>a DEF ServerInv, OneRewrite
  <2>2. \A d \in Clients : client'[d].phase \notin {"loaded", "open"}
    BY <1>1, <1>2, <2>1 DEF Rewriting
  <2> QED
    BY <1>a, <2>2 DEF OneRewrite, Rewriting
<1>8. Head(client[c].todo) \in Edits
  BY <1>a, EditingFacts DEF Rewriting
<1>9. ~HeadIn(r.todo, {"auto", "autoshaking"}) /\ ~HeadIn(r.todo, {"Disconnected"})
  BY <1>1, <1>8 DEF MayFollow, Edits
<1>10. client[c].op \in SharesLock => ~HeadIn(r.todo, {"evict", "Disconnected"})
  BY <1>1, <1>8 DEF MayFollow, Edits
<1>11. LockIsHeld'
  <2> SUFFICES ASSUME NEW t \in Servers \ crossed, NEW d \in Clients, client'[d].id = t
               PROVE  /\ At(d, {"auto", "autoshaking"})' => flight'[t] = d
                      /\ (At(d, {"evict", "Disconnected"})' /\ client'[d].op \in SharesLock) => flight'[t] = d
    BY <1>a DEF LockIsHeld
  <2>1. CASE d = c
    BY <1>1, <1>2, <1>9, <1>10, <2>1 DEF At
  <2>2. CASE d # c
    <3>1. client'[d] = client[d] /\ client[d].id = t
      BY <1>2, <2>2
    <3>2. flight[t] = d => flight'[t] = d
      BY <1>b, <2>2, <3>1
    <3> QED
      BY <3>1, <3>2 DEF At, ServerInv, LockIsHeld
  <2> QED
    BY <2>1, <2>2
<1>12. MarkedIsGone'
  <2> SUFFICES ASSUME NEW t \in Servers, Quiet(t), NEW d \in Clients, client'[d].id = t, At(d, {"Disconnected"})'
               PROVE  hosts'[t] = "none"
    BY <1>3 DEF MarkedIsGone
  <2>1. d # c
    BY <1>2, <1>9 DEF At
  <2> QED
    BY <1>a, <1>2, <2>1 DEF At, ServerInv, MarkedIsGone
<1> QED
  BY <1>2, <1>3, <1>4, <1>5, <1>6, <1>7, <1>11, <1>12

LEMMA SaveFailsKeepsInv ==
    ASSUME ServerInv, NEW c \in Clients, SaveFails(c)
    PROVE  ServerInv'
<1>1. /\ client[c].phase = "loaded" /\ saveErrors' = saveErrors + 1
      /\ UNCHANGED <<profiles, torn, hosts, cooling, clobbered, crossed>>
      /\ passwords' = PasswordsAfterEdit(c)
  BY DEF SaveFails
<1>2. client[c] \in Records /\ ~client[c].shared /\ Rewriting(c) /\ client[c].id \in Servers
  BY <1>1, ClientFacts, EditingFacts DEF Sound
<1>3. passwords' \subseteq Servers
  BY <1>1, <1>2, TypesFacts DEF PasswordsAfterEdit, Target
<1>4. /\ profiles' \in [Servers -> Profiles] /\ saveErrors' \in Nat /\ saveErrors' # 0
      /\ torn' \in BOOLEAN
  BY <1>1 DEF ServerInv, Types
<1>5. ~clobbered => ~torn'
  BY <1>1 DEF ServerInv, OneRewrite
<1>6. \E r \in {Idle, EditDone(c)} : client' = [client EXCEPT ![c] = r] /\ LocksStay(c)
  <2>1. CASE Leave(c)
    BY <1>2, <2>1, LeaveFacts, LocksStayFacts
  <2>2. CASE /\ client' = [client EXCEPT ![c].phase = "next", ![c].todo = Tail(@), ![c].copy = <<>>]
             /\ UNCHANGED flight
    <3>1. EditDone(c) = [client[c] EXCEPT !.phase = "next", !.todo = Tail(@), !.copy = <<>>]
      BY <1>2 DEF EditDone, Records
    <3>2. client' = [client EXCEPT ![c] = EditDone(c)]
      BY <2>2, <3>1 DEF ServerInv, Types
    <3> QED
      BY <1>2, <2>2, <3>2, LocksStayFacts
  <2> QED
    BY <2>1, <2>2 DEF SaveFails
<1>7. PICK r \in {Idle, EditDone(c)} : client' = [client EXCEPT ![c] = r] /\ LocksStay(c)
  BY <1>6
<1>8. EditEnds(c, r)
  BY <1>1, <1>2, <1>3, <1>4, <1>5, <1>7 DEF EditEnds
<1>9. \A t : ~Quiet(t)'
  BY <1>4 DEF Quiet
<1>10. TargetIsThere' /\ HostIsMended'
  BY <1>9 DEF TargetIsThere, HostIsMended
<1> QED
  BY <1>8, <1>10, EditEndsStep DEF ServerInv

LEMMA WriteBackKeepsInv ==
    ASSUME ServerInv, NEW c \in Clients, WriteBack(c)
    PROVE  ServerInv'
<1> DEFINE s == client[c].id
           edit == Head(client[c].todo)
           r == EditDone(c)
<1>1. /\ client[c].phase = "open" /\ profiles' = client[c].copy
      /\ torn' \in {FALSE} \cup (IF client[c].shared THEN {TRUE} ELSE {})
      /\ client' = [client EXCEPT ![c].phase = "next", ![c].todo = Tail(@),
                                  ![c].copy = <<>>, ![c].shared = FALSE]
      /\ UNCHANGED <<passwords, hosts, flight, cooling, saveErrors, clobbered, crossed>>
  BY DEF WriteBack
<1>2. /\ Rewriting(c) /\ s \in Servers /\ edit \in Edits /\ edit \in StepsOf(client[c].op)
      /\ client[c].copy \in [Servers -> Profiles] /\ \A S : At(c, S) <=> edit \in S
  BY <1>1, EditingFacts
<1>3. client' = [client EXCEPT ![c] = r]
  BY <1>1 DEF EditDone, ServerInv, Types
<1>4. ~clobbered => ~torn'
  BY <1>1, <1>2 DEF ServerInv, OneRewrite
<1>5. LocksStay(c)
  BY <1>1, <1>2, LocksStayFacts
<1>6. saveErrors \in Nat /\ passwords \subseteq Servers
  BY DEF ServerInv, Types
<1>7. EditEnds(c, r)
  BY <1>1, <1>2, <1>3, <1>4, <1>5, <1>6 DEF EditEnds
<1>8. /\ Types' /\ ClientsAreSound' /\ OthersShare' /\ LockIsHeld' /\ OneRewrite' /\ MarkedIsGone'
      /\ client'[c] = r /\ \A d \in Clients \ {c} : client'[d] = client[d]
      /\ \A t : Quiet(t)' => Quiet(t)
  BY <1>7, EditEndsStep
<1>9. /\ r.id = s /\ r.todo = Tail(client[c].todo)
      /\ \A S : HeadIn(r.todo, S) => \E b \in S : MayFollow(client[c].op, edit, b)
  BY <1>2, EditDoneFacts, ClientFacts DEF EditDone, Records
<1>10. ASSUME ~clobbered
       PROVE  /\ profiles' = [profiles EXCEPT ![s] = Edited(edit, profiles[s])]
              /\ edit = "insert" <=> profiles[s] = NoServer
  BY <1>1, <1>10 DEF ServerInv, OneRewrite
<1>11. profiles \in [Servers -> Profiles]
  BY DEF ServerInv, Types
<1>12. (edit \in {"insert", "replace", "remove", "rekey"} /\ s \notin crossed) =>
          \A d \in Clients \ {c} : client[d].id # s
  BY <1>2 DEF ServerInv, OthersShare, StepsOf, LockSteps
<1>13. edit = "replace" => HeadIn(r.todo, {"evict"})
  BY <1>1, <1>9, EditingFacts DEF HeadIn, Binding, MayFollow
<1>14. edit = "remove" => HeadIn(r.todo, {"forget"})
  BY <1>1, <1>9, EditingFacts DEF HeadIn, Binding, MayFollow
<1> HIDE DEF r, edit, s
<1>15. TargetIsThere'
  <2> SUFFICES ASSUME NEW t \in Servers, Quiet(t), NEW d \in Clients, client'[d].id = t, At(d, Settled)'
               PROVE  profiles'[t] # NoServer
    BY <1>8 DEF TargetIsThere, Settled
  <2>a. ~clobbered /\ t \notin crossed
    BY DEF Quiet
  <2>1. CASE t # s
    <3>1. d # c
      BY <1>8, <1>9, <2>1
    <3>2. client[d].id = t /\ At(d, Settled)
      BY <1>8, <3>1 DEF At
    <3> QED
      BY <1>10, <1>11, <2>a, <2>1, <3>2 DEF ServerInv, TargetIsThere, Settled
  <2>2. CASE t = s /\ edit = "remove"
    <3>1. d = c
      BY <1>8, <1>12, <2>a, <2>2
    <3> QED
      BY <1>8, <1>14, <2>2, <3>1 DEF At, HeadIn, Settled
  <2>3. CASE t = s /\ edit # "remove"
    <3>1. profiles'[s] = Edited(edit, profiles[s]) /\ (edit = "insert" \/ profiles[s] # NoServer)
      BY <1>2, <1>10, <1>11, <2>a
    <3>2. profiles[s] \in Profiles
      BY <1>2, <1>11
    <3>3. Edited(edit, profiles[s]) # NoServer
      BY <1>2, <2>3, <3>1, <3>2 DEF Edited, Edits, NewServer, NoServer, Profiles
    <3> QED
      BY <2>3, <3>1, <3>3
  <2> QED
    BY <2>1, <2>2, <2>3
<1>16. HostIsMended'
  <2> SUFFICES ASSUME NEW t \in Servers, Quiet(t), hosts[t] # "none",
                      profiles'[t].state \notin {"Connected", "Failed"}
               PROVE  \E d \in Clients : client'[d].id = t /\ At(d, {"evict", "forget", "Connected"})'
    BY <1>1, <1>8 DEF HostIsMended
  <2>a. ~clobbered /\ t \notin crossed
    BY DEF Quiet
  <2>1. CASE /\ profiles[t].state \notin {"Connected", "Failed"}
             /\ t # s \/ edit # "Connected"
    <3>1. PICK d \in Clients : client[d].id = t /\ At(d, {"evict", "forget", "Connected"})
      BY <2>1 DEF ServerInv, HostIsMended
    <3>2. d # c
      BY <1>2, <2>1, <3>1 DEF Edits, s
    <3> QED
      BY <1>8, <3>1, <3>2 DEF At
  <2>2. CASE t = s /\ edit = "replace"
    BY <1>8, <1>9, <1>13, <2>2 DEF At, HeadIn
  <2>3. CASE t = s /\ edit = "remove"
    BY <1>8, <1>9, <1>14, <2>3 DEF At, HeadIn
  <2>4. CASE t = s /\ edit = "insert"
    <3>1. profiles[s].state = "absent"
      BY <1>10, <2>a, <2>4 DEF NoServer
    <3>2. PICK d \in Clients : client[d].id = t /\ At(d, {"evict", "forget", "Connected"})
      BY <2>4, <3>1 DEF ServerInv, HostIsMended
    <3>3. d # c
      BY <1>2, <2>4, <3>2
    <3> QED
      BY <1>12, <2>a, <2>4, <3>2, <3>3
  <2>5. CASE t = s /\ edit = "Disconnected"
    <3>1. At(c, {"Disconnected"}) /\ client[c].id = t
      BY <1>2, <2>5 DEF s
    <3> QED
      BY <3>1 DEF ServerInv, MarkedIsGone
  <2>6. CASE t = s /\ edit \in {"Connected", "Failed"}
    <3>1. profiles'[s] = [profiles[s] EXCEPT !.state = edit] /\ profiles[s] \in Profiles
      BY <1>2, <1>10, <1>11, <2>a, <2>6 DEF Edited
    <3> QED
      BY <2>6, <3>1 DEF Profiles
  <2>7. CASE t = s /\ edit \in {"rekey", "health"}
    <3>1. profiles'[s].state = profiles[s].state
      BY <1>2, <1>10, <1>11, <2>a, <2>7 DEF Edited, Profiles
    <3> QED
      BY <2>1, <2>7, <3>1
  <2>8. CASE t # s
    <3>1. profiles'[t] = profiles[t]
      BY <1>10, <1>11, <2>a, <2>8
    <3> QED
      BY <2>1, <2>8, <3>1
  <2> QED
    BY <1>2, <2>2, <2>3, <2>4, <2>5, <2>6, <2>7, <2>8 DEF Edits
<1> QED
  BY <1>8, <1>15, <1>16 DEF ServerInv

\* An edit that opens the file: the list stays, the copy is edited.
Opened(c, shared) ==
    [client[c] EXCEPT !.phase = "open", !.shared = shared,
                      !.copy[client[c].id] = Edited(Head(client[c].todo), @)]

LEMMA OpenedFacts ==
    ASSUME ServerInv, NEW c \in Clients, client[c].phase = "loaded", NEW shared \in BOOLEAN
    PROVE  LET r == Opened(c, shared)
               id == client[c].id
           IN /\ r \in Records /\ Sound(r) /\ r.phase = "open" /\ r.shared = shared
              /\ r.op = client[c].op /\ r.id = id /\ r.todo = client[c].todo
              /\ r.copy = [client[c].copy EXCEPT ![id] = Edited(Head(client[c].todo), client[c].copy[id])]
<1> DEFINE r == Opened(c, shared)
           s == client[c].id
           edit == Head(client[c].todo)
           copy == [client[c].copy EXCEPT ![s] = Edited(edit, client[c].copy[s])]
<1>1. /\ s \in Servers /\ client[c].copy \in [Servers -> Profiles] /\ client[c].op \in Ops
      /\ edit \in Edits /\ client[c].todo # <<>>
  BY EditingFacts
<1>2. client[c] \in Records /\ Sound(client[c])
  BY ClientFacts
<1>3. Edited(edit, client[c].copy[s]) \in Profiles
  BY <1>1, EditedIsProfile
<1>4. copy \in [Servers -> Profiles]
  BY <1>1, <1>3
<1>5. r = [client[c] EXCEPT !.phase = "open", !.shared = shared, !.copy = copy]
  BY <1>2 DEF Opened, Records
<1> HIDE DEF copy, r
<1>6. /\ r \in Records /\ r.phase = "open" /\ r.shared = shared /\ r.copy = copy
      /\ r.op = client[c].op /\ r.id = s /\ r.todo = client[c].todo
  BY <1>2, <1>4, <1>5 DEF Records
<1>7. Sound(r)
  BY <1>1, <1>2, <1>4, <1>6 DEF Sound, HeadIn
<1> QED
  BY <1>6, <1>7 DEF copy, r

LEMMA ChangeKeepsInv ==
    ASSUME ServerInv, NEW c \in Clients, Change(c)
    PROVE  ServerInv'
<1> DEFINE s == client[c].id
           edit == Head(client[c].todo)
           others == {d \in Clients \ {c} : client[d].phase = "open"}
<1>1. /\ client[c].phase = "loaded"
      /\ UNCHANGED <<profiles, hosts, cooling, saveErrors, clobbered, crossed>>
      /\ passwords' = PasswordsAfterEdit(c)
  BY DEF Change
<1>2. /\ client[c] \in Records /\ ~client[c].shared /\ Rewriting(c) /\ s \in Servers
      /\ edit \in Edits /\ client[c].copy \in [Servers -> Profiles] /\ \A S : At(c, S) <=> edit \in S
  BY <1>1, ClientFacts, EditingFacts DEF Sound
<1>3. passwords' \subseteq Servers
  BY <1>1, <1>2, TypesFacts DEF PasswordsAfterEdit, Target
<1>4. ~clobbered => ~torn /\ client[c].copy = profiles /\ \A d \in Clients \ {c} : ~Rewriting(d)
  BY <1>1, <1>2 DEF ServerInv, OneRewrite
<1>5. profiles \in [Servers -> Profiles] /\ saveErrors \in Nat /\ torn \in BOOLEAN
  BY DEF ServerInv, Types
<1>6. ASSUME NEW r \in {Idle, EditDone(c)}, client' = [client EXCEPT ![c] = r], LocksStay(c),
             UNCHANGED torn, Quiet(s) => edit # "Connected",
             (Quiet(s) /\ HeadIn(r.todo, Settled)) => profiles[s] # NoServer
      PROVE  ServerInv'
  <2>1. EditEnds(c, r)
    BY <1>1, <1>2, <1>3, <1>4, <1>5, <1>6 DEF EditEnds
  <2>2. /\ Types' /\ ClientsAreSound' /\ OthersShare' /\ LockIsHeld' /\ OneRewrite' /\ MarkedIsGone'
        /\ client'[c] = r /\ \A d \in Clients \ {c} : client'[d] = client[d]
        /\ \A t : Quiet(t)' => Quiet(t)
    BY <2>1, EditEndsStep
  <2>3. r.id = s \/ r.id \notin Servers
    BY <1>2, EditDoneFacts, IdleFacts
  <2>4. TargetIsThere'
    <3> SUFFICES ASSUME NEW t \in Servers, Quiet(t), NEW d \in Clients, client'[d].id = t, At(d, Settled)'
                 PROVE  profiles[t] # NoServer
      BY <1>1, <2>2 DEF TargetIsThere, Settled
    <3>1. CASE d = c
      BY <1>6, <2>2, <2>3, <3>1 DEF At
    <3>2. CASE d # c
      BY <2>2, <3>2 DEF At, ServerInv, TargetIsThere, Settled
    <3> QED
      BY <3>1, <3>2
  <2>5. HostIsMended'
    <3> SUFFICES ASSUME NEW t \in Servers, Quiet(t), hosts[t] # "none",
                        profiles[t].state \notin {"Connected", "Failed"}
                 PROVE  \E d \in Clients : client'[d].id = t /\ At(d, {"evict", "forget", "Connected"})'
      BY <1>1, <2>2 DEF HostIsMended
    <3>1. PICK d \in Clients : client[d].id = t /\ At(d, {"evict", "forget", "Connected"})
      BY DEF ServerInv, HostIsMended
    <3>2. d # c
      BY <1>2, <1>6, <3>1 DEF Edits
    <3> QED
      BY <2>2, <3>1, <3>2 DEF At
  <2> QED
    BY <2>2, <2>4, <2>5 DEF ServerInv
<1>7. CASE EditRefused(c) /\ Leave(c) /\ UNCHANGED torn
  <2>1. client' = [client EXCEPT ![c] = Idle] /\ LocksStay(c)
    BY <1>2, <1>7, LeaveFacts, LocksStayFacts
  <2>2. edit # "Connected"
    BY <1>7 DEF EditRefused
  <2>3. ~HeadIn(Idle.todo, Settled)
    BY IdleFacts DEF HeadIn
  <2> QED
    BY <1>6, <1>7, <2>1, <2>2, <2>3
<1>8. CASE /\ ~EditRefused(c) /\ edit # "insert" /\ client[c].copy[s] = NoServer
           /\ client' = [client EXCEPT ![c].phase = "next", ![c].todo = Tail(@), ![c].copy = <<>>]
           /\ UNCHANGED <<torn, flight>>
  <2>1. client' = [client EXCEPT ![c] = EditDone(c)] /\ LocksStay(c)
    <3>1. EditDone(c) = [client[c] EXCEPT !.phase = "next", !.todo = Tail(@), !.copy = <<>>]
      BY <1>2 DEF EditDone, Records
    <3>2. client' = [client EXCEPT ![c] = EditDone(c)]
      BY <1>8, <3>1 DEF ServerInv, Types
    <3> QED
      BY <1>2, <1>8, <3>2, LocksStayFacts
  <2>2. Quiet(s) => profiles[s] = NoServer
    BY <1>4, <1>8 DEF Quiet
  <2>3. Quiet(s) => edit \notin Settled
    BY <1>2, <2>2 DEF ServerInv, TargetIsThere, Settled
  <2>4. Quiet(s) => edit # "Connected" /\ edit # "rekey"
    BY <2>3 DEF Settled
  <2>5. Quiet(s) => ~HeadIn(EditDone(c).todo, Settled)
    <3> SUFFICES ASSUME Quiet(s), NEW b \in Settled, MayFollow(client[c].op, edit, b)
                 PROVE  FALSE
      BY <1>2, EditDoneFacts
    <3> QED
      BY <1>2, <2>4 DEF MayFollow, Settled, Edits
  <2> QED
    BY <1>6, <1>8, <2>1, <2>4, <2>5
<1>9. CASE /\ ~EditRefused(c) /\ (edit = "insert" \/ client[c].copy[s] # NoServer)
           /\ client' = [d \in Clients |->
                 IF d = c THEN [client[c] EXCEPT !.phase = "open", !.shared = others # {},
                                                 !.copy[s] = Edited(edit, @)]
                 ELSE IF d \in others THEN [client[d] EXCEPT !.shared = TRUE] ELSE client[d]]
           /\ torn' = TRUE
           /\ UNCHANGED flight
  <2> DEFINE shared == others # {}
             r == Opened(c, shared)
  <2>1. client'[c] = r /\ \A d \in Clients \ {c} :
            client'[d] = IF d \in others THEN [client[d] EXCEPT !.shared = TRUE] ELSE client[d]
    BY <1>9 DEF Opened
  <2>a. shared \in BOOLEAN
    OBVIOUS
  <2>b. DOMAIN client' = Clients /\ client' = [d \in Clients |-> client'[d]]
    BY <1>9
  <2>c. ~clobbered => ~shared
    BY <1>4 DEF Rewriting
  <2> HIDE DEF shared
  <2>2. /\ r \in Records /\ Sound(r) /\ r.phase = "open" /\ r.shared = shared
        /\ r.op = client[c].op /\ r.id = s /\ r.todo = client[c].todo
        /\ r.copy = [client[c].copy EXCEPT ![s] = Edited(edit, client[c].copy[s])]
    BY <1>1, <2>a, OpenedFacts
  <2>3. ASSUME NEW d \in Clients \ {c}
        PROVE  /\ client'[d] \in Records /\ Sound(client'[d])
               /\ client'[d].op = client[d].op /\ client'[d].id = client[d].id
               /\ client'[d].todo = client[d].todo /\ client'[d].phase = client[d].phase
    <3>1. client[d] \in Records /\ Sound(client[d])
      BY ClientFacts
    <3>2. CASE d \notin others
      BY <2>1, <3>1, <3>2
    <3>3. CASE d \in others
      <4> DEFINE x == [client[d] EXCEPT !.shared = TRUE]
      <4>1. /\ x \in Records /\ x.op = client[d].op /\ x.id = client[d].id /\ x.todo = client[d].todo
            /\ x.phase = client[d].phase /\ x.phase = "open" /\ x.copy = client[d].copy
        BY <3>1, <3>3 DEF Records
      <4>2. client[d] # Idle
        BY <3>3, IdleFacts
      <4>3. Sound(x)
        BY <3>1, <4>1, <4>2 DEF Sound
      <4> QED
        BY <2>1, <3>3, <4>1, <4>3
    <3> QED
      BY <3>2, <3>3
  <2>4. Types'
    <3>1. client' \in [Clients -> Records]
      BY <2>1, <2>2, <2>3, <2>b
    <3> QED
      BY <1>1, <1>3, <1>9, <3>1 DEF ServerInv, Types
  <2>5. ClientsAreSound'
    BY <2>1, <2>2, <2>3 DEF ClientsAreSound
  <2>6. ListsStay
    BY <2>1, <2>2, <2>3 DEF ListsStay
  <2>7. OneRewrite'
    <3> SUFFICES ASSUME ~clobbered PROVE OneRewrite'
      BY <1>1 DEF OneRewrite
    <3>1. \A d \in Clients \ {c} : client'[d].phase \notin {"loaded", "open"}
      BY <1>4, <2>3 DEF Rewriting
    <3>2. client'[c].phase = "open" /\ ~client'[c].shared
      BY <2>1, <2>2, <2>c
    <3>3. /\ client'[c].copy = [profiles' EXCEPT ![s] = Edited(edit, profiles'[s])]
          /\ client'[c].id = s /\ Head(client'[c].todo) = edit
      BY <1>1, <1>4, <2>1, <2>2
    <3>4. edit = "insert" <=> profiles'[s] = NoServer
      BY <1>1, <1>4, <1>9 DEF EditRefused, Target
    <3> HIDE DEF s, edit
    <3> QED
      BY <1>1, <3>1, <3>2, <3>3, <3>4 DEF OneRewrite, Rewriting
  <2>8. OthersShare' /\ LockIsHeld' /\ TargetIsThere' /\ MarkedIsGone' /\ HostIsMended'
    BY <1>1, <1>9, <2>6, ListsStayStep
  <2> QED
    BY <2>4, <2>5, <2>7, <2>8 DEF ServerInv
<1> QED
  BY <1>7, <1>8, <1>9 DEF Change, Target

-----------------------------------------------------------------------------
(* Operations begin; connections break; the application dies.              *)

LEMMA ProgramHeads ==
    \A op \in Ops : /\ Program[op] # <<>>
                    /\ Head(Program[op]) \notin {"auto", "autoshaking", "Disconnected"} \cup Settled
                    /\ op \in SharesLock => Head(Program[op]) # "evict"
<1>1. Program["add"] # <<>> /\ Head(Program["add"]) = "remember"
  <2>1. Program["add"] = <<"remember", "insert">>
    BY DEF Program
  <2> QED
    BY <2>1
<1>2. Program["update"] # <<>> /\ Head(Program["update"]) = "replace"
  <2>1. Program["update"] = <<"replace", "evict", "Disconnected">>
    BY DEF Program
  <2> QED
    BY <2>1
<1>3. Program["password"] # <<>> /\ Head(Program["password"]) = "replace"
  <2>1. Program["password"] = <<"replace", "evict", "Disconnected", "connect">>
    BY DEF Program
  <2> QED
    BY <2>1
<1>4. Program["delete"] # <<>> /\ Head(Program["delete"]) = "remove"
  <2>1. Program["delete"] = <<"remove", "forget">>
    BY DEF Program
  <2> QED
    BY <2>1
<1>5. Program["test"] # <<>> /\ Head(Program["test"]) = "handshake"
  <2>1. Program["test"] = <<"handshake">>
    BY DEF Program
  <2> QED
    BY <2>1
<1>6. Program["setup"] # <<>> /\ Head(Program["setup"]) = "authorize"
  <2> DEFINE q == <<"authorize", "drop password", "rekey", "keep", "Connected">>
  <2>1. Program["setup"] = q
    BY DEF Program
  <2>2. q \in Seq(Steps) /\ Len(q) = 5 /\ q[1] = "authorize"
    BY DEF Steps
  <2> HIDE DEF q
  <2>3. q # <<>> /\ Head(q) = q[1]
    BY <2>2
  <2> QED
    BY <2>1, <2>2, <2>3
<1>7. Program["ensure"] # <<>> /\ Head(Program["ensure"]) = "connect"
  <2>1. Program["ensure"] = <<"connect">>
    BY DEF Program
  <2> QED
    BY <2>1
<1>8. Program["live"] # <<>> /\ Head(Program["live"]) = "check"
  <2>1. Program["live"] = <<"check", "connect">>
    BY DEF Program
  <2> QED
    BY <2>1
<1>9. Program["refresh"] # <<>> /\ Head(Program["refresh"]) = "evict"
  <2>1. Program["refresh"] = <<"evict", "connect", "health">>
    BY DEF Program
  <2> QED
    BY <2>1
<1>10. Program["mark"] # <<>> /\ Head(Program["mark"]) = "evict"
  <2>1. Program["mark"] = <<"evict", "Disconnected", "health">>
    BY DEF Program
  <2> QED
    BY <2>1
<1>11. Program["walk"] # <<>> /\ Head(Program["walk"]) = "probe"
  <2>1. Program["walk"] = <<"probe">>
    BY DEF Program
  <2> QED
    BY <2>1
<1>12. Ops = {"add", "update", "password", "delete", "test", "setup", "ensure", "live", "refresh", "mark", "walk"}
  BY DEF Ops, Program
<1>13. \A op \in Ops : /\ Program[op] # <<>>
                       /\ Head(Program[op]) \in {"remember", "replace", "remove", "handshake", "authorize",
                                                "connect", "check", "evict", "probe"}
  BY <1>1, <1>2, <1>3, <1>4, <1>5, <1>6, <1>7, <1>8, <1>9, <1>10, <1>11, <1>12
<1>14. \A op \in SharesLock : Head(Program[op]) # "evict"
  BY <1>7, <1>8 DEF SharesLock
<1> QED
  BY <1>13, <1>14 DEF Settled

LEMMA OperateKeepsInv ==
    ASSUME ServerInv, NEW c \in Clients, NEW op \in Ops, NEW id \in Servers, Operate(c, op, id)
    PROVE  ServerInv'
<1> DEFINE r == [Idle EXCEPT !.op = op, !.id = id, !.todo = Program[op]]
<1>1. /\ client[c] = Idle /\ client' = [client EXCEPT ![c] = r]
      /\ crossed' = IF Crosses(op, id) THEN crossed \cup {id} ELSE crossed
      /\ UNCHANGED <<profiles, torn, passwords, hosts, flight, cooling, saveErrors, clobbered>>
  BY DEF Operate
<1>2. crossed \subseteq crossed' /\ crossed' \subseteq Servers
  BY <1>1 DEF ServerInv, Types
<1>3. Shape(op, Program[op]) /\ Program[op] \in Seq(Steps)
  BY Programs, ShapeIsSeq
<1>4. /\ r \in Records /\ r.op = op /\ r.id = id /\ r.todo = Program[op] /\ r.phase = "next"
      /\ r.shared = FALSE
  BY <1>3 DEF Idle, Records, NoCopy
<1> HIDE DEF r
<1>5. client'[c] = r /\ \A d \in Clients \ {c} : client'[d] = client[d]
  BY <1>1, <1>4, LiftedStep
<1>6. Sound(r)
  BY <1>3, <1>4 DEF Sound
<1>7. \A S : ~At(c, S)
  BY <1>1, IdleFacts DEF At, HeadIn
<1>8. \A t : Quiet(t)' => Quiet(t)
  BY <1>1, <1>2 DEF Quiet
<1>9. /\ ~HeadIn(r.todo, {"auto", "autoshaking"}) /\ ~HeadIn(r.todo, {"Disconnected"})
      /\ ~HeadIn(r.todo, Settled) /\ (op \in SharesLock => ~HeadIn(r.todo, {"evict", "Disconnected"}))
  BY <1>4, ProgramHeads DEF HeadIn
<1>10. Types'
  BY <1>1, <1>2, <1>4 DEF ServerInv, Types
<1>11. ClientsAreSound'
  BY <1>5, <1>6 DEF ServerInv, ClientsAreSound
<1>12. OthersShare'
  <2> SUFFICES ASSUME NEW s \in Servers \ crossed', NEW d \in Clients, NEW e \in Clients,
                      d # e, client'[d].id = s, client'[e].id = s
               PROVE  {client'[d].op, client'[e].op} \subseteq SharesLock
    BY DEF OthersShare
  <2>1. CASE d # c /\ e # c
    BY <1>2, <1>5, <2>1 DEF ServerInv, OthersShare
  <2>2. ASSUME NEW x \in Clients \ {c}, id = s, client[x].id = s
        PROVE  {op, client[x].op} \subseteq SharesLock
    <3>1. ~Crosses(op, id)
      BY <1>1, <2>2
    <3> QED
      BY <2>2, <3>1 DEF Crosses
  <2>3. CASE d = c
    BY <1>4, <1>5, <2>2, <2>3
  <2>4. CASE e = c
    BY <1>4, <1>5, <2>2, <2>4
  <2> QED
    BY <2>1, <2>3, <2>4
<1>13. OneRewrite'
  BY <1>1, <1>4, IdleFacts, RewritesStay
<1>14. LockIsHeld'
  <2> SUFFICES ASSUME NEW t \in Servers \ crossed', NEW d \in Clients, client'[d].id = t
               PROVE  /\ At(d, {"auto", "autoshaking"})' => flight'[t] = d
                      /\ (At(d, {"evict", "Disconnected"})' /\ client'[d].op \in SharesLock) => flight'[t] = d
    BY DEF LockIsHeld
  <2>1. CASE d = c
    BY <1>4, <1>5, <1>9, <2>1 DEF At
  <2>2. CASE d # c
    BY <1>1, <1>2, <1>5, <2>2 DEF At, ServerInv, LockIsHeld
  <2> QED
    BY <2>1, <2>2
<1>15. TargetIsThere'
  <2> SUFFICES ASSUME NEW t \in Servers, Quiet(t), NEW d \in Clients, client'[d].id = t, At(d, Settled)'
               PROVE  profiles[t] # NoServer
    BY <1>1, <1>8 DEF TargetIsThere, Settled
  <2>1. d # c
    BY <1>5, <1>9 DEF At
  <2> QED
    BY <1>5, <2>1 DEF At, ServerInv, TargetIsThere, Settled
<1>16. MarkedIsGone'
  <2> SUFFICES ASSUME NEW t \in Servers, Quiet(t), NEW d \in Clients, client'[d].id = t, At(d, {"Disconnected"})'
               PROVE  hosts[t] = "none"
    BY <1>1, <1>8 DEF MarkedIsGone
  <2>1. d # c
    BY <1>5, <1>9 DEF At
  <2> QED
    BY <1>5, <2>1 DEF At, ServerInv, MarkedIsGone
<1>17. HostIsMended'
  <2> SUFFICES ASSUME NEW t \in Servers, Quiet(t), hosts[t] # "none",
                      profiles[t].state \notin {"Connected", "Failed"}
               PROVE  \E d \in Clients : client'[d].id = t /\ At(d, {"evict", "forget", "Connected"})'
    BY <1>1, <1>8 DEF HostIsMended
  <2>1. PICK d \in Clients : client[d].id = t /\ At(d, {"evict", "forget", "Connected"})
    BY DEF ServerInv, HostIsMended
  <2>2. d # c
    BY <1>7, <2>1
  <2> QED
    BY <1>5, <2>1, <2>2 DEF At
<1> QED
  BY <1>10, <1>11, <1>12, <1>13, <1>14, <1>15, <1>16, <1>17 DEF ServerInv

\* A step of no task that leaves the file alone.  A connection may break.
LEMMA SurroundingStep ==
    ASSUME ServerInv, UNCHANGED <<profiles, torn, passwords, flight, client, saveErrors, clobbered, crossed>>,
           cooling' \subseteq Servers, hosts' \in [Servers -> {"none", "alive", "dead"}],
           \A t \in Servers : hosts'[t] = "none" <=> hosts[t] = "none"
    PROVE  ServerInv'
<1>1. \A t : Quiet(t)' <=> Quiet(t)
  BY DEF Quiet
<1>2. Types' /\ ClientsAreSound' /\ OthersShare' /\ OneRewrite'
  BY DEF ServerInv, Types, ClientsAreSound, OthersShare, OneRewrite, Rewriting
<1>3. LockIsHeld' /\ TargetIsThere'
  BY <1>1 DEF ServerInv, LockIsHeld, TargetIsThere, At
<1>4. MarkedIsGone'
  BY <1>1 DEF ServerInv, MarkedIsGone, At
<1>5. HostIsMended'
  BY <1>1 DEF ServerInv, HostIsMended, At
<1> QED
  BY <1>2, <1>3, <1>4, <1>5 DEF ServerInv

LEMMA RestartKeepsInv ==
    ASSUME ServerInv, Restart
    PROVE  ServerInv'
<1>1. /\ hosts' = [s \in Servers |-> "none"] /\ flight' = [s \in Servers |-> NoClient]
      /\ cooling' = {} /\ client' = [c \in Clients |-> Idle] /\ clobbered' = (clobbered \/ torn)
      /\ crossed' = crossed \cup {client[c].id : c \in {d \in Clients : client[d] # Idle}}
      /\ UNCHANGED <<profiles, torn, passwords, saveErrors>>
  BY DEF Restart
<1>2. crossed' \subseteq Servers
  BY <1>1, ClientFacts DEF ServerInv, Types, Sound
<1>3. Types'
  BY <1>1, <1>2, IdleFacts DEF ServerInv, Types
<1>4. \A d \in Clients : client'[d] = Idle
  BY <1>1
<1>5. \A S : \A d \in Clients : ~At(d, S)'
  BY <1>4, IdleFacts DEF At, HeadIn
<1>6. ClientsAreSound' /\ OthersShare'
  BY <1>4, IdleFacts DEF ClientsAreSound, OthersShare
<1>7. OneRewrite'
  BY <1>1, <1>4, IdleFacts DEF OneRewrite, Rewriting
<1>8. LockIsHeld' /\ TargetIsThere' /\ MarkedIsGone'
  BY <1>5 DEF LockIsHeld, TargetIsThere, MarkedIsGone
<1>9. HostIsMended'
  BY <1>1 DEF HostIsMended
<1> QED
  BY <1>3, <1>6, <1>7, <1>8, <1>9 DEF ServerInv

LEMMA ServerInitInv == ServerInit => ServerInv
<1> SUFFICES ASSUME ServerInit PROVE ServerInv
  OBVIOUS
<1>1. /\ profiles \in [Servers -> {NoServer, NewServer, [NewServer EXCEPT !.state = "Connected"]}]
      /\ torn = FALSE /\ passwords = {s \in Servers : profiles[s] # NoServer}
      /\ hosts = [s \in Servers |-> IF profiles[s].state = "Connected" THEN "alive" ELSE "none"]
      /\ flight = [s \in Servers |-> NoClient] /\ cooling = {}
      /\ client = [c \in Clients |-> Idle]
      /\ saveErrors = 0 /\ clobbered = FALSE /\ crossed = {}
  BY DEF ServerInit
<1>2. {NoServer, NewServer, [NewServer EXCEPT !.state = "Connected"]} \subseteq Profiles
  BY DEF Profiles, NoServer, NewServer, ServerState
<1>3. profiles \in [Servers -> Profiles]
  BY <1>1, <1>2
<1>4. Types
  BY <1>1, <1>3, IdleFacts DEF Types
<1>5. \A d \in Clients : client[d] = Idle
  BY <1>1
<1>6. \A S : \A d \in Clients : ~At(d, S)
  BY <1>5, IdleFacts DEF At, HeadIn
<1>7. ClientsAreSound /\ OthersShare
  BY <1>5, IdleFacts DEF ClientsAreSound, OthersShare
<1>8. OneRewrite
  BY <1>1, <1>5, IdleFacts DEF OneRewrite, Rewriting
<1>9. LockIsHeld /\ TargetIsThere /\ MarkedIsGone
  BY <1>6 DEF LockIsHeld, TargetIsThere, MarkedIsGone
<1>10. HostIsMended
  BY <1>1 DEF HostIsMended
<1> QED
  BY <1>4, <1>7, <1>8, <1>9, <1>10 DEF ServerInv

-----------------------------------------------------------------------------
(* The theorems.                                                           *)

THEOREM ServerInvariance == ServerSpec => []ServerInv
<1>1. ServerInit => ServerInv
  BY ServerInitInv
<1>2. ServerInv /\ [ServerNext]_serverVars => ServerInv'
  <2> SUFFICES ASSUME ServerInv, [ServerNext]_serverVars PROVE ServerInv'
    OBVIOUS
  <2>1. ASSUME NEW c \in Clients, NEW op \in Ops, NEW s \in Servers, Operate(c, op, s) PROVE ServerInv'
    BY <2>1, OperateKeepsInv
  <2>2. ASSUME NEW c \in Clients, Rewrite(c) PROVE ServerInv'
    BY <2>2, LoadKeepsInv, ChangeKeepsInv, WriteBackKeepsInv, SaveFailsKeepsInv DEF Rewrite
  <2>3. ASSUME NEW c \in Clients, ConnectStep(c) PROVE ServerInv'
    BY <2>3, HandshakeKeepsInv, AnsweredKeepsInv, ConnectKeepsInv, LockKeepsInv, AutoKeepsInv,
       CoolKeepsInv, WarmKeepsInv, UnlockKeepsInv, CheckKeepsInv, ProbeKeepsInv DEF ConnectStep
  <2>4. ASSUME NEW c \in Clients, OtherStep(c) PROVE ServerInv'
    BY <2>4, RememberKeepsInv, ForgetKeepsInv, EvictKeepsInv, AuthorizeKeepsInv, DropPasswordKeepsInv,
       KeepKeepsInv, FinishedKeepsInv DEF OtherStep
  <2>5. ASSUME NEW s \in Servers, CoolDownEnds(s) PROVE ServerInv'
    <3>1. /\ UNCHANGED <<profiles, torn, passwords, hosts, flight, client, saveErrors, clobbered, crossed>>
          /\ cooling' \subseteq cooling
      BY <2>5 DEF CoolDownEnds
    <3> QED
      BY <3>1, TypesFacts, SurroundingStep
  <2>6. ASSUME NEW s \in Servers, Break(s) PROVE ServerInv'
    <3>1. /\ UNCHANGED <<profiles, torn, passwords, flight, cooling, client, saveErrors, clobbered, crossed>>
          /\ hosts[s] = "alive" /\ hosts' = [hosts EXCEPT ![s] = "dead"]
      BY <2>6 DEF Break
    <3>2. /\ cooling' \subseteq Servers /\ hosts' \in [Servers -> {"none", "alive", "dead"}]
          /\ \A t \in Servers : hosts'[t] = "none" <=> hosts[t] = "none"
      BY <3>1, TypesFacts
    <3> QED
      BY <3>1, <3>2, SurroundingStep
  <2>7. CASE Restart
    BY <2>7, RestartKeepsInv
  <2>8. CASE UNCHANGED serverVars
    <3>1. UNCHANGED <<profiles, torn, passwords, hosts, flight, cooling, client, saveErrors, clobbered, crossed>>
      BY <2>8 DEF serverVars
    <3> QED
      BY <3>1, TypesFacts, SurroundingStep
  <2> QED
    BY <2>1, <2>2, <2>3, <2>4, <2>5, <2>6, <2>7, <2>8 DEF ServerNext, Ops
<1> QED
  BY <1>1, <1>2, PTL DEF ServerSpec

\* The state of the server manager is well typed, whatever its operations do.
THEOREM ServerTypeCorrect == ServerSpec => []ServerTypeOK
<1>1. ServerInv => ServerTypeOK
  <2> SUFFICES ASSUME ServerInv PROVE ServerTypeOK
    OBVIOUS
  <2>1. \A s \in Servers : /\ profiles[s] \in Profiles /\ hosts[s] \in {"none", "alive", "dead"}
                           /\ flight[s] \in Clients \cup {NoClient}
    BY DEF ServerInv, Types
  <2>2. passwords \subseteq Servers /\ cooling \subseteq Servers /\ crossed \subseteq Servers
    BY DEF ServerInv, Types
  <2>3. \A c \in Clients : client[c].phase \in {"next", "loaded", "open"}
    BY ClientFacts DEF Records
  <2> QED
    BY <2>1, <2>2, <2>3 DEF ServerTypeOK, Profiles
<1> QED
  BY <1>1, ServerInvariance, PTL

\* At most one automatic handshake with a server is under way: the tasks that
\* shake hands hold the server's connect lock.
THEOREM ConnectsCorrect == ServerSpec => []ConnectsAreSingle
<1>1. ServerInv => ConnectsAreSingle
  <2> SUFFICES ASSUME ServerInv, NEW s \in Servers \ crossed
               PROVE  Cardinality({c \in Clients : client[c].id = s /\ Doing(c, "autoshaking")}) <= 1
    BY DEF ConnectsAreSingle
  <2> DEFINE S == {c \in Clients : client[c].id = s /\ Doing(c, "autoshaking")}
  <2>1. \A c \in S : flight[s] = c
    BY DoingFacts DEF ServerInv, LockIsHeld
  <2>2. S = {} \/ S = {flight[s]}
    BY <2>1
  <2>3. Cardinality({}) = 0 /\ Cardinality({flight[s]}) = 1
    BY FS_EmptySet, FS_Singleton
  <2> QED
    BY <2>2, <2>3
<1> QED
  BY <1>1, ServerInvariance, PTL

\* When nobody works on a server, its cached connection is one the probe loop
\* looks at: no step is left that would say so, so the profile does.
THEOREM CachedHostCorrect == ServerSpec => []CachedHostIsWatched
<1>1. ServerInv => CachedHostIsWatched
  <2> SUFFICES ASSUME ServerInv, ~clobbered, NEW s \in Servers, AtRest(s), hosts[s] # "none", saveErrors = 0
               PROVE  profiles[s].state \in {"Connected", "Failed"}
    BY DEF CachedHostIsWatched
  <2>1. Quiet(s) /\ \A c \in Clients : client[c].id # s
    BY DEF AtRest, Quiet
  <2> QED
    BY <2>1 DEF ServerInv, HostIsMended
<1> QED
  BY <1>1, ServerInvariance, PTL

-----------------------------------------------------------------------------
(* The stack.                                                              *)

Holders == UsersAt(Holding)

\* Nobody holds a reference the daemon has not counted: only an attachment
\* beside counted bots breaks it, and a lost reference leaves it too high.
HoldersAreCounted ==
    /\ IsFiniteSet(Holders)
    /\ "uncounted" \notin excuses => Cardinality(Holders) <= refcount
    /\ excuses \cap {"lost", "uncounted"} = {} => Cardinality(Holders) = refcount

\* While the stack is stopped nobody starts on it, attaches to it or holds it.
StopIsAlone ==
    \A s \in StackBots : user[s].at \in Stopping =>
        \A b \in StackBots : user[b].at \notin Ensuring \cup Attaching \cup Holding

Raised == {"opening", "counting", "attach opening", "attach counting"} \cup Holding
Reached == {"counting", "attach counting"} \cup Holding

\* Who is past the check of the stack finds it up, and who is past the
\* tunnels knows the endpoints.
UsersAreServed ==
    \A b \in StackBots : /\ user[b].at \in Raised => stack
                         /\ user[b].at \in Reached => endpoints

Served == excuses \cap {"overlap", "uncounted"} = {} => StopIsAlone /\ UsersAreServed

StackInv == StackTypeOK /\ HoldersAreCounted /\ Served

UserRecord == [at : StackPc, cold : BOOLEAN, attached : BOOLEAN]

\* Every step of one bot: it changes that bot's entry alone.
Moves(b, u) == user' = [user EXCEPT ![b] = u]

\* What a step of one bot does to the set of those that hold a reference.
LEMMA HoldersMove ==
    ASSUME StackTypeOK, IsFiniteSet(Holders), NEW b \in StackBots, NEW u \in UserRecord,
           Moves(b, u)
    PROVE  /\ user' \in [StackBots -> UserRecord]
           /\ IsFiniteSet(Holders')
           /\ Cardinality(Holders) \in Nat /\ Cardinality(Holders') \in Nat
           /\ (u.at \in Holding <=> user[b].at \in Holding)
                  => Cardinality(Holders') = Cardinality(Holders)
           /\ u.at \in Holding /\ user[b].at \notin Holding
                  => Cardinality(Holders') = Cardinality(Holders) + 1
           /\ u.at \notin Holding /\ user[b].at \in Holding
                  => Cardinality(Holders') = Cardinality(Holders) - 1
<1>1. user' \in [StackBots -> UserRecord]
  BY DEF StackTypeOK, Moves, UserRecord
<1>2. \A c \in StackBots : user'[c] = IF c = b THEN u ELSE user[c]
  BY DEF StackTypeOK, Moves
<1>3. u.at \in Holding => Holders' = Holders \cup {b}
  BY <1>2 DEF Holders, UsersAt
<1>4. u.at \notin Holding => Holders' = Holders \ {b}
  BY <1>2 DEF Holders, UsersAt
<1>5. b \in Holders <=> user[b].at \in Holding
  BY DEF Holders, UsersAt
<1>6. Cardinality(Holders) \in Nat
  BY FS_CardinalityType
<1>7. IsFiniteSet(Holders')
  BY <1>3, <1>4, FS_AddElement, FS_RemoveElement
<1>8. Cardinality(Holders') \in Nat
  BY <1>7, FS_CardinalityType
<1>9. u.at \in Holding =>
        Cardinality(Holders') = IF b \in Holders THEN Cardinality(Holders) ELSE Cardinality(Holders) + 1
  BY <1>3, FS_AddElement
<1>10. u.at \notin Holding =>
        Cardinality(Holders') = IF b \in Holders THEN Cardinality(Holders) - 1 ELSE Cardinality(Holders)
  BY <1>4, FS_RemoveElement
<1> QED
  BY <1>1, <1>5, <1>6, <1>7, <1>8, <1>9, <1>10

\* A step of one bot between places on the same side of the count.
LEMMA HoldersStay ==
    ASSUME StackInv, NEW b \in StackBots, NEW u \in UserRecord, Moves(b, u),
           u.at \in Holding <=> user[b].at \in Holding,
           refcount' = refcount, excuses \subseteq excuses'
    PROVE  HoldersAreCounted'
<1>1. IsFiniteSet(Holders') /\ Cardinality(Holders') = Cardinality(Holders)
  BY HoldersMove DEF StackInv, HoldersAreCounted
<1> QED
  BY <1>1 DEF StackInv, HoldersAreCounted

\* A start or release that fails has lost a reference: the count is too high.
LEMMA HoldersLeave ==
    ASSUME StackInv, NEW b \in StackBots, NEW u \in UserRecord, Moves(b, u),
           user[b].at \in Holding, u.at \notin Holding,
           refcount' = refcount, excuses' = excuses \cup {"lost"}
    PROVE  HoldersAreCounted'
<1>1. IsFiniteSet(Holders') /\ Cardinality(Holders') = Cardinality(Holders) - 1
      /\ Cardinality(Holders) \in Nat /\ refcount \in Nat
  BY HoldersMove DEF StackInv, HoldersAreCounted, StackTypeOK
<1>2. "lost" \in excuses' /\ ("uncounted" \in excuses' <=> "uncounted" \in excuses)
  OBVIOUS
<1>3. "uncounted" \notin excuses => Cardinality(Holders) <= refcount
  BY DEF StackInv, HoldersAreCounted
<1>4. "uncounted" \notin excuses' => Cardinality(Holders') <= refcount'
  BY <1>1, <1>2, <1>3
<1> QED
  BY <1>1, <1>2, <1>4 DEF HoldersAreCounted

\* The places that the stop of the stack must not meet.
Using == Ensuring \cup Attaching \cup Holding

\* A step of one bot that takes nothing from the others and begins nothing
\* the stop of the stack could meet.
LEMMA ServedStays ==
    ASSUME StackInv, NEW b \in StackBots, NEW u \in UserRecord, Moves(b, u),
           excuses \subseteq excuses', stack => stack', endpoints => endpoints',
           u.at \in Stopping => user[b].at \in Stopping,
           u.at \in Using => user[b].at \in Using,
           u.at \in Raised => user[b].at \in Raised \/ stack',
           u.at \in Reached => user[b].at \in Reached \/ endpoints'
    PROVE  Served'
<1>1. \A c \in StackBots : user'[c] = IF c = b THEN u ELSE user[c]
  BY DEF Moves, StackInv, StackTypeOK
<1>2. SUFFICES ASSUME excuses' \cap {"overlap", "uncounted"} = {} PROVE (StopIsAlone /\ UsersAreServed)'
  BY DEF Served
<1>3. StopIsAlone /\ UsersAreServed
  BY <1>2 DEF StackInv, Served
<1>4. StopIsAlone'
  BY <1>1, <1>3 DEF StopIsAlone, Using
<1>5. UsersAreServed'
  BY <1>1, <1>3 DEF UsersAreServed
<1> QED
  BY <1>4, <1>5

LEMMA BeginStartKeepsInv ==
    ASSUME StackInv, NEW b \in StackBots, NEW cold \in BOOLEAN, BeginStart(b, cold)
    PROVE  StackInv'
<1> DEFINE u == [at |-> "waiting", cold |-> cold, attached |-> FALSE]
<1>1. u \in UserRecord /\ Moves(b, u)
  BY DEF BeginStart, Goes, Moves, StackInv, StackTypeOK, UserRecord, StackPc, Holding, Ensuring, Attaching, Stopping
<1>2. user' \in [StackBots -> UserRecord]
  BY <1>1 DEF Moves, StackInv, StackTypeOK, UserRecord
<1>3. StackTypeOK'
  BY <1>2 DEF BeginStart, StackInv, StackTypeOK, UserRecord
<1>4. /\ u.at \in Holding <=> user[b].at \in Holding
      /\ refcount' = refcount /\ excuses \subseteq excuses'
  BY DEF BeginStart, Holding, StackInv, StackTypeOK
<1>6. /\ excuses \subseteq excuses'
      /\ stack => stack'
      /\ endpoints => endpoints'
      /\ u.at \in Stopping => user[b].at \in Stopping
      /\ u.at \in Using => user[b].at \in Using
      /\ u.at \in Raised => user[b].at \in Raised \/ stack'
      /\ u.at \in Reached => user[b].at \in Reached \/ endpoints'
  BY DEF BeginStart, Goes, Loses, Using, Raised, Reached, Ensuring, Attaching, Holding, Stopping,
         StackInv, StackTypeOK
<1> HIDE DEF u
<1>5. HoldersAreCounted'
  BY <1>1, <1>4, HoldersStay
<1>7. Served'
  BY <1>1, <1>6, ServedStays
<1> QED
  BY <1>3, <1>5, <1>7 DEF StackInv

LEMMA EnterBootstrapKeepsInv ==
    ASSUME StackInv, NEW b \in StackBots, EnterBootstrap(b)
    PROVE  StackInv'
<1> DEFINE u == [user[b] EXCEPT !.at = "checking"]
<1>1. u \in UserRecord /\ Moves(b, u)
  BY DEF EnterBootstrap, Goes, Moves, StackInv, StackTypeOK, UserRecord, StackPc, Holding, Ensuring, Attaching, Stopping
<1>2. user' \in [StackBots -> UserRecord]
  BY <1>1 DEF Moves, StackInv, StackTypeOK, UserRecord
<1>3. StackTypeOK'
  BY <1>2 DEF EnterBootstrap, StackInv, StackTypeOK, UserRecord
<1>4. /\ u.at \in Holding <=> user[b].at \in Holding
      /\ refcount' = refcount /\ excuses \subseteq excuses'
  BY DEF EnterBootstrap, Holding, StackInv, StackTypeOK
<1> HIDE DEF u
<1>5. HoldersAreCounted'
  BY <1>1, <1>4, HoldersStay
<1>6. user'[b] = u /\ \A c \in StackBots : c # b => user'[c] = user[c]
  BY <1>1 DEF Moves, StackInv, StackTypeOK
<1>7. Served'
  <2>1. SUFFICES ASSUME excuses' \cap {"overlap", "uncounted"} = {} PROVE (StopIsAlone /\ UsersAreServed)'
    BY DEF Served
  <2>2. excuses' = excuses /\ UsersAt(Stopping) = {}
    BY <2>1 DEF EnterBootstrap
  <2>3. StopIsAlone /\ UsersAreServed
    BY <2>1, <2>2 DEF StackInv, Served
  <2>4. u.at \notin Stopping \cup Raised \cup Reached
    BY DEF u, Stopping, Raised, Reached, Holding, StackInv, StackTypeOK
  <2>5. StopIsAlone'
    BY <1>6, <2>2, <2>4 DEF StopIsAlone, UsersAt
  <2>6. UsersAreServed'
    BY <1>6, <2>3, <2>4 DEF UsersAreServed, EnterBootstrap
  <2> QED
    BY <2>5, <2>6
<1> QED
  BY <1>3, <1>5, <1>7 DEF StackInv

LEMMA CheckStackKeepsInv ==
    ASSUME StackInv, NEW b \in StackBots, CheckStack(b)
    PROVE  StackInv'
<1> DEFINE u == [user[b] EXCEPT !.at = IF stack THEN "joining" ELSE "raising"]
<1>1. u \in UserRecord /\ Moves(b, u)
  BY DEF CheckStack, Goes, Moves, StackInv, StackTypeOK, UserRecord, StackPc, Holding, Ensuring, Attaching, Stopping
<1>2. user' \in [StackBots -> UserRecord]
  BY <1>1 DEF Moves, StackInv, StackTypeOK, UserRecord
<1>3. StackTypeOK'
  BY <1>2 DEF CheckStack, StackInv, StackTypeOK, UserRecord
<1>4. /\ u.at \in Holding <=> user[b].at \in Holding
      /\ refcount' = refcount /\ excuses \subseteq excuses'
  BY DEF CheckStack, Holding, StackInv, StackTypeOK
<1>6. /\ excuses \subseteq excuses'
      /\ stack => stack'
      /\ endpoints => endpoints'
      /\ u.at \in Stopping => user[b].at \in Stopping
      /\ u.at \in Using => user[b].at \in Using
      /\ u.at \in Raised => user[b].at \in Raised \/ stack'
      /\ u.at \in Reached => user[b].at \in Reached \/ endpoints'
  BY DEF CheckStack, Goes, Loses, Using, Raised, Reached, Ensuring, Attaching, Holding, Stopping,
         StackInv, StackTypeOK
<1> HIDE DEF u
<1>5. HoldersAreCounted'
  BY <1>1, <1>4, HoldersStay
<1>7. Served'
  BY <1>1, <1>6, ServedStays
<1> QED
  BY <1>3, <1>5, <1>7 DEF StackInv

LEMMA RaiseKeepsInv ==
    ASSUME StackInv, NEW b \in StackBots, Raise(b)
    PROVE  StackInv'
<1> DEFINE u == [user[b] EXCEPT !.at = "opening"]
<1>1. u \in UserRecord /\ Moves(b, u)
  BY DEF Raise, Goes, Moves, StackInv, StackTypeOK, UserRecord, StackPc, Holding, Ensuring, Attaching, Stopping
<1>2. user' \in [StackBots -> UserRecord]
  BY <1>1 DEF Moves, StackInv, StackTypeOK, UserRecord
<1>3. StackTypeOK'
  BY <1>2 DEF Raise, StackInv, StackTypeOK, UserRecord
<1>4. /\ u.at \in Holding <=> user[b].at \in Holding
      /\ refcount' = refcount /\ excuses \subseteq excuses'
  BY DEF Raise, Holding, StackInv, StackTypeOK
<1>6. /\ excuses \subseteq excuses'
      /\ stack => stack'
      /\ endpoints => endpoints'
      /\ u.at \in Stopping => user[b].at \in Stopping
      /\ u.at \in Using => user[b].at \in Using
      /\ u.at \in Raised => user[b].at \in Raised \/ stack'
      /\ u.at \in Reached => user[b].at \in Reached \/ endpoints'
  BY DEF Raise, Goes, Loses, Using, Raised, Reached, Ensuring, Attaching, Holding, Stopping,
         StackInv, StackTypeOK
<1> HIDE DEF u
<1>5. HoldersAreCounted'
  BY <1>1, <1>4, HoldersStay
<1>7. Served'
  BY <1>1, <1>6, ServedStays
<1> QED
  BY <1>3, <1>5, <1>7 DEF StackInv

LEMMA JoinKeepsInv ==
    ASSUME StackInv, NEW b \in StackBots, Join(b)
    PROVE  StackInv'
<1> DEFINE u == [user[b] EXCEPT !.at = "opening"]
<1>1. u \in UserRecord /\ Moves(b, u)
  BY DEF Join, Goes, Moves, StackInv, StackTypeOK, UserRecord, StackPc, Holding, Ensuring, Attaching, Stopping
<1>2. user' \in [StackBots -> UserRecord]
  BY <1>1 DEF Moves, StackInv, StackTypeOK, UserRecord
<1>3. StackTypeOK'
  BY <1>2 DEF Join, StackInv, StackTypeOK, UserRecord
<1>4. /\ u.at \in Holding <=> user[b].at \in Holding
      /\ refcount' = refcount /\ excuses \subseteq excuses'
  BY DEF Join, Holding, StackInv, StackTypeOK
<1>6. /\ excuses \subseteq excuses'
      /\ stack => stack'
      /\ endpoints => endpoints'
      /\ u.at \in Stopping => user[b].at \in Stopping
      /\ u.at \in Using => user[b].at \in Using
      /\ u.at \in Raised => user[b].at \in Raised \/ stack'
      /\ u.at \in Reached => user[b].at \in Reached \/ endpoints'
  BY DEF Join, Goes, Loses, Using, Raised, Reached, Ensuring, Attaching, Holding, Stopping,
         StackInv, StackTypeOK
<1> HIDE DEF u
<1>5. HoldersAreCounted'
  BY <1>1, <1>4, HoldersStay
<1>7. Served'
  BY <1>1, <1>6, ServedStays
<1> QED
  BY <1>3, <1>5, <1>7 DEF StackInv

LEMMA EnsureFailsKeepsInv ==
    ASSUME StackInv, NEW b \in StackBots, EnsureFails(b)
    PROVE  StackInv'
<1> DEFINE u == [user[b] EXCEPT !.at = "off"]
<1>1. u \in UserRecord /\ Moves(b, u)
  BY DEF EnsureFails, Goes, Moves, StackInv, StackTypeOK, UserRecord, StackPc, Holding, Ensuring, Attaching, Stopping
<1>2. user' \in [StackBots -> UserRecord]
  BY <1>1 DEF Moves, StackInv, StackTypeOK, UserRecord
<1>3. StackTypeOK'
  BY <1>2 DEF EnsureFails, StackInv, StackTypeOK, UserRecord
<1>4. /\ u.at \in Holding <=> user[b].at \in Holding
      /\ refcount' = refcount /\ excuses \subseteq excuses'
  BY DEF EnsureFails, Holding, Ensuring, StackInv, StackTypeOK
<1>6. /\ excuses \subseteq excuses'
      /\ stack => stack'
      /\ endpoints => endpoints'
      /\ u.at \in Stopping => user[b].at \in Stopping
      /\ u.at \in Using => user[b].at \in Using
      /\ u.at \in Raised => user[b].at \in Raised \/ stack'
      /\ u.at \in Reached => user[b].at \in Reached \/ endpoints'
  BY DEF EnsureFails, Goes, Loses, Using, Raised, Reached, Ensuring, Attaching, Holding, Stopping,
         StackInv, StackTypeOK
<1> HIDE DEF u
<1>5. HoldersAreCounted'
  BY <1>1, <1>4, HoldersStay
<1>7. Served'
  BY <1>1, <1>6, ServedStays
<1> QED
  BY <1>3, <1>5, <1>7 DEF StackInv

LEMMA OpenTunnelsKeepsInv ==
    ASSUME StackInv, NEW b \in StackBots, OpenTunnels(b)
    PROVE  StackInv'
<1> DEFINE u == [user[b] EXCEPT !.at = IF user[b].at = "opening" THEN "counting" ELSE "attach counting"]
<1>1. u \in UserRecord /\ Moves(b, u)
  BY DEF OpenTunnels, Goes, Moves, StackInv, StackTypeOK, UserRecord, StackPc, Holding, Ensuring, Attaching, Stopping
<1>2. user' \in [StackBots -> UserRecord]
  BY <1>1 DEF Moves, StackInv, StackTypeOK, UserRecord
<1>a. tunnels \in Nat
  BY DEF StackInv, StackTypeOK
<1>b. tunnels' \in Nat
  <2>1. tunnels' = tunnels + 1
    BY Zenon DEF OpenTunnels
  <2> QED
    BY <1>a, <2>1
<1>3. StackTypeOK'
  BY <1>2, <1>b DEF OpenTunnels, StackInv, StackTypeOK, UserRecord
<1>4. /\ u.at \in Holding <=> user[b].at \in Holding
      /\ refcount' = refcount /\ excuses \subseteq excuses'
  BY DEF OpenTunnels, Holding, StackInv, StackTypeOK
<1>6. /\ excuses \subseteq excuses'
      /\ stack => stack'
      /\ endpoints => endpoints'
      /\ u.at \in Stopping => user[b].at \in Stopping
      /\ u.at \in Using => user[b].at \in Using
      /\ u.at \in Raised => user[b].at \in Raised \/ stack'
      /\ u.at \in Reached => user[b].at \in Reached \/ endpoints'
  BY DEF OpenTunnels, Goes, Loses, Using, Raised, Reached, Ensuring, Attaching, Holding, Stopping,
         StackInv, StackTypeOK
<1> HIDE DEF u
<1>5. HoldersAreCounted'
  BY <1>1, <1>4, HoldersStay
<1>7. Served'
  BY <1>1, <1>6, ServedStays
<1> QED
  BY <1>3, <1>5, <1>7 DEF StackInv

LEMMA PrepareFailsKeepsInv ==
    ASSUME StackInv, NEW b \in StackBots, PrepareFails(b)
    PROVE  StackInv'
<1>a. PICK p \in {"dropping", "off"} :
          /\ Goes(b, p)
          /\ p = "dropping" => excuses' = excuses
          /\ p = "off" => excuses' = excuses \cup {"lost"}
  <2>1. CASE Goes(b, "dropping") /\ UNCHANGED excuses
    BY <2>1, Zenon
  <2>2. CASE Goes(b, "off") /\ excuses' = excuses \cup {"lost"}
    BY <2>2, Zenon
  <2> QED
    BY <2>1, <2>2 DEF PrepareFails, Loses
<1> DEFINE u == [user[b] EXCEPT !.at = p]
<1>1. u \in UserRecord /\ Moves(b, u)
  BY <1>a DEF Goes, Moves, StackInv, StackTypeOK, UserRecord, StackPc, Holding, Ensuring, Attaching, Stopping
<1>2. user' \in [StackBots -> UserRecord]
  BY <1>1 DEF Moves, StackInv, StackTypeOK, UserRecord
<1>3. StackTypeOK'
  BY <1>a, <1>2 DEF PrepareFails, StackInv, StackTypeOK, UserRecord
<1>4. /\ user[b].at \in Holding /\ refcount' = refcount
      /\ \/ u.at \in Holding /\ excuses' = excuses
         \/ u.at \notin Holding /\ excuses' = excuses \cup {"lost"}
  BY <1>a DEF PrepareFails, Goes, Loses, Holding, StackInv, StackTypeOK
<1>6. /\ excuses \subseteq excuses'
      /\ stack => stack'
      /\ endpoints => endpoints'
      /\ u.at \in Stopping => user[b].at \in Stopping
      /\ u.at \in Using => user[b].at \in Using
      /\ u.at \in Raised => user[b].at \in Raised \/ stack'
      /\ u.at \in Reached => user[b].at \in Reached \/ endpoints'
  BY ZenonT(40), <1>a DEF PrepareFails, Goes, Loses, Using, Raised, Reached, Ensuring, Attaching, Holding, Stopping,
         StackInv, StackTypeOK
<1> HIDE DEF u
<1>5. HoldersAreCounted'
  BY <1>1, <1>4, HoldersLeave, HoldersStay
<1>7. Served'
  BY <1>1, <1>6, ServedStays
<1> QED
  BY <1>3, <1>5, <1>7 DEF StackInv

LEMMA PrepareKeepsInv ==
    ASSUME StackInv, NEW b \in StackBots, Prepare(b)
    PROVE  StackInv'
<1> DEFINE u == [user[b] EXCEPT !.at = "asking"]
<1>1. u \in UserRecord /\ Moves(b, u)
  BY DEF Prepare, Goes, Moves, StackInv, StackTypeOK, UserRecord, StackPc, Holding, Ensuring, Attaching, Stopping
<1>2. user' \in [StackBots -> UserRecord]
  BY <1>1 DEF Moves, StackInv, StackTypeOK, UserRecord
<1>3. StackTypeOK'
  BY <1>2 DEF Prepare, StackInv, StackTypeOK, UserRecord
<1>4. /\ u.at \in Holding <=> user[b].at \in Holding
      /\ refcount' = refcount /\ excuses \subseteq excuses'
  BY DEF Prepare, Holding, StackInv, StackTypeOK
<1>6. /\ excuses \subseteq excuses'
      /\ stack => stack'
      /\ endpoints => endpoints'
      /\ u.at \in Stopping => user[b].at \in Stopping
      /\ u.at \in Using => user[b].at \in Using
      /\ u.at \in Raised => user[b].at \in Raised \/ stack'
      /\ u.at \in Reached => user[b].at \in Reached \/ endpoints'
  BY DEF Prepare, Goes, Loses, Using, Raised, Reached, Ensuring, Attaching, Holding, Stopping,
         StackInv, StackTypeOK
<1> HIDE DEF u
<1>5. HoldersAreCounted'
  BY <1>1, <1>4, HoldersStay
<1>7. Served'
  BY <1>1, <1>6, ServedStays
<1> QED
  BY <1>3, <1>5, <1>7 DEF StackInv

LEMMA AskEndpointsKeepsInv ==
    ASSUME StackInv, NEW b \in StackBots, AskEndpoints(b)
    PROVE  StackInv'
<1> DEFINE u == [user[b] EXCEPT !.at = IF endpoints THEN "injecting" ELSE "off"]
<1>1. u \in UserRecord /\ Moves(b, u)
  BY DEF AskEndpoints, Goes, Loses, Moves, StackInv, StackTypeOK, UserRecord, StackPc, Holding, Ensuring, Attaching, Stopping
<1>2. user' \in [StackBots -> UserRecord]
  BY <1>1 DEF Moves, StackInv, StackTypeOK, UserRecord
<1>3. StackTypeOK'
  BY <1>2 DEF AskEndpoints, Loses, StackInv, StackTypeOK, UserRecord
<1>4. /\ user[b].at \in Holding /\ refcount' = refcount
      /\ \/ u.at \in Holding /\ excuses' = excuses
         \/ u.at \notin Holding /\ excuses' = excuses \cup {"lost"}
  BY DEF AskEndpoints, Goes, Loses, Holding, StackInv, StackTypeOK
<1>6. /\ excuses \subseteq excuses'
      /\ stack => stack'
      /\ endpoints => endpoints'
      /\ u.at \in Stopping => user[b].at \in Stopping
      /\ u.at \in Using => user[b].at \in Using
      /\ u.at \in Raised => user[b].at \in Raised \/ stack'
      /\ u.at \in Reached => user[b].at \in Reached \/ endpoints'
  BY DEF AskEndpoints, Goes, Loses, Using, Raised, Reached, Ensuring, Attaching, Holding, Stopping,
         StackInv, StackTypeOK
<1> HIDE DEF u
<1>5. HoldersAreCounted'
  BY <1>1, <1>4, HoldersLeave, HoldersStay
<1>7. Served'
  BY <1>1, <1>6, ServedStays
<1> QED
  BY <1>3, <1>5, <1>7 DEF StackInv

LEMMA InjectKeepsInv ==
    ASSUME StackInv, NEW b \in StackBots, Inject(b)
    PROVE  StackInv'
<1> DEFINE u == [user[b] EXCEPT !.at = "running"]
<1>1. u \in UserRecord /\ Moves(b, u)
  BY DEF Inject, Goes, Moves, StackInv, StackTypeOK, UserRecord, StackPc, Holding, Ensuring, Attaching, Stopping
<1>2. user' \in [StackBots -> UserRecord]
  BY <1>1 DEF Moves, StackInv, StackTypeOK, UserRecord
<1>3. StackTypeOK'
  BY <1>2 DEF Inject, StackInv, StackTypeOK, UserRecord
<1>4. /\ u.at \in Holding <=> user[b].at \in Holding
      /\ refcount' = refcount /\ excuses \subseteq excuses'
  BY DEF Inject, Holding, StackInv, StackTypeOK
<1>6. /\ excuses \subseteq excuses'
      /\ stack => stack'
      /\ endpoints => endpoints'
      /\ u.at \in Stopping => user[b].at \in Stopping
      /\ u.at \in Using => user[b].at \in Using
      /\ u.at \in Raised => user[b].at \in Raised \/ stack'
      /\ u.at \in Reached => user[b].at \in Reached \/ endpoints'
  BY DEF Inject, Goes, Loses, Using, Raised, Reached, Ensuring, Attaching, Holding, Stopping,
         StackInv, StackTypeOK
<1> HIDE DEF u
<1>5. HoldersAreCounted'
  BY <1>1, <1>4, HoldersStay
<1>7. Served'
  BY <1>1, <1>6, ServedStays
<1> QED
  BY <1>3, <1>5, <1>7 DEF StackInv

LEMMA InjectFailsKeepsInv ==
    ASSUME StackInv, NEW b \in StackBots, InjectFails(b)
    PROVE  StackInv'
<1>a. PICK p \in {"dropping", "off"} :
          /\ Goes(b, p)
          /\ p = "dropping" => excuses' = excuses
          /\ p = "off" => excuses' = excuses \cup {"lost"}
  <2>1. CASE Goes(b, "dropping") /\ UNCHANGED excuses
    BY <2>1, Zenon
  <2>2. CASE Goes(b, "off") /\ excuses' = excuses \cup {"lost"}
    BY <2>2, Zenon
  <2> QED
    BY <2>1, <2>2 DEF InjectFails, Loses
<1> DEFINE u == [user[b] EXCEPT !.at = p]
<1>1. u \in UserRecord /\ Moves(b, u)
  BY <1>a DEF Goes, Moves, StackInv, StackTypeOK, UserRecord, StackPc, Holding, Ensuring, Attaching, Stopping
<1>2. user' \in [StackBots -> UserRecord]
  BY <1>1 DEF Moves, StackInv, StackTypeOK, UserRecord
<1>3. StackTypeOK'
  BY <1>a, <1>2 DEF InjectFails, StackInv, StackTypeOK, UserRecord
<1>4. /\ user[b].at \in Holding /\ refcount' = refcount
      /\ \/ u.at \in Holding /\ excuses' = excuses
         \/ u.at \notin Holding /\ excuses' = excuses \cup {"lost"}
  BY <1>a DEF InjectFails, Goes, Loses, Holding, StackInv, StackTypeOK
<1>6. /\ excuses \subseteq excuses'
      /\ stack => stack'
      /\ endpoints => endpoints'
      /\ u.at \in Stopping => user[b].at \in Stopping
      /\ u.at \in Using => user[b].at \in Using
      /\ u.at \in Raised => user[b].at \in Raised \/ stack'
      /\ u.at \in Reached => user[b].at \in Reached \/ endpoints'
  BY <1>a DEF InjectFails, Goes, Loses, Using, Raised, Reached, Ensuring, Attaching, Holding, Stopping,
         StackInv, StackTypeOK
<1> HIDE DEF u
<1>5. HoldersAreCounted'
  BY <1>1, <1>4, HoldersLeave, HoldersStay
<1>7. Served'
  BY <1>1, <1>6, ServedStays
<1> QED
  BY <1>3, <1>5, <1>7 DEF StackInv

LEMMA StopKeepsInv ==
    ASSUME StackInv, NEW b \in StackBots, Stop(b)
    PROVE  StackInv'
<1> DEFINE u == [user[b] EXCEPT !.at = "dropping"]
<1>1. u \in UserRecord /\ Moves(b, u)
  BY DEF Stop, Goes, Moves, StackInv, StackTypeOK, UserRecord, StackPc, Holding, Ensuring, Attaching, Stopping
<1>2. user' \in [StackBots -> UserRecord]
  BY <1>1 DEF Moves, StackInv, StackTypeOK, UserRecord
<1>3. StackTypeOK'
  BY <1>2 DEF Stop, StackInv, StackTypeOK, UserRecord
<1>4. /\ u.at \in Holding <=> user[b].at \in Holding
      /\ refcount' = refcount /\ excuses \subseteq excuses'
  BY DEF Stop, Holding, StackInv, StackTypeOK
<1>6. /\ excuses \subseteq excuses'
      /\ stack => stack'
      /\ endpoints => endpoints'
      /\ u.at \in Stopping => user[b].at \in Stopping
      /\ u.at \in Using => user[b].at \in Using
      /\ u.at \in Raised => user[b].at \in Raised \/ stack'
      /\ u.at \in Reached => user[b].at \in Reached \/ endpoints'
  BY DEF Stop, Goes, Loses, Using, Raised, Reached, Ensuring, Attaching, Holding, Stopping,
         StackInv, StackTypeOK
<1> HIDE DEF u
<1>5. HoldersAreCounted'
  BY <1>1, <1>4, HoldersStay
<1>7. Served'
  BY <1>1, <1>6, ServedStays
<1> QED
  BY <1>3, <1>5, <1>7 DEF StackInv

LEMMA StopSkippedKeepsInv ==
    ASSUME StackInv, NEW b \in StackBots, StopSkipped(b)
    PROVE  StackInv'
<1> DEFINE u == [user[b] EXCEPT !.at = "off"]
<1>1. u \in UserRecord /\ Moves(b, u)
  BY DEF StopSkipped, Goes, Loses, Moves, StackInv, StackTypeOK, UserRecord, StackPc, Holding, Ensuring, Attaching, Stopping
<1>2. user' \in [StackBots -> UserRecord]
  BY <1>1 DEF Moves, StackInv, StackTypeOK, UserRecord
<1>3. StackTypeOK'
  BY <1>2 DEF StopSkipped, Loses, StackInv, StackTypeOK, UserRecord
<1>4. /\ user[b].at \in Holding /\ u.at \notin Holding
      /\ refcount' = refcount /\ excuses' = excuses \cup {"lost"}
  BY DEF StopSkipped, Loses, Holding, StackInv, StackTypeOK
<1>6. /\ excuses \subseteq excuses'
      /\ stack => stack'
      /\ endpoints => endpoints'
      /\ u.at \in Stopping => user[b].at \in Stopping
      /\ u.at \in Using => user[b].at \in Using
      /\ u.at \in Raised => user[b].at \in Raised \/ stack'
      /\ u.at \in Reached => user[b].at \in Reached \/ endpoints'
  BY DEF StopSkipped, Goes, Loses, Using, Raised, Reached, Ensuring, Attaching, Holding, Stopping,
         StackInv, StackTypeOK
<1> HIDE DEF u
<1>5. HoldersAreCounted'
  BY <1>1, <1>4, HoldersLeave
<1>7. Served'
  BY <1>1, <1>6, ServedStays
<1> QED
  BY <1>3, <1>5, <1>7 DEF StackInv

LEMMA CloseKeepsInv ==
    ASSUME StackInv, NEW b \in StackBots, Close(b)
    PROVE  StackInv'
<1> DEFINE u == [user[b] EXCEPT !.at = IF user[b].at = "closing" THEN "off" ELSE "killing"]
<1>1. u \in UserRecord /\ Moves(b, u)
  BY DEF Close, Goes, Moves, StackInv, StackTypeOK, UserRecord, StackPc, Holding, Ensuring, Attaching, Stopping
<1>2. user' \in [StackBots -> UserRecord]
  BY <1>1 DEF Moves, StackInv, StackTypeOK, UserRecord
<1>a. tunnels \in Nat
  BY DEF StackInv, StackTypeOK
<1>b. tunnels' \in Nat
  <2>1. tunnels' = IF tunnels = 0 THEN 0 ELSE tunnels - 1
    BY Zenon DEF Close
  <2> QED
    BY <1>a, <2>1
<1>3. StackTypeOK'
  BY <1>2, <1>b DEF Close, StackInv, StackTypeOK, UserRecord
<1>4. /\ u.at \in Holding <=> user[b].at \in Holding
      /\ refcount' = refcount /\ excuses \subseteq excuses'
  BY DEF Close, Holding, StackInv, StackTypeOK
<1>6. /\ excuses \subseteq excuses'
      /\ stack => stack'
      /\ endpoints => endpoints'
      /\ u.at \in Stopping => user[b].at \in Stopping
      /\ u.at \in Using => user[b].at \in Using
      /\ u.at \in Raised => user[b].at \in Raised \/ stack'
      /\ u.at \in Reached => user[b].at \in Reached \/ endpoints'
  BY DEF Close, Goes, Loses, Using, Raised, Reached, Ensuring, Attaching, Holding, Stopping,
         StackInv, StackTypeOK
<1> HIDE DEF u
<1>5. HoldersAreCounted'
  BY <1>1, <1>4, HoldersStay
<1>7. Served'
  BY <1>1, <1>6, ServedStays
<1> QED
  BY <1>3, <1>5, <1>7 DEF StackInv

LEMMA KillNodeKeepsInv ==
    ASSUME StackInv, NEW b \in StackBots, KillNode(b)
    PROVE  StackInv'
<1> DEFINE u == [user[b] EXCEPT !.at = "clearing"]
<1>1. u \in UserRecord /\ Moves(b, u)
  BY DEF KillNode, Goes, Moves, StackInv, StackTypeOK, UserRecord, StackPc, Holding, Ensuring, Attaching, Stopping
<1>2. user' \in [StackBots -> UserRecord]
  BY <1>1 DEF Moves, StackInv, StackTypeOK, UserRecord
<1>3. StackTypeOK'
  BY <1>2 DEF KillNode, StackInv, StackTypeOK, UserRecord
<1>4. /\ u.at \in Holding <=> user[b].at \in Holding
      /\ refcount' = refcount /\ excuses \subseteq excuses'
  BY DEF KillNode, Holding, StackInv, StackTypeOK
<1> HIDE DEF u
<1>5. HoldersAreCounted'
  BY <1>1, <1>4, HoldersStay
<1>6. user'[b] = u /\ \A c \in StackBots : c # b => user'[c] = user[c]
  BY <1>1 DEF Moves, StackInv, StackTypeOK
<1>7. Served'
  <2>1. SUFFICES ASSUME excuses' \cap {"overlap", "uncounted"} = {} PROVE (StopIsAlone /\ UsersAreServed)'
    BY DEF Served
  <2>2. StopIsAlone
    BY <2>1 DEF StackInv, Served, KillNode
  <2>3. user[b].at \in Stopping /\ u.at \notin Using
    BY DEF KillNode, u, Stopping, Using, Ensuring, Attaching, Holding, StackInv, StackTypeOK
  <2>4. \A c \in StackBots : user'[c].at \notin Using
    BY <1>6, <2>2, <2>3 DEF StopIsAlone, Using
  <2>5. Raised \cup Reached \subseteq Using
    BY DEF Raised, Reached, Using, Ensuring, Attaching
  <2> QED
    BY <2>4, <2>5 DEF StopIsAlone, UsersAreServed, Using
<1> QED
  BY <1>3, <1>5, <1>7 DEF StackInv

LEMMA KillDisplayKeepsInv ==
    ASSUME StackInv, NEW b \in StackBots, KillDisplay(b)
    PROVE  StackInv'
<1> DEFINE u == [user[b] EXCEPT !.at = "off"]
<1>1. u \in UserRecord /\ Moves(b, u)
  BY DEF KillDisplay, Goes, Moves, StackInv, StackTypeOK, UserRecord, StackPc, Holding, Ensuring, Attaching, Stopping
<1>2. user' \in [StackBots -> UserRecord]
  BY <1>1 DEF Moves, StackInv, StackTypeOK, UserRecord
<1>3. StackTypeOK'
  BY <1>2 DEF KillDisplay, StackInv, StackTypeOK, UserRecord
<1>4. /\ u.at \in Holding <=> user[b].at \in Holding
      /\ refcount' = refcount /\ excuses \subseteq excuses'
  BY DEF KillDisplay, Holding, StackInv, StackTypeOK
<1> HIDE DEF u
<1>5. HoldersAreCounted'
  BY <1>1, <1>4, HoldersStay
<1>6. user'[b] = u /\ \A c \in StackBots : c # b => user'[c] = user[c]
  BY <1>1 DEF Moves, StackInv, StackTypeOK
<1>7. Served'
  <2>1. SUFFICES ASSUME excuses' \cap {"overlap", "uncounted"} = {} PROVE (StopIsAlone /\ UsersAreServed)'
    BY DEF Served
  <2>2. StopIsAlone
    BY <2>1 DEF StackInv, Served, KillDisplay
  <2>3. user[b].at \in Stopping /\ u.at \notin Using
    BY DEF KillDisplay, u, Stopping, Using, Ensuring, Attaching, Holding, StackInv, StackTypeOK
  <2>4. \A c \in StackBots : user'[c].at \notin Using
    BY <1>6, <2>2, <2>3 DEF StopIsAlone, Using
  <2>5. Raised \cup Reached \subseteq Using
    BY DEF Raised, Reached, Using, Ensuring, Attaching
  <2> QED
    BY <2>4, <2>5 DEF StopIsAlone, UsersAreServed, Using
<1> QED
  BY <1>3, <1>5, <1>7 DEF StackInv

LEMMA PassOverKeepsInv ==
    ASSUME StackInv, NEW b \in StackBots, PassOver(b)
    PROVE  StackInv'
<1> DEFINE u == [user[b] EXCEPT !.at = "off"]
<1>1. u \in UserRecord /\ Moves(b, u)
  BY DEF PassOver, Goes, Moves, StackInv, StackTypeOK, UserRecord, StackPc, Holding, Ensuring, Attaching, Stopping
<1>2. user' \in [StackBots -> UserRecord]
  BY <1>1 DEF Moves, StackInv, StackTypeOK, UserRecord
<1>3. StackTypeOK'
  BY <1>2 DEF PassOver, StackInv, StackTypeOK, UserRecord
<1>4. /\ u.at \in Holding <=> user[b].at \in Holding
      /\ refcount' = refcount /\ excuses \subseteq excuses'
  BY DEF PassOver, Holding, StackInv, StackTypeOK
<1>6. /\ excuses \subseteq excuses'
      /\ stack => stack'
      /\ endpoints => endpoints'
      /\ u.at \in Stopping => user[b].at \in Stopping
      /\ u.at \in Using => user[b].at \in Using
      /\ u.at \in Raised => user[b].at \in Raised \/ stack'
      /\ u.at \in Reached => user[b].at \in Reached \/ endpoints'
  BY DEF PassOver, Goes, Loses, Using, Raised, Reached, Ensuring, Attaching, Holding, Stopping,
         StackInv, StackTypeOK
<1> HIDE DEF u
<1>5. HoldersAreCounted'
  BY <1>1, <1>4, HoldersStay
<1>7. Served'
  BY <1>1, <1>6, ServedStays
<1> QED
  BY <1>3, <1>5, <1>7 DEF StackInv

LEMMA AttachKeepsInv ==
    ASSUME StackInv, NEW b \in StackBots, Attach(b)
    PROVE  StackInv'
<1> DEFINE u == [user[b] EXCEPT !.at = "attaching", !.attached = TRUE]
<1>1. u \in UserRecord /\ Moves(b, u)
  BY DEF Attach, Goes, Moves, StackInv, StackTypeOK, UserRecord, StackPc, Holding, Ensuring, Attaching, Stopping
<1>2. user' \in [StackBots -> UserRecord]
  BY <1>1 DEF Moves, StackInv, StackTypeOK, UserRecord
<1>3. StackTypeOK'
  BY <1>2 DEF Attach, StackInv, StackTypeOK, UserRecord
<1>4. /\ u.at \in Holding <=> user[b].at \in Holding
      /\ refcount' = refcount /\ excuses \subseteq excuses'
  BY DEF Attach, Holding, StackInv, StackTypeOK
<1> HIDE DEF u
<1>5. HoldersAreCounted'
  BY <1>1, <1>4, HoldersStay
<1>6. user'[b] = u /\ \A c \in StackBots : c # b => user'[c] = user[c]
  BY <1>1 DEF Moves, StackInv, StackTypeOK
<1>7. Served'
  <2>1. SUFFICES ASSUME excuses' \cap {"overlap", "uncounted"} = {} PROVE (StopIsAlone /\ UsersAreServed)'
    BY DEF Served
  <2>2. excuses' = excuses /\ UsersAt(Stopping) = {}
    BY <2>1 DEF Attach
  <2>3. StopIsAlone /\ UsersAreServed
    BY <2>1, <2>2 DEF StackInv, Served
  <2>4. u.at \notin Stopping \cup Raised \cup Reached
    BY DEF u, Stopping, Raised, Reached, Holding, StackInv, StackTypeOK
  <2>5. StopIsAlone'
    BY <1>6, <2>2, <2>4 DEF StopIsAlone, UsersAt
  <2>6. UsersAreServed'
    BY <1>6, <2>3, <2>4 DEF UsersAreServed, Attach
  <2> QED
    BY <2>5, <2>6
<1> QED
  BY <1>3, <1>5, <1>7 DEF StackInv

LEMMA AttachCheckKeepsInv ==
    ASSUME StackInv, NEW b \in StackBots, AttachCheck(b)
    PROVE  StackInv'
<1> DEFINE u == [user[b] EXCEPT !.at = "attach opening"]
<1>1. u \in UserRecord /\ Moves(b, u)
  BY DEF AttachCheck, Goes, Moves, StackInv, StackTypeOK, UserRecord, StackPc, Holding, Ensuring, Attaching, Stopping
<1>2. user' \in [StackBots -> UserRecord]
  BY <1>1 DEF Moves, StackInv, StackTypeOK, UserRecord
<1>3. StackTypeOK'
  BY <1>2 DEF AttachCheck, StackInv, StackTypeOK, UserRecord
<1>4. /\ u.at \in Holding <=> user[b].at \in Holding
      /\ refcount' = refcount /\ excuses \subseteq excuses'
  BY DEF AttachCheck, Holding, StackInv, StackTypeOK
<1>6. /\ excuses \subseteq excuses'
      /\ stack => stack'
      /\ endpoints => endpoints'
      /\ u.at \in Stopping => user[b].at \in Stopping
      /\ u.at \in Using => user[b].at \in Using
      /\ u.at \in Raised => user[b].at \in Raised \/ stack'
      /\ u.at \in Reached => user[b].at \in Reached \/ endpoints'
  BY DEF AttachCheck, Goes, Loses, Using, Raised, Reached, Ensuring, Attaching, Holding, Stopping,
         StackInv, StackTypeOK
<1> HIDE DEF u
<1>5. HoldersAreCounted'
  BY <1>1, <1>4, HoldersStay
<1>7. Served'
  BY <1>1, <1>6, ServedStays
<1> QED
  BY <1>3, <1>5, <1>7 DEF StackInv

LEMMA CountKeepsInv ==
    ASSUME StackInv, NEW b \in StackBots, Count(b)
    PROVE  StackInv'
<1> DEFINE u == [user[b] EXCEPT !.at = "preparing"]
<1>1. u \in UserRecord /\ Moves(b, u)
  BY DEF Count, Goes, Moves, StackInv, StackTypeOK, UserRecord, StackPc, Holding, Ensuring, Attaching, Stopping
<1>2. user' \in [StackBots -> UserRecord]
  BY <1>1 DEF Moves, StackInv, StackTypeOK, UserRecord
<1>a. refcount \in Nat
  BY DEF StackInv, StackTypeOK
<1>b. refcount' \in Nat
  <2>1. refcount' = refcount + 1
    BY Zenon DEF Count
  <2> QED
    BY <1>a, <2>1
<1>3. StackTypeOK'
  BY <1>2, <1>b DEF Count, StackInv, StackTypeOK, UserRecord
<1>4. u.at \in Holding /\ user[b].at \notin Holding
  BY DEF Count, Holding, StackInv, StackTypeOK
<1> HIDE DEF u
<1>c. Cardinality(Holders) \in Nat /\ Cardinality(Holders') = Cardinality(Holders) + 1 /\ IsFiniteSet(Holders')
  BY <1>1, <1>4, HoldersMove DEF StackInv, HoldersAreCounted
<1>5. HoldersAreCounted'
  <2>1. refcount' = refcount + 1 /\ excuses' = excuses
    BY Zenon DEF Count
  <2> QED
    BY <1>a, <1>c, <2>1 DEF StackInv, HoldersAreCounted
<1>6. /\ excuses \subseteq excuses'
      /\ stack => stack'
      /\ endpoints => endpoints'
      /\ u.at \in Stopping => user[b].at \in Stopping
      /\ u.at \in Using => user[b].at \in Using
      /\ u.at \in Raised => user[b].at \in Raised \/ stack'
      /\ u.at \in Reached => user[b].at \in Reached \/ endpoints'
  BY DEF Count, u, Using, Raised, Reached, Ensuring, Attaching, Holding, Stopping,
         StackInv, StackTypeOK
<1>7. Served'
  BY <1>1, <1>6, ServedStays
<1> QED
  BY <1>3, <1>5, <1>7 DEF StackInv

\* The bot that is counted without a reference of its own is the only one,
\* or the attachment is on record as uncounted.
LEMMA AttachCountKeepsInv ==
    ASSUME StackInv, NEW b \in StackBots, AttachCount(b)
    PROVE  StackInv'
<1> DEFINE u == [user[b] EXCEPT !.at = "asking"]
<1>1. u \in UserRecord /\ Moves(b, u)
  BY DEF AttachCount, Goes, Moves, StackInv, StackTypeOK, UserRecord, StackPc, Holding, Ensuring, Attaching, Stopping
<1>2. user' \in [StackBots -> UserRecord]
  BY <1>1 DEF Moves, StackInv, StackTypeOK, UserRecord
<1>a. refcount \in Nat
  BY DEF StackInv, StackTypeOK
<1>b. refcount' \in Nat
  <2>1. refcount' = IF refcount = 0 THEN 1 ELSE refcount
    BY Zenon DEF AttachCount
  <2> QED
    BY <1>a, <2>1
<1>3. StackTypeOK'
  BY <1>2, <1>b DEF AttachCount, StackInv, StackTypeOK, UserRecord
<1>4. u.at \in Holding /\ user[b].at \notin Holding
  BY DEF AttachCount, Holding, StackInv, StackTypeOK
<1> HIDE DEF u
<1>c. Cardinality(Holders) \in Nat /\ Cardinality(Holders') = Cardinality(Holders) + 1 /\ IsFiniteSet(Holders')
  BY <1>1, <1>4, HoldersMove DEF StackInv, HoldersAreCounted
<1>5. HoldersAreCounted'
  <2>1. refcount' = IF refcount = 0 THEN 1 ELSE refcount
    BY Zenon DEF AttachCount
  <2>2. excuses' = IF refcount = 0 THEN excuses ELSE excuses \cup {"uncounted"}
    BY Zenon DEF AttachCount
  <2>3. CASE refcount = 0
    BY <1>c, <2>1, <2>2, <2>3 DEF StackInv, HoldersAreCounted
  <2>4. CASE refcount # 0
    <3>1. "uncounted" \in excuses'
      BY <2>2, <2>4
    <3> QED
      BY <3>1, <1>c DEF HoldersAreCounted
  <2> QED
    BY <2>3, <2>4
<1>6. /\ excuses \subseteq excuses'
      /\ stack => stack'
      /\ endpoints => endpoints'
      /\ u.at \in Stopping => user[b].at \in Stopping
      /\ u.at \in Using => user[b].at \in Using
      /\ u.at \in Raised => user[b].at \in Raised \/ stack'
      /\ u.at \in Reached => user[b].at \in Reached \/ endpoints'
  BY DEF AttachCount, u, Using, Raised, Reached, Ensuring, Attaching, Holding, Stopping,
         StackInv, StackTypeOK
<1>7. Served'
  BY <1>1, <1>6, ServedStays
<1> QED
  BY <1>3, <1>5, <1>7 DEF StackInv

\* The release.  It stops the stack only when it gives back the one reference
\* there is: then nobody else holds one.
LEMMA DropKeepsInv ==
    ASSUME StackInv, NEW b \in StackBots, Drop(b)
    PROVE  StackInv'
<1> DEFINE place == IF refcount = 0 THEN "off" ELSE IF refcount = 1 THEN "closing last" ELSE "closing"
<1> DEFINE u == [user[b] EXCEPT !.at = place]
<1>1. u \in UserRecord /\ Moves(b, u)
  BY ZenonT(40) DEF Drop, Goes, Moves, StackInv, StackTypeOK, UserRecord, StackPc, Holding, Ensuring, Attaching, Stopping
<1>2. user' \in [StackBots -> UserRecord]
  BY <1>1 DEF Moves, StackInv, StackTypeOK, UserRecord
<1>3. refcount \in Nat /\ excuses \subseteq {"lost", "overlap", "uncounted"}
  BY DEF StackInv, StackTypeOK
<1>4. refcount' = IF refcount = 0 THEN 0 ELSE refcount - 1
  BY Zenon DEF Drop
<1>5. excuses' = excuses \/ excuses' = excuses \cup {"overlap"}
  BY Zenon DEF Drop
<1>6. StackTypeOK'
  <2>1. refcount' \in Nat
    BY <1>3, <1>4
  <2>2. excuses' \subseteq {"lost", "overlap", "uncounted"}
    BY <1>3, <1>5
  <2>3. UNCHANGED <<stack, qqs, tunnels, endpoints>>
    BY Zenon DEF Drop
  <2> QED
    BY <1>2, <2>1, <2>2, <2>3 DEF StackInv, StackTypeOK, UserRecord
<1>7. user[b].at \in Holding /\ u.at \notin Holding
  BY DEF Drop, Holding, StackInv, StackTypeOK
<1>8. /\ Cardinality(Holders) \in Nat /\ Cardinality(Holders') \in Nat
      /\ Cardinality(Holders') = Cardinality(Holders) - 1 /\ IsFiniteSet(Holders')
  BY <1>1, <1>7, HoldersMove DEF StackInv, HoldersAreCounted
<1>9. HoldersAreCounted'
  <2>1. "lost" \in excuses' <=> "lost" \in excuses
    BY <1>5
  <2>2. "uncounted" \in excuses' <=> "uncounted" \in excuses
    BY <1>5
  <2>3. "uncounted" \notin excuses => Cardinality(Holders) <= refcount
    BY DEF StackInv, HoldersAreCounted
  <2>4. "uncounted" \notin excuses /\ "lost" \notin excuses => Cardinality(Holders) = refcount
    BY DEF StackInv, HoldersAreCounted
  <2>5. "uncounted" \notin excuses' => Cardinality(Holders') <= refcount'
    BY <1>3, <1>4, <1>8, <2>2, <2>3
  <2>6. "uncounted" \notin excuses' /\ "lost" \notin excuses' => Cardinality(Holders') = refcount'
    BY <1>3, <1>4, <1>8, <2>1, <2>2, <2>4
  <2> QED
    BY <1>8, <2>5, <2>6 DEF HoldersAreCounted
<1>10. Served'
  <2>1. CASE refcount # 1
    <3>1. /\ excuses \subseteq excuses'
          /\ stack => stack'
          /\ endpoints => endpoints'
      BY <1>5 DEF Drop
    <3>2. /\ u.at \in Stopping => user[b].at \in Stopping
          /\ u.at \in Using => user[b].at \in Using
          /\ u.at \in Raised => user[b].at \in Raised \/ stack'
          /\ u.at \in Reached => user[b].at \in Reached \/ endpoints'
      BY <2>1 DEF Using, Raised, Reached, Ensuring, Attaching, Holding, Stopping, StackInv, StackTypeOK
    <3> HIDE DEF u
    <3> QED
      BY <1>1, <3>1, <3>2, ServedStays
  <2>2. CASE refcount = 1
    <3>1. SUFFICES ASSUME excuses' \cap {"overlap", "uncounted"} = {} PROVE (StopIsAlone /\ UsersAreServed)'
      BY DEF Served
    <3>2. \A c \in StackBots : user[c].at \notin Ensuring \cup Attaching
      <4>1. excuses' = IF refcount = 1 /\ UsersAt(Ensuring \cup Attaching) # {}
                       THEN excuses \cup {"overlap"} ELSE excuses
        <5>1. refcount # 0
          BY <2>2
        <5> QED
          BY <5>1, Zenon DEF Drop
      <4>2. UsersAt(Ensuring \cup Attaching) = {}
        BY <2>2, <3>1, <4>1
      <4> QED
        BY <4>2 DEF UsersAt
    <3>3. Cardinality(Holders) <= 1 /\ b \in Holders
      BY <1>5, <1>7, <2>2, <3>1 DEF StackInv, HoldersAreCounted, Holders, UsersAt
    <3>4. Cardinality(Holders') = 0 /\ IsFiniteSet(Holders')
      BY <1>8, <3>3
    <3>5. Holders' = {}
      BY <3>4, FS_EmptySet
    <3>6. \A c \in StackBots : user'[c].at \notin Holding
      BY <3>5 DEF Holders, UsersAt
    <3>7. u.at \notin Ensuring \cup Attaching
      BY DEF Ensuring, Attaching, StackInv, StackTypeOK
    <3>8. \A c \in StackBots : user'[c].at \notin Ensuring \cup Attaching
      BY <1>1, <3>2, <3>7 DEF Moves, StackInv, StackTypeOK
    <3>9. Raised \cup Reached \subseteq Ensuring \cup Attaching \cup Holding
      BY DEF Raised, Reached, Ensuring, Attaching
    <3> QED
      BY <3>6, <3>8, <3>9 DEF StopIsAlone, UsersAreServed
  <2> QED
    BY <2>1, <2>2
<1> QED
  BY <1>6, <1>9, <1>10 DEF StackInv

\* The death of a QQ process is nothing to the count.
LEMMA QqDiesKeepsInv ==
    ASSUME StackInv, NEW b \in StackBots, QqDies(b)
    PROVE  StackInv'
<1>1. StackTypeOK'
  BY DEF QqDies, StackInv, StackTypeOK
<1>2. Holders' = Holders
  BY DEF QqDies, Holders, UsersAt
<1>3. HoldersAreCounted'
  BY <1>2 DEF QqDies, StackInv, HoldersAreCounted
<1>4. Served'
  BY DEF QqDies, StackInv, Served, StopIsAlone, UsersAreServed
<1> QED
  BY <1>1, <1>3, <1>4 DEF StackInv

\* The desktop that comes back counts from nothing, and nobody holds anything.
LEMMA ReopenKeepsInv ==
    ASSUME StackInv, Reopen
    PROVE  StackInv'
<1>1. \A b \in StackBots : user'[b] \in UserRecord /\ user'[b].at \in {"found", "off"}
  BY DEF Reopen, StackInv, StackTypeOK, UserRecord, StackPc
<1>2. StackTypeOK'
  BY <1>1 DEF Reopen, StackInv, StackTypeOK, UserRecord
<1>3. Holders' = {}
  BY <1>1 DEF Holders, UsersAt, Holding
<1>4. refcount' = 0
  BY Zenon DEF Reopen
<1>5. HoldersAreCounted'
  BY <1>3, <1>4, FS_EmptySet DEF HoldersAreCounted
<1>6. \A b \in StackBots : user'[b].at \notin Stopping \cup Raised \cup Reached
  BY <1>1 DEF Stopping, Raised, Reached, Holding
<1>7. Served'
  BY <1>6 DEF Served, StopIsAlone, UsersAreServed
<1> QED
  BY <1>2, <1>5, <1>7 DEF StackInv

LEMMA StackInitInv == StackInit => StackInv
<1> SUFFICES ASSUME StackInit PROVE StackInv
  OBVIOUS
<1>1. StackTypeOK
  BY DEF StackInit, StackTypeOK, StackPc
<1>2. Holders = {} /\ refcount = 0
  BY DEF StackInit, Holders, UsersAt, Holding
<1>3. HoldersAreCounted
  BY <1>2, FS_EmptySet DEF HoldersAreCounted
<1>4. \A b \in StackBots : user[b].at \notin Stopping \cup Raised \cup Reached
  BY DEF StackInit, Stopping, Raised, Reached, Holding
<1>5. Served
  BY <1>4 DEF Served, StopIsAlone, UsersAreServed
<1> QED
  BY <1>1, <1>3, <1>5 DEF StackInv

LEMMA StackInvariance == StackInv /\ [StackNext]_stackVars => StackInv'
<1> SUFFICES ASSUME StackInv, [StackNext]_stackVars PROVE StackInv'
  OBVIOUS
<1>1. CASE Reopen
  BY <1>1, ReopenKeepsInv
<1>2. ASSUME NEW b \in StackBots, NEW cold \in BOOLEAN, BeginStart(b, cold) PROVE StackInv'
  BY <1>2, BeginStartKeepsInv
<1>3. ASSUME NEW b \in StackBots, EnterBootstrap(b) PROVE StackInv'
  BY <1>3, EnterBootstrapKeepsInv
<1>4. ASSUME NEW b \in StackBots, CheckStack(b) PROVE StackInv'
  BY <1>4, CheckStackKeepsInv
<1>5. ASSUME NEW b \in StackBots, Raise(b) PROVE StackInv'
  BY <1>5, RaiseKeepsInv
<1>6. ASSUME NEW b \in StackBots, Join(b) PROVE StackInv'
  BY <1>6, JoinKeepsInv
<1>7. ASSUME NEW b \in StackBots, EnsureFails(b) PROVE StackInv'
  BY <1>7, EnsureFailsKeepsInv
<1>8. ASSUME NEW b \in StackBots, OpenTunnels(b) PROVE StackInv'
  BY <1>8, OpenTunnelsKeepsInv
<1>9. ASSUME NEW b \in StackBots, Count(b) PROVE StackInv'
  BY <1>9, CountKeepsInv
<1>10. ASSUME NEW b \in StackBots, PrepareFails(b) PROVE StackInv'
  BY <1>10, PrepareFailsKeepsInv
<1>11. ASSUME NEW b \in StackBots, Prepare(b) PROVE StackInv'
  BY <1>11, PrepareKeepsInv
<1>12. ASSUME NEW b \in StackBots, AskEndpoints(b) PROVE StackInv'
  BY <1>12, AskEndpointsKeepsInv
<1>13. ASSUME NEW b \in StackBots, Inject(b) PROVE StackInv'
  BY <1>13, InjectKeepsInv
<1>14. ASSUME NEW b \in StackBots, InjectFails(b) PROVE StackInv'
  BY <1>14, InjectFailsKeepsInv
<1>15. ASSUME NEW b \in StackBots, Stop(b) PROVE StackInv'
  BY <1>15, StopKeepsInv
<1>16. ASSUME NEW b \in StackBots, StopSkipped(b) PROVE StackInv'
  BY <1>16, StopSkippedKeepsInv
<1>17. ASSUME NEW b \in StackBots, Drop(b) PROVE StackInv'
  BY <1>17, DropKeepsInv
<1>18. ASSUME NEW b \in StackBots, Close(b) PROVE StackInv'
  BY <1>18, CloseKeepsInv
<1>19. ASSUME NEW b \in StackBots, KillNode(b) PROVE StackInv'
  BY <1>19, KillNodeKeepsInv
<1>20. ASSUME NEW b \in StackBots, KillDisplay(b) PROVE StackInv'
  BY <1>20, KillDisplayKeepsInv
<1>21. ASSUME NEW b \in StackBots, QqDies(b) PROVE StackInv'
  BY <1>21, QqDiesKeepsInv
<1>22. ASSUME NEW b \in StackBots, PassOver(b) PROVE StackInv'
  BY <1>22, PassOverKeepsInv
<1>23. ASSUME NEW b \in StackBots, Attach(b) PROVE StackInv'
  BY <1>23, AttachKeepsInv
<1>24. ASSUME NEW b \in StackBots, AttachCheck(b) PROVE StackInv'
  BY <1>24, AttachCheckKeepsInv
<1>25. ASSUME NEW b \in StackBots, AttachCount(b) PROVE StackInv'
  BY <1>25, AttachCountKeepsInv
<1>26. CASE UNCHANGED stackVars
  <2>1. Holders' = Holders
    BY <1>26 DEF stackVars, Holders, UsersAt
  <2> QED
    BY <1>26, <2>1 DEF stackVars, StackInv, StackTypeOK, HoldersAreCounted, Served, StopIsAlone, UsersAreServed
<1> QED
  BY <1>1, <1>2, <1>3, <1>4, <1>5, <1>6, <1>7, <1>8, <1>9, <1>10, <1>11, <1>12, <1>13, <1>14, <1>15, <1>16, <1>17, <1>18, <1>19, <1>20, <1>21, <1>22, <1>23, <1>24, <1>25, <1>26
     DEF StackNext

\* The shared stack keeps its types: the count and the tunnels never fall
\* below zero, for any bots, starts and restarts of the desktop.
THEOREM StackTypeCorrect == StackSpec => []StackTypeOK
<1>1. StackInv => StackTypeOK
  BY DEF StackInv
<1> QED
  BY <1>1, StackInitInv, StackInvariance, PTL DEF StackSpec

\* RemoteSnowLumaDaemon's refcount is the number of bots that use the stack,
\* unless ensure_running's reference was lost by a failed start or a skipped
\* stop, or an attachment was not counted.
THEOREM StackCountCorrect == StackSpec => []StackCountIsUsers
<1>1. StackInv => StackCountIsUsers
  BY DEF StackInv, HoldersAreCounted, StackCountIsUsers, Holders
<1> QED
  BY <1>1, StackInitInv, StackInvariance, PTL DEF StackSpec

\* The release that stops the stack takes it from no running bot, unless it
\* met a start or an attachment, or ran below an uncounted one.
THEOREM StackStaysUnderBots == StackSpec => []RunningBotHasStack
<1>1. StackInv => RunningBotHasStack
  BY DEF StackInv, Served, UsersAreServed, Raised, Reached, Holding, RunningBotHasStack, UsersAt
<1> QED
  BY <1>1, StackInitInv, StackInvariance, PTL DEF StackSpec

-----------------------------------------------------------------------------
(* The QQ tree.                                                            *)

TaskPlaces == {"idle", "checking", "writing", "removing", "unpacking", "copying", "loading",
               "patching", "removing loader", "restoring"}
Actions == [kind : Kinds \cup {"none"}, at : TaskPlaces]
Flavors == {"napcat", "snowluma"}
Starters == [at : {"off", "verifying", "ready", "up"}, flavor : Flavors,
             alone : BOOLEAN, works : BOOLEAN]

DoingKinds ==
    /\ doing \in [Components -> Actions]
    /\ \A c \in Components : doing[c].at = "idle" <=> doing[c].kind = "none"

FilesKinds ==
    /\ main \in {"none", "qq", "napcat"} /\ program \in BOOLEAN
    /\ core \in {"none", "partial", "full"} /\ loader \in BOOLEAN

TreeKinds ==
    /\ FilesKinds /\ DoingKinds
    /\ queue \subseteq [component : Components, kind : Kinds, waits : BOOLEAN]
    /\ damaged \in BOOLEAN
    /\ starter \in [TreeBots -> Starters]

EntryOf(flavor) == IF flavor = "napcat" THEN "napcat" ELSE "qq"

\* The entry a start has set is there until the launch, and NapCat's files are
\* from the check of them on, while nothing else touches the tree.
EntryStands ==
    \A b \in TreeBots : (starter[b].at \in {"verifying", "ready"} /\ starter[b].alone) =>
        /\ main = EntryOf(starter[b].flavor)
        /\ \A c \in Components : ~Writing(c)
        /\ (starter[b].at = "ready" /\ starter[b].flavor = "napcat") => loader /\ core # "none"

\* Half of NapCat's files is there only while an action copies them.
PartialIsCopied == core = "partial" /\ ~damaged => doing["napcat"].at = "copying"

TreeInv == TreeKinds /\ EntryStands /\ PartialIsCopied /\ QqStartsAsAsked

LEMMA ActionMoves ==
    ASSUME DoingKinds, NEW c \in Components, NEW a \in Actions,
           a.at = "idle" <=> a.kind = "none", doing' = [doing EXCEPT ![c] = a]
    PROVE  DoingKinds' /\ doing'[c] = a /\ \A d \in Components \ {c} : doing'[d] = doing[d]
BY DEF DoingKinds

LEMMA EndsFacts ==
    ASSUME TreeKinds, NEW c \in Components, NEW ok \in BOOLEAN, Ends(c, ok)
    PROVE  /\ DoingKinds' /\ doing'[c] = NoAction
           /\ \A d \in Components \ {c} : doing'[d] = doing[d]
           /\ queue' \subseteq [component : Components, kind : Kinds, waits : BOOLEAN]
<1>1. NoAction \in Actions /\ NoAction.at = "idle" /\ NoAction.kind = "none"
  BY DEF NoAction, Actions, TaskPlaces
<1>2. DoingKinds' /\ doing'[c] = NoAction /\ \A d \in Components \ {c} : doing'[d] = doing[d]
  BY <1>1, ActionMoves DEF Ends, TreeKinds
<1>3. queue' \subseteq [component : Components, kind : Kinds, waits : BOOLEAN]
  <2>1. queue \subseteq [component : Components, kind : Kinds, waits : BOOLEAN]
    BY DEF TreeKinds
  <2>2. \A q \in queue : [q EXCEPT !.waits = FALSE] \in [component : Components, kind : Kinds, waits : BOOLEAN]
    BY <2>1
  <2>3. \/ queue' = queue
        \/ queue' = {[q EXCEPT !.waits = FALSE] : q \in queue}
        \/ queue' = {q \in queue : ~q.waits}
    BY Zenon DEF Ends
  <2> QED
    BY <2>1, <2>2, <2>3
<1> QED
  BY <1>2, <1>3

LEMMA GoesOnFacts ==
    ASSUME TreeKinds, NEW c \in Components, doing[c].at # "idle",
           NEW place \in TaskPlaces \ {"idle"}, doing' = [doing EXCEPT ![c].at = place]
    PROVE  /\ DoingKinds' /\ doing'[c].at = place
           /\ \A d \in Components \ {c} : doing'[d] = doing[d]
<1> DEFINE a == [doing[c] EXCEPT !.at = place]
<1>1. a \in Actions /\ a.at = place /\ a.kind = doing[c].kind /\ a.kind # "none"
  BY DEF TreeKinds, DoingKinds, Actions
<1>2. doing' = [doing EXCEPT ![c] = a]
  BY DEF TreeKinds, DoingKinds
<1> HIDE DEF a
<1> QED
  BY <1>1, <1>2, ActionMoves DEF TreeKinds

\* Whatever writes to the tree leaves no start between its entry and its
\* launch alone, so nothing is promised of those starts any more.
LEMMA DisturbedFacts ==
    ASSUME TreeInv, starter' = Disturbed({}), damaged => damaged'
    PROVE  starter' \in [TreeBots -> Starters] /\ EntryStands' /\ QqStartsAsAsked'
<1>1. \A b \in TreeBots : starter[b] \in Starters
  BY DEF TreeInv, TreeKinds
<1>2. \A b \in TreeBots :
         starter'[b] = IF starter[b].at \in {"verifying", "ready"}
                       THEN [starter[b] EXCEPT !.alone = FALSE] ELSE starter[b]
  BY DEF Disturbed
<1>3. starter' \in [TreeBots -> Starters]
  BY <1>1 DEF Disturbed, Starters
<1>4. \A b \in TreeBots : starter'[b].at \in {"verifying", "ready"} => ~starter'[b].alone
  BY <1>1, <1>2 DEF Starters
<1>5. \A b \in TreeBots : starter'[b].at = "up" => starter'[b] = starter[b]
  BY <1>1, <1>2 DEF Starters
<1>6. EntryStands'
  BY <1>4 DEF EntryStands
<1>7. QqStartsAsAsked'
  BY <1>5 DEF QqStartsAsAsked, TreeInv
<1> QED
  BY <1>3, <1>6, <1>7

\* A step that leaves the files, the starts and the damage alone, and starts
\* no writing.
LEMMA TreeStays ==
    ASSUME TreeInv, UNCHANGED <<files, starter, damaged>>,
           \A c \in Components : Writing(c)' => Writing(c),
           \A c \in Components : doing[c].at = "copying" => doing'[c].at = "copying"
    PROVE  EntryStands' /\ PartialIsCopied' /\ QqStartsAsAsked'
<1>1. EntryStands'
  <2>1. EntryStands
    BY DEF TreeInv
  <2>2. UNCHANGED <<main, core, loader, starter>>
    BY DEF files
  <2> QED
    BY <2>1, <2>2 DEF EntryStands, Writing
<1>2. PartialIsCopied'
  <2>1. doing["napcat"].at = "copying" => doing'["napcat"].at = "copying"
    BY DEF Components
  <2>2. core' = core /\ damaged' = damaged
    BY DEF files
  <2> QED
    BY <2>1, <2>2 DEF PartialIsCopied, TreeInv
<1>3. QqStartsAsAsked'
  BY DEF QqStartsAsAsked, TreeInv
<1> QED
  BY <1>1, <1>2, <1>3

LEMMA SubmitKeepsTree ==
    ASSUME TreeInv, NEW c \in Components, NEW kind \in Kinds, Submit(c, kind)
    PROVE  TreeInv'
<1>1. UNCHANGED <<files, starter, damaged, doing>>
  BY DEF Submit
<1>2. EntryStands' /\ PartialIsCopied' /\ QqStartsAsAsked'
  BY <1>1, TreeStays DEF Writing
<1>3. \A w \in BOOLEAN : /\ Queued(c, kind, w) \in [component : Components, kind : Kinds, waits : BOOLEAN]
                        /\ Queued("qq", "ensure", w) \in [component : Components, kind : Kinds, waits : BOOLEAN]
  BY DEF Queued, Components, Kinds
<1>4. TreeKinds'
  BY <1>1, <1>3 DEF Submit, TreeInv, TreeKinds, FilesKinds, DoingKinds, files
<1> QED
  BY <1>2, <1>4 DEF TreeInv

LEMMA CancelKeepsTree ==
    ASSUME TreeInv, NEW q, Cancel(q)
    PROVE  TreeInv'
<1>1. UNCHANGED <<files, starter, damaged, doing>>
  BY DEF Cancel
<1>2. EntryStands' /\ PartialIsCopied' /\ QqStartsAsAsked'
  BY <1>1, TreeStays DEF Writing
<1>3. TreeKinds'
  BY <1>1 DEF Cancel, TreeInv, TreeKinds, FilesKinds, DoingKinds, files
<1> QED
  BY <1>2, <1>3 DEF TreeInv

LEMMA BeginActionKeepsTree ==
    ASSUME TreeInv, NEW q, BeginAction(q)
    PROVE  TreeInv'
<1>1. UNCHANGED <<files, starter, damaged>>
  BY DEF BeginAction
<1>2. q \in [component : Components, kind : Kinds, waits : BOOLEAN] /\ q \in queue
  BY DEF BeginAction, TreeInv, TreeKinds
<1> DEFINE a == [kind |-> q.kind, at |-> "checking"]
<1>3. /\ a \in Actions /\ a.at = "checking" /\ a.kind # "none"
      /\ doing' = [doing EXCEPT ![q.component] = a] /\ doing[q.component].at = "idle"
  BY <1>2 DEF BeginAction, Actions, TaskPlaces, Kinds, NoAction
<1>4. q.component \in Components
  BY <1>2
<1> HIDE DEF a
<1>5. DoingKinds' /\ doing'[q.component] = a /\ \A d \in Components \ {q.component} : doing'[d] = doing[d]
  BY <1>3, <1>4, ActionMoves DEF TreeInv, TreeKinds
<1>6. EntryStands' /\ PartialIsCopied' /\ QqStartsAsAsked'
  BY <1>1, <1>3, <1>4, <1>5, TreeStays DEF Writing
<1>7. TreeKinds'
  BY <1>1, <1>5 DEF BeginAction, TreeInv, TreeKinds, FilesKinds, files
<1> QED
  BY <1>6, <1>7 DEF TreeInv

LEMMA EndsEarlyKeepsTree ==
    ASSUME TreeInv, NEW c \in Components, EndsEarly(c)
    PROVE  TreeInv'
<1>1. UNCHANGED <<files, starter, damaged>> /\ doing[c].at = "checking"
  BY DEF EndsEarly
<1>2. \E ok \in BOOLEAN : Ends(c, ok)
  BY DEF EndsEarly
<1>3. /\ DoingKinds' /\ doing'[c] = NoAction
      /\ \A d \in Components \ {c} : doing'[d] = doing[d]
      /\ queue' \subseteq [component : Components, kind : Kinds, waits : BOOLEAN]
  BY <1>2, EndsFacts DEF TreeInv
<1>4. EntryStands' /\ PartialIsCopied' /\ QqStartsAsAsked'
  BY <1>1, <1>3, TreeStays DEF Writing, NoAction
<1>5. TreeKinds'
  BY <1>1, <1>3 DEF TreeInv, TreeKinds, FilesKinds, files
<1> QED
  BY <1>4, <1>5 DEF TreeInv

LEMMA ProceedsKeepsTree ==
    ASSUME TreeInv, NEW c \in Components, Proceeds(c)
    PROVE  TreeInv'
<1>1. /\ UNCHANGED <<files, queue>> /\ doing[c].at = "checking" /\ starter' = Disturbed({})
      /\ damaged => damaged'
      /\ damaged' \in BOOLEAN
  BY DEF Proceeds, TreeInv, TreeKinds
<1>2. PICK place \in {"writing", "removing"} : doing' = [doing EXCEPT ![c].at = place]
  BY DEF Proceeds
<1>3. place \in TaskPlaces \ {"idle"}
  BY DEF TaskPlaces
<1>4. /\ DoingKinds' /\ doing'[c].at = place
      /\ \A d \in Components \ {c} : doing'[d] = doing[d]
  BY <1>1, <1>2, <1>3, GoesOnFacts DEF TreeInv
<1>5. starter' \in [TreeBots -> Starters] /\ EntryStands' /\ QqStartsAsAsked'
  BY <1>1, DisturbedFacts
<1>6. TreeKinds'
  BY <1>1, <1>4, <1>5 DEF TreeInv, TreeKinds, FilesKinds, files
<1>7. PartialIsCopied'
  BY <1>1, <1>4 DEF TreeInv, PartialIsCopied, Components, files
<1> QED
  BY <1>5, <1>6, <1>7 DEF TreeInv

\* A step of an action on the files, which goes on, ends or fails.
LEMMA WritingKeepsTree ==
    ASSUME TreeInv, NEW c \in Components, doing[c].at # "idle",
           FilesKinds', starter' = Disturbed({}),
           \/ \E place \in TaskPlaces \ {"idle"} : GoesOn(c, place)
           \/ Done(c) \/ Fails(c)
    PROVE  /\ TreeKinds' /\ EntryStands' /\ QqStartsAsAsked'
           /\ \A d \in Components \ {c} : doing'[d] = doing[d]
<1>1. damaged' \in BOOLEAN /\ (damaged => damaged')
  BY DEF GoesOn, Done, Fails, TreeInv, TreeKinds
<1>2. /\ DoingKinds' /\ \A d \in Components \ {c} : doing'[d] = doing[d]
      /\ queue' \subseteq [component : Components, kind : Kinds, waits : BOOLEAN]
  <2>1. CASE \E place \in TaskPlaces \ {"idle"} : GoesOn(c, place)
    BY <2>1, GoesOnFacts DEF GoesOn, TreeInv, TreeKinds
  <2>2. CASE Done(c) \/ Fails(c)
    <3>1. \E ok \in BOOLEAN : Ends(c, ok)
      BY <2>2 DEF Done, Fails
    <3> QED
      BY <3>1, EndsFacts DEF TreeInv
  <2> QED
    BY <2>1, <2>2
<1>3. starter' \in [TreeBots -> Starters] /\ EntryStands' /\ QqStartsAsAsked'
  BY <1>1, DisturbedFacts
<1> QED
  BY <1>1, <1>2, <1>3 DEF TreeKinds

LEMMA UnpackQqKeepsTree ==
    ASSUME TreeInv, UnpackQq
    PROVE  TreeInv'
<1>1. doing["qq"].at \in {"writing"} /\ "qq" \in Components
  BY DEF UnpackQq, Components
<1>2. GoesOn("qq", "unpacking") \/ Fails("qq")
  BY DEF UnpackQq
<1>3. starter' = Disturbed({})
  BY <1>2 DEF GoesOn, Done, Fails
<1>4. FilesKinds'
  BY DEF UnpackQq, TreeInv, TreeKinds, FilesKinds, files
<1>5. /\ TreeKinds' /\ EntryStands' /\ QqStartsAsAsked'
      /\ \A d \in Components \ {"qq"} : doing'[d] = doing[d]
  BY <1>1, <1>2, <1>3, <1>4, WritingKeepsTree DEF TaskPlaces
<1>6. PartialIsCopied'
  BY <1>2, <1>5 DEF UnpackQq, TreeInv, PartialIsCopied, Components, files, GoesOn, Done, Fails
<1> QED
  BY <1>5, <1>6 DEF TreeInv

LEMMA UnpackQqEndsKeepsTree ==
    ASSUME TreeInv, UnpackQqEnds
    PROVE  TreeInv'
<1>1. doing["qq"].at \in {"unpacking"} /\ "qq" \in Components
  BY DEF UnpackQqEnds, Components
<1>2. Done("qq")
  BY DEF UnpackQqEnds
<1>3. starter' = Disturbed({})
  BY <1>2 DEF GoesOn, Done, Fails
<1>4. FilesKinds'
  BY DEF UnpackQqEnds, TreeInv, TreeKinds, FilesKinds, files
<1>5. /\ TreeKinds' /\ EntryStands' /\ QqStartsAsAsked'
      /\ \A d \in Components \ {"qq"} : doing'[d] = doing[d]
  BY <1>1, <1>2, <1>3, <1>4, WritingKeepsTree DEF TaskPlaces
<1>6. PartialIsCopied'
  BY <1>2, <1>5 DEF UnpackQqEnds, TreeInv, PartialIsCopied, Components, files, GoesOn, Done, Fails
<1> QED
  BY <1>5, <1>6 DEF TreeInv

LEMMA RemoveQqKeepsTree ==
    ASSUME TreeInv, RemoveQq
    PROVE  TreeInv'
<1>1. doing["qq"].at \in {"removing"} /\ "qq" \in Components
  BY DEF RemoveQq, Components
<1>2. Done("qq") \/ Fails("qq")
  BY DEF RemoveQq
<1>3. starter' = Disturbed({})
  BY <1>2 DEF GoesOn, Done, Fails
<1>4. FilesKinds'
  BY DEF RemoveQq, TreeInv, TreeKinds, FilesKinds, files
<1>5. /\ TreeKinds' /\ EntryStands' /\ QqStartsAsAsked'
      /\ \A d \in Components \ {"qq"} : doing'[d] = doing[d]
  BY <1>1, <1>2, <1>3, <1>4, WritingKeepsTree DEF TaskPlaces
<1>6. PartialIsCopied'
  BY <1>2, <1>5 DEF RemoveQq, TreeInv, PartialIsCopied, Components, files, GoesOn, Done, Fails
<1> QED
  BY <1>5, <1>6 DEF TreeInv

LEMMA CopyNapcatKeepsTree ==
    ASSUME TreeInv, CopyNapcat
    PROVE  TreeInv'
<1>1. doing["napcat"].at \in {"writing"} /\ "napcat" \in Components
  BY DEF CopyNapcat, Components
<1>2. GoesOn("napcat", "copying") \/ Fails("napcat")
  BY DEF CopyNapcat
<1>3. starter' = Disturbed({})
  BY <1>2 DEF GoesOn, Done, Fails
<1>4. FilesKinds'
  BY DEF CopyNapcat, TreeInv, TreeKinds, FilesKinds, files
<1>5. /\ TreeKinds' /\ EntryStands' /\ QqStartsAsAsked'
      /\ \A d \in Components \ {"napcat"} : doing'[d] = doing[d]
  BY <1>1, <1>2, <1>3, <1>4, WritingKeepsTree DEF TaskPlaces
<1>6. PartialIsCopied'
  <2>1. CASE GoesOn("napcat", "copying")
    <3>1. doing'["napcat"].at = "copying"
      BY <1>1, <2>1 DEF GoesOn, TreeInv, TreeKinds, DoingKinds
    <3> QED
      BY <3>1 DEF PartialIsCopied
  <2>2. CASE Fails("napcat")
    BY <2>2 DEF Fails, PartialIsCopied
  <2> QED
    BY <1>2, <2>1, <2>2
<1> QED
  BY <1>5, <1>6 DEF TreeInv

LEMMA CopyNapcatEndsKeepsTree ==
    ASSUME TreeInv, CopyNapcatEnds
    PROVE  TreeInv'
<1>1. doing["napcat"].at \in {"copying"} /\ "napcat" \in Components
  BY DEF CopyNapcatEnds, Components
<1>2. GoesOn("napcat", "loading")
  BY DEF CopyNapcatEnds
<1>3. starter' = Disturbed({})
  BY <1>2 DEF GoesOn, Done, Fails
<1>4. FilesKinds'
  BY DEF CopyNapcatEnds, TreeInv, TreeKinds, FilesKinds, files
<1>5. /\ TreeKinds' /\ EntryStands' /\ QqStartsAsAsked'
      /\ \A d \in Components \ {"napcat"} : doing'[d] = doing[d]
  BY <1>1, <1>2, <1>3, <1>4, WritingKeepsTree DEF TaskPlaces
<1>6. PartialIsCopied'
  BY <1>1, <1>2 DEF CopyNapcatEnds, TreeInv, PartialIsCopied, TreeKinds, DoingKinds, Components, files, GoesOn, Done, Fails
<1> QED
  BY <1>5, <1>6 DEF TreeInv

LEMMA WriteLoaderKeepsTree ==
    ASSUME TreeInv, WriteLoader
    PROVE  TreeInv'
<1>1. doing["napcat"].at \in {"loading"} /\ "napcat" \in Components
  BY DEF WriteLoader, Components
<1>2. GoesOn("napcat", "patching")
  BY DEF WriteLoader
<1>3. starter' = Disturbed({})
  BY <1>2 DEF GoesOn, Done, Fails
<1>4. FilesKinds'
  BY DEF WriteLoader, TreeInv, TreeKinds, FilesKinds, files
<1>5. /\ TreeKinds' /\ EntryStands' /\ QqStartsAsAsked'
      /\ \A d \in Components \ {"napcat"} : doing'[d] = doing[d]
  BY <1>1, <1>2, <1>3, <1>4, WritingKeepsTree DEF TaskPlaces
<1>6. PartialIsCopied'
  BY <1>1, <1>2 DEF WriteLoader, TreeInv, PartialIsCopied, TreeKinds, DoingKinds, Components, files, GoesOn, Done, Fails
<1> QED
  BY <1>5, <1>6 DEF TreeInv

LEMMA PatchQqMainKeepsTree ==
    ASSUME TreeInv, PatchQqMain
    PROVE  TreeInv'
<1>1. doing["napcat"].at \in {"patching"} /\ "napcat" \in Components
  BY DEF PatchQqMain, Components
<1>2. Done("napcat")
  BY DEF PatchQqMain
<1>3. starter' = Disturbed({})
  BY <1>2 DEF GoesOn, Done, Fails
<1>4. FilesKinds'
  BY DEF PatchQqMain, TreeInv, TreeKinds, FilesKinds, files
<1>5. /\ TreeKinds' /\ EntryStands' /\ QqStartsAsAsked'
      /\ \A d \in Components \ {"napcat"} : doing'[d] = doing[d]
  BY <1>1, <1>2, <1>3, <1>4, WritingKeepsTree DEF TaskPlaces
<1>6. PartialIsCopied'
  BY <1>1, <1>2 DEF PatchQqMain, TreeInv, PartialIsCopied, TreeKinds, DoingKinds, Components, files, GoesOn, Done, Fails
<1> QED
  BY <1>5, <1>6 DEF TreeInv

LEMMA NapcatFailsKeepsTree ==
    ASSUME TreeInv, NapcatFails
    PROVE  TreeInv'
<1>1. doing["napcat"].at \in {"copying", "loading", "patching"} /\ "napcat" \in Components
  BY DEF NapcatFails, Components
<1>2. Fails("napcat")
  BY DEF NapcatFails
<1>3. starter' = Disturbed({})
  BY <1>2 DEF GoesOn, Done, Fails
<1>4. FilesKinds'
  BY DEF NapcatFails, TreeInv, TreeKinds, FilesKinds, files
<1>5. /\ TreeKinds' /\ EntryStands' /\ QqStartsAsAsked'
      /\ \A d \in Components \ {"napcat"} : doing'[d] = doing[d]
  BY <1>1, <1>2, <1>3, <1>4, WritingKeepsTree DEF TaskPlaces
<1>6. PartialIsCopied'
  BY <1>1, <1>2 DEF NapcatFails, TreeInv, PartialIsCopied, TreeKinds, DoingKinds, Components, files, GoesOn, Done, Fails
<1> QED
  BY <1>5, <1>6 DEF TreeInv

LEMMA RemoveNapcatKeepsTree ==
    ASSUME TreeInv, RemoveNapcat
    PROVE  TreeInv'
<1>1. doing["napcat"].at \in {"removing"} /\ "napcat" \in Components
  BY DEF RemoveNapcat, Components
<1>2. GoesOn("napcat", "removing loader") \/ Fails("napcat")
  BY DEF RemoveNapcat
<1>3. starter' = Disturbed({})
  BY <1>2 DEF GoesOn, Done, Fails
<1>4. FilesKinds'
  BY DEF RemoveNapcat, TreeInv, TreeKinds, FilesKinds, files
<1>5. /\ TreeKinds' /\ EntryStands' /\ QqStartsAsAsked'
      /\ \A d \in Components \ {"napcat"} : doing'[d] = doing[d]
  BY <1>1, <1>2, <1>3, <1>4, WritingKeepsTree DEF TaskPlaces
<1>6. PartialIsCopied'
  BY <1>1, <1>2 DEF RemoveNapcat, TreeInv, PartialIsCopied, TreeKinds, DoingKinds, Components, files, GoesOn, Done, Fails
<1> QED
  BY <1>5, <1>6 DEF TreeInv

LEMMA RemoveLoaderKeepsTree ==
    ASSUME TreeInv, RemoveLoader
    PROVE  TreeInv'
<1>1. doing["napcat"].at \in {"removing loader"} /\ "napcat" \in Components
  BY DEF RemoveLoader, Components
<1>2. GoesOn("napcat", "restoring")
  BY DEF RemoveLoader
<1>3. starter' = Disturbed({})
  BY <1>2 DEF GoesOn, Done, Fails
<1>4. FilesKinds'
  BY DEF RemoveLoader, TreeInv, TreeKinds, FilesKinds, files
<1>5. /\ TreeKinds' /\ EntryStands' /\ QqStartsAsAsked'
      /\ \A d \in Components \ {"napcat"} : doing'[d] = doing[d]
  BY <1>1, <1>2, <1>3, <1>4, WritingKeepsTree DEF TaskPlaces
<1>6. PartialIsCopied'
  <2>1. core' = core /\ damaged' = damaged /\ doing["napcat"].at # "copying"
    BY <1>1, <1>2 DEF RemoveLoader, GoesOn
  <2> QED
    BY <2>1 DEF TreeInv, PartialIsCopied
<1> QED
  BY <1>5, <1>6 DEF TreeInv

LEMMA RestoreMainKeepsTree ==
    ASSUME TreeInv, RestoreMain
    PROVE  TreeInv'
<1>1. doing["napcat"].at \in {"restoring"} /\ "napcat" \in Components
  BY DEF RestoreMain, Components
<1>2. Done("napcat")
  BY DEF RestoreMain
<1>3. starter' = Disturbed({})
  BY <1>2 DEF GoesOn, Done, Fails
<1>4. FilesKinds'
  BY DEF RestoreMain, TreeInv, TreeKinds, FilesKinds, files
<1>5. /\ TreeKinds' /\ EntryStands' /\ QqStartsAsAsked'
      /\ \A d \in Components \ {"napcat"} : doing'[d] = doing[d]
  BY <1>1, <1>2, <1>3, <1>4, WritingKeepsTree DEF TaskPlaces
<1>6. PartialIsCopied'
  BY <1>1, <1>2 DEF RestoreMain, TreeInv, PartialIsCopied, TreeKinds, DoingKinds, Components, files, GoesOn, Done, Fails
<1> QED
  BY <1>5, <1>6 DEF TreeInv

LEMMA RestoreIsTriedKeepsTree ==
    ASSUME TreeInv, RestoreIsTried
    PROVE  TreeInv'
<1>1. /\ UNCHANGED <<files, starter>> /\ damaged'
      /\ doing["napcat"].at \in {"removing loader", "restoring"} /\ "napcat" \in Components
  BY DEF RestoreIsTried, Components
<1>2. /\ DoingKinds' /\ \A d \in Components \ {"napcat"} : doing'[d] = doing[d]
      /\ queue' \subseteq [component : Components, kind : Kinds, waits : BOOLEAN]
  <2>1. CASE Ends("napcat", TRUE)
    BY <1>1, <2>1, EndsFacts DEF TreeInv
  <2>2. CASE doing' = [doing EXCEPT !["napcat"].at = "restoring"] /\ UNCHANGED queue
    <3>1. "restoring" \in TaskPlaces \ {"idle"}
      BY DEF TaskPlaces
    <3> QED
      BY <1>1, <2>2, <3>1, GoesOnFacts DEF TreeInv, TreeKinds
  <2> QED
    BY <2>1, <2>2 DEF RestoreIsTried
<1>3. TreeKinds'
  BY <1>1, <1>2 DEF RestoreIsTried, TreeInv, TreeKinds, FilesKinds, files
<1>4. EntryStands'
  <2>1. Writing("napcat")
    BY <1>1 DEF Writing
  <2> QED
    BY <1>1, <2>1 DEF TreeInv, EntryStands
<1>5. PartialIsCopied' /\ QqStartsAsAsked'
  BY <1>1 DEF PartialIsCopied, QqStartsAsAsked
<1> QED
  BY <1>3, <1>4, <1>5 DEF TreeInv

\* A start sets its entry alone, and the starts of other bots are not alone
\* any more.
LEMMA SetEntryKeepsTree ==
    ASSUME TreeInv, NEW b \in TreeBots, NEW flavor \in Flavors, SetEntry(b, flavor)
    PROVE  TreeInv'
<1> DEFINE u == [at |-> IF flavor = "napcat" THEN "verifying" ELSE "ready", flavor |-> flavor,
                 alone |-> \A c \in Components : ~Writing(c), works |-> TRUE]
<1>1. /\ UNCHANGED <<program, core, loader, queue, doing, damaged>>
      /\ main' = EntryOf(flavor)
      /\ starter' = [Disturbed({b}) EXCEPT ![b] = u]
  BY DEF SetEntry, EntryOf
<1>2. u \in Starters /\ u.flavor = flavor /\ (u.alone => \A c \in Components : ~Writing(c))
      /\ u.at \in {"verifying", "ready"} /\ (flavor = "napcat" => u.at = "verifying")
  BY DEF Starters, Flavors
<1> HIDE DEF u
<1>3. \A c \in TreeBots : starter[c] \in Starters
  BY DEF TreeInv, TreeKinds
<1>4. /\ starter'[b] = u
      /\ \A c \in TreeBots \ {b} :
            starter'[c] = IF starter[c].at \in {"verifying", "ready"}
                          THEN [starter[c] EXCEPT !.alone = FALSE] ELSE starter[c]
  BY <1>1 DEF Disturbed
<1>5. starter' \in [TreeBots -> Starters]
  <2>1. \A c \in TreeBots : [starter[c] EXCEPT !.alone = FALSE] \in Starters
    BY <1>3 DEF Starters
  <2>2. \A c \in TreeBots : starter'[c] \in Starters
    BY <1>2, <1>3, <1>4, <2>1
  <2> QED
    BY <1>1, <2>2 DEF Disturbed
<1>6. TreeKinds'
  BY <1>1, <1>5 DEF TreeInv, TreeKinds, FilesKinds, DoingKinds, EntryOf
<1>7. \A c \in TreeBots \ {b} : starter'[c].at \in {"verifying", "ready"} => ~starter'[c].alone
  BY <1>3, <1>4 DEF Starters
<1>8. \A c \in Components : Writing(c)' <=> Writing(c)
  BY <1>1 DEF Writing
<1>9. EntryStands'
  BY <1>1, <1>2, <1>4, <1>7, <1>8 DEF EntryStands
<1>10. \A c \in TreeBots : starter'[c].at = "up" => starter'[c] = starter[c]
  BY ZenonT(40), <1>2, <1>3, <1>4 DEF Starters
<1>11. PartialIsCopied' /\ QqStartsAsAsked'
  BY <1>1, <1>10 DEF PartialIsCopied, QqStartsAsAsked, TreeInv
<1> QED
  BY <1>6, <1>9, <1>11 DEF TreeInv

LEMMA VerifyNapcatKeepsTree ==
    ASSUME TreeInv, NEW b \in TreeBots, VerifyNapcat(b)
    PROVE  TreeInv'
<1>1. UNCHANGED <<files, queue, doing, damaged>> /\ starter[b].at = "verifying"
  BY DEF VerifyNapcat
<1>2. PICK place \in {"ready", "off"} :
          /\ starter' = [starter EXCEPT ![b].at = place]
          /\ place = "ready" => loader /\ core # "none"
  BY DEF VerifyNapcat
<1>3. starter \in [TreeBots -> Starters]
  BY DEF TreeInv, TreeKinds
<1>4. starter' \in [TreeBots -> Starters]
  BY <1>2, <1>3 DEF Starters
<1>5. /\ starter'[b].at = place /\ starter'[b].flavor = starter[b].flavor
      /\ starter'[b].alone = starter[b].alone
      /\ \A c \in TreeBots \ {b} : starter'[c] = starter[c]
  BY <1>2, <1>3 DEF Starters
<1>6. TreeKinds'
  BY <1>1, <1>4 DEF TreeInv, TreeKinds, FilesKinds, DoingKinds, files
<1>7. \A c \in Components : Writing(c)' <=> Writing(c)
  BY <1>1 DEF Writing
<1>8. EntryStands'
  BY <1>1, <1>2, <1>5, <1>7 DEF EntryStands, TreeInv, files
<1>9. PartialIsCopied' /\ QqStartsAsAsked'
  BY <1>1, <1>5 DEF PartialIsCopied, QqStartsAsAsked, TreeInv, files
<1> QED
  BY <1>6, <1>8, <1>9 DEF TreeInv

\* QQ reads the entry: the one the start has set, and NapCat's files in full.
LEMMA LaunchQqKeepsTree ==
    ASSUME TreeInv, NEW b \in TreeBots, LaunchQq(b)
    PROVE  TreeInv'
<1> DEFINE found == IF starter[b].flavor = "napcat"
                   THEN main = "napcat" /\ loader /\ core = "full"
                   ELSE main = "qq"
<1>1. /\ UNCHANGED <<files, queue, doing, damaged>> /\ starter[b].at = "ready"
      /\ starter' = [starter EXCEPT ![b].at = "up", ![b].works = found]
  BY DEF LaunchQq
<1>2. starter \in [TreeBots -> Starters]
  BY DEF TreeInv, TreeKinds
<1>a. found \in BOOLEAN
  BY DEF TreeInv, TreeKinds, FilesKinds
<1>3. ~damaged /\ starter[b].alone => found
  <2>1. SUFFICES ASSUME ~damaged, starter[b].alone PROVE found
    OBVIOUS
  <2>2. /\ main = EntryOf(starter[b].flavor) /\ ~Writing("napcat")
        /\ starter[b].flavor = "napcat" => loader /\ core # "none"
    BY <1>1, <2>1 DEF TreeInv, EntryStands, Components
  <2>3. core # "partial"
    BY <2>1, <2>2 DEF TreeInv, PartialIsCopied, Writing
  <2>4. core \in {"none", "partial", "full"}
    BY DEF TreeInv, TreeKinds, FilesKinds
  <2> QED
    BY <2>2, <2>3, <2>4 DEF EntryOf
<1> HIDE DEF found
<1>4. starter' \in [TreeBots -> Starters]
  BY <1>1, <1>2, <1>a DEF Starters
<1>5. /\ starter'[b].at = "up" /\ starter'[b].alone = starter[b].alone /\ starter'[b].works = found
      /\ \A c \in TreeBots \ {b} : starter'[c] = starter[c]
  BY <1>1, <1>2 DEF Starters
<1>6. TreeKinds'
  BY <1>1, <1>4 DEF TreeInv, TreeKinds, FilesKinds, DoingKinds, files
<1>7. \A c \in Components : Writing(c)' <=> Writing(c)
  BY <1>1 DEF Writing
<1>8. EntryStands'
  BY ZenonT(40), <1>1, <1>5, <1>7 DEF EntryStands, TreeInv, files
<1>9. PartialIsCopied'
  BY <1>1 DEF PartialIsCopied, TreeInv, files
<1>10. QqStartsAsAsked'
  BY <1>1, <1>3, <1>5 DEF QqStartsAsAsked, TreeInv
<1> QED
  BY <1>6, <1>8, <1>9, <1>10 DEF TreeInv

LEMMA OffKeepsTree ==
    ASSUME TreeInv, NEW b \in TreeBots, Off(b)
    PROVE  TreeInv'
<1>1. /\ UNCHANGED <<files, queue, doing, damaged>>
      /\ starter' = [starter EXCEPT ![b] = [@ EXCEPT !.at = "off", !.works = TRUE]]
  BY DEF Off
<1>2. starter \in [TreeBots -> Starters]
  BY DEF TreeInv, TreeKinds
<1>3. starter' \in [TreeBots -> Starters]
  BY <1>1, <1>2 DEF Starters
<1>4. starter'[b].at = "off" /\ \A c \in TreeBots \ {b} : starter'[c] = starter[c]
  BY <1>1, <1>2 DEF Starters
<1>5. TreeKinds'
  BY <1>1, <1>3 DEF TreeInv, TreeKinds, FilesKinds, DoingKinds, files
<1>6. \A c \in Components : Writing(c)' <=> Writing(c)
  BY <1>1 DEF Writing
<1>7. EntryStands'
  BY <1>1, <1>4, <1>6 DEF EntryStands, TreeInv, files
<1>8. PartialIsCopied' /\ QqStartsAsAsked'
  BY <1>1, <1>4 DEF PartialIsCopied, QqStartsAsAsked, TreeInv, files
<1> QED
  BY <1>5, <1>7, <1>8 DEF TreeInv

LEMMA TreeInitInv == TreeInit => TreeInv
<1> SUFFICES ASSUME TreeInit PROVE TreeInv
  OBVIOUS
<1>1. TreeKinds
  BY DEF TreeInit, TreeKinds, FilesKinds, DoingKinds, Actions, TaskPlaces, NoAction, Starters, Flavors
<1>2. EntryStands /\ PartialIsCopied /\ QqStartsAsAsked
  BY DEF TreeInit, EntryStands, PartialIsCopied, QqStartsAsAsked
<1> QED
  BY <1>1, <1>2 DEF TreeInv

LEMMA TreeInvariance == TreeInv /\ [TreeNext]_treeVars => TreeInv'
<1> SUFFICES ASSUME TreeInv, [TreeNext]_treeVars PROVE TreeInv'
  OBVIOUS
<1>1. ASSUME NEW c \in Components, NEW kind \in Kinds, Submit(c, kind) PROVE TreeInv'
  BY <1>1, SubmitKeepsTree
<1>2. ASSUME NEW q \in queue, Cancel(q) PROVE TreeInv'
  BY <1>2, CancelKeepsTree
<1>3. ASSUME NEW q \in queue, BeginAction(q) PROVE TreeInv'
  BY <1>3, BeginActionKeepsTree
<1>4. ASSUME NEW c \in Components, EndsEarly(c) PROVE TreeInv'
  BY <1>4, EndsEarlyKeepsTree
<1>5. ASSUME NEW c \in Components, Proceeds(c) PROVE TreeInv'
  BY <1>5, ProceedsKeepsTree
<1>6. CASE UnpackQq
  BY <1>6, UnpackQqKeepsTree
<1>7. CASE UnpackQqEnds
  BY <1>7, UnpackQqEndsKeepsTree
<1>8. CASE RemoveQq
  BY <1>8, RemoveQqKeepsTree
<1>9. CASE CopyNapcat
  BY <1>9, CopyNapcatKeepsTree
<1>10. CASE CopyNapcatEnds
  BY <1>10, CopyNapcatEndsKeepsTree
<1>11. CASE WriteLoader
  BY <1>11, WriteLoaderKeepsTree
<1>12. CASE PatchQqMain
  BY <1>12, PatchQqMainKeepsTree
<1>13. CASE NapcatFails
  BY <1>13, NapcatFailsKeepsTree
<1>14. CASE RemoveNapcat
  BY <1>14, RemoveNapcatKeepsTree
<1>15. CASE RemoveLoader
  BY <1>15, RemoveLoaderKeepsTree
<1>16. CASE RestoreMain
  BY <1>16, RestoreMainKeepsTree
<1>17. CASE RestoreIsTried
  BY <1>17, RestoreIsTriedKeepsTree
<1>18. ASSUME NEW b \in TreeBots, NEW flavor \in Flavors, SetEntry(b, flavor) PROVE TreeInv'
  BY <1>18, SetEntryKeepsTree
<1>19. ASSUME NEW b \in TreeBots, VerifyNapcat(b) PROVE TreeInv'
  BY <1>19, VerifyNapcatKeepsTree
<1>20. ASSUME NEW b \in TreeBots, LaunchQq(b) PROVE TreeInv'
  BY <1>20, LaunchQqKeepsTree
<1>21. ASSUME NEW b \in TreeBots, Off(b) PROVE TreeInv'
  BY <1>21, OffKeepsTree
<1>22. CASE UNCHANGED treeVars
  <2>1. UNCHANGED <<files, starter, damaged, doing, queue>>
    BY <1>22 DEF treeVars
  <2>2. EntryStands' /\ PartialIsCopied' /\ QqStartsAsAsked'
    BY <2>1, TreeStays DEF Writing
  <2>3. TreeKinds'
    BY <2>1 DEF TreeInv, TreeKinds, FilesKinds, DoingKinds, files
  <2> QED
    BY <2>2, <2>3 DEF TreeInv
<1> QED
  BY <1>1, <1>2, <1>3, <1>4, <1>5, <1>6, <1>7, <1>8, <1>9, <1>10, <1>11, <1>12, <1>13, <1>14, <1>15, <1>16, <1>17, <1>18, <1>19, <1>20, <1>21, <1>22
     DEF TreeNext, Flavors

\* The tree and the actions on it keep their kinds of value, whatever is
\* submitted, cancelled or fails halfway.
THEOREM TreeTypeCorrect == TreeSpec => []TreeTypeOK
<1>1. TreeInv => TreeTypeOK
  BY DEF TreeInv, TreeKinds, FilesKinds, DoingKinds, Actions, TreeTypeOK
<1> QED
  BY <1>1, TreeInitInv, TreeInvariance, PTL DEF TreeSpec

\* A bot that neither another start nor a component action has disturbed
\* between ensure_for_napcat or ensure_for_native and its launch runs the QQ
\* it asked for, for any bots and any number of actions and starts.
THEOREM QqStartsCorrect == TreeSpec => []QqStartsAsAsked
<1>1. TreeInv => QqStartsAsAsked
  BY DEF TreeInv
<1> QED
  BY <1>1, TreeInitInv, TreeInvariance, PTL DEF TreeSpec
=============================================================================
