------------------------ MODULE LinkLifecycleProofs ------------------------
(***************************************************************************)
(* What LinkLifecycle keeps for every number of chats and keys, every      *)
(* grace and every bound.                                                  *)
(***************************************************************************)
EXTENDS LinkLifecycle, FiniteSetTheorems, WellFoundedInduction, TLAPS

---------------------------------------------------------------------------
(* The chats of a pass *)

(* A set of chats has a first one. *)
LEMMA LeastExists ==
  ASSUME NEW S \in SUBSET Nat, S # {}
  PROVE  \E n \in S : \A m \in S : n <= m
<1> DEFINE R == {p \in Nat \X Nat : p[1] < p[2]}
<1>1. IsWellFoundedOn(R, Nat)
  BY NatLessThanWellFounded DEF OpToRel
<1>2. \E x \in S : \A y \in S : <<y, x>> \notin R
  <2> HIDE DEF R
  <2> QED
    BY <1>1, WFMin
<1>3. PICK n \in S : \A m \in S : <<m, n>> \notin R
  BY <1>2
<1>4. ASSUME NEW m \in S PROVE n <= m
  <2>1. <<m, n>> \in Nat \X Nat /\ <<m, n>> \notin R
    BY <1>3
  <2>2. ~(m < n)
    BY <2>1
  <2> QED
    BY <2>2
<1> QED
  BY <1>4

Partial(R) == UNION {[S -> R] : S \in SUBSET Chats}

LEMMA PartialIs ==
  ASSUME NEW R, NEW f
  PROVE  f \in Partial(R) <=> /\ DOMAIN f \subseteq Chats
                              /\ f = [c \in DOMAIN f |-> f[c]]
                              /\ \A c \in DOMAIN f : f[c] \in R
<1>1. ASSUME f \in Partial(R)
      PROVE  /\ DOMAIN f \subseteq Chats
             /\ f = [c \in DOMAIN f |-> f[c]]
             /\ \A c \in DOMAIN f : f[c] \in R
  <2>1. PICK S \in SUBSET Chats : f \in [S -> R]
    BY <1>1 DEF Partial
  <2> QED
    BY <2>1
<1>2. ASSUME /\ DOMAIN f \subseteq Chats
             /\ f = [c \in DOMAIN f |-> f[c]]
             /\ \A c \in DOMAIN f : f[c] \in R
      PROVE  f \in Partial(R)
  <2>1. f \in [DOMAIN f -> R]
    BY <1>2
  <2> QED
    BY <1>2, <2>1 DEF Partial
<1> QED
  BY <1>1, <1>2

LEMMA NoneLeft ==
  ASSUME NEW R, NEW f \in Partial(R)
  PROVE  /\ <<>> \in Partial(R)
         /\ f = <<>> <=> DOMAIN f = {}
<1>1. DOMAIN <<>> = {} /\ <<>> = [c \in {} |-> NULL]
  OBVIOUS
<1>2. <<>> \in Partial(R)
  BY <1>1, PartialIs
<1>3. f = [c \in DOMAIN f |-> f[c]]
  BY PartialIs
<1> QED
  BY <1>1, <1>2, <1>3

(* The first chat is one of them, and without it the others are left.      *)
LEMMA FirstOne ==
  ASSUME NEW R, NEW f \in Partial(R)
  PROVE  /\ Without(f) \in Partial(R)
         /\ DOMAIN Without(f) = DOMAIN f \ {First(f)}
         /\ \A c \in DOMAIN Without(f) : Without(f)[c] = f[c]
         /\ DOMAIN f # {} => First(f) \in DOMAIN f
<1>1. DOMAIN f \subseteq Chats /\ \A c \in DOMAIN f : f[c] \in R
  BY PartialIs
<1>2. /\ DOMAIN Without(f) = DOMAIN f \ {First(f)}
      /\ \A c \in DOMAIN Without(f) : Without(f)[c] = f[c]
      /\ Without(f) = [c \in DOMAIN Without(f) |-> Without(f)[c]]
  BY DEF Without
<1>3. Without(f) \in Partial(R)
  BY <1>1, <1>2, PartialIs
<1>4. DOMAIN f # {} => First(f) \in DOMAIN f
  <2>1. DOMAIN f \in SUBSET Nat
    BY <1>1, LinkLifecycleAssumption
  <2>2. DOMAIN f # {} => \E c \in DOMAIN f : \A d \in DOMAIN f : c <= d
    BY <2>1, LeastExists
  <2> QED
    BY <2>2 DEF First
<1> QED
  BY <1>2, <1>3, <1>4

(* The answers, and one more. *)
LEMMA OneMore ==
  ASSUME NEW f \in Partial(Checks), NEW c \in Chats, NEW v \in Checks
  PROVE  /\ With(f, c, v) \in Partial(Checks)
         /\ DOMAIN With(f, c, v) = DOMAIN f \cup {c}
         /\ With(f, c, v)[c] = v
         /\ \A d \in DOMAIN f \ {c} : With(f, c, v)[d] = f[d]
<1>1. DOMAIN f \subseteq Chats /\ \A d \in DOMAIN f : f[d] \in Checks
  BY PartialIs
<1>2. /\ DOMAIN With(f, c, v) = DOMAIN f \cup {c}
      /\ With(f, c, v) = [d \in DOMAIN With(f, c, v) |-> With(f, c, v)[d]]
      /\ With(f, c, v)[c] = v
      /\ \A d \in DOMAIN f \ {c} : With(f, c, v)[d] = f[d]
  BY DEF With
<1>3. \A d \in DOMAIN With(f, c, v) : With(f, c, v)[d] \in Checks
  BY <1>1, <1>2
<1> QED
  BY <1>1, <1>2, <1>3, PartialIs

---------------------------------------------------------------------------
(* What an answer says *)

LEMMA CheckSays ==
  ASSUME NEW k \in Keys, server \in Servers, standing \in [Keys -> Standings]
  PROVE  /\ Check(k) \in Checks
         /\ server = "denies" => Check(k) = "INVALID"
         /\ Check(k) = "INVALID" /\ Good(k) => server = "denies"
         /\ Check(k) = "EXHAUSTED" => ~Good(k)
<1>1. standing[k] \in Standings
  OBVIOUS
<1>2. CASE server = "up"
  BY <1>1, <1>2 DEF Check, Truth, Checks, Standings, Good
<1>3. CASE server # "up"
  BY <1>3 DEF Check, Checks, Servers
<1> QED
  BY <1>2, <1>3

---------------------------------------------------------------------------
(* The invariant *)

Stages == {"idle", "validating", "judging", "notifying", "unlinking"}
Passes == [at : Stages, keys : Partial(Keys), checks : Partial(Checks),
           corroborated : BOOLEAN, divided : BOOLEAN]

Shape ==
  /\ link \in [Chats -> Keys \cup {NULL}]
  /\ streak \in [Chats -> Nat]
  /\ pass \in Passes
  /\ server \in Servers
  /\ standing \in [Keys -> Standings]
  /\ relinked \subseteq Chats

(* A pass asks about all of its chats before it judges one. *)
Stage ==
  /\ pass.at = "idle" => DOMAIN pass.keys = {} /\ DOMAIN pass.checks = {}
  /\ pass.at = "validating" => DOMAIN pass.keys # {}
  /\ pass.at \in {"judging", "notifying", "unlinking"} =>
       DOMAIN pass.keys = {} /\ DOMAIN pass.checks # {}
  /\ pass.at = "validating" =>
       (pass.corroborated <=> \E c \in DOMAIN pass.checks : pass.checks[c] = "VALID")

(* The key a pass asks about is the one the chat holds, and it holds one.  *)
Linked ==
  /\ \A c \in InPass : link[c] # NULL
  /\ \A c \in DOMAIN pass.keys \ relinked : link[c] = pass.keys[c]

(* A good key is denied only while the server denies all of them: then no  *)
(* key of the pass got a positive answer, unless the denial divided it.    *)
Truthful ==
  /\ \A c \in DOMAIN pass.checks \ relinked :
       /\ pass.checks[c] = "EXHAUSTED" => ~Good(link[c])
       /\ pass.checks[c] = "INVALID" /\ Good(link[c]) /\ ~pass.divided =>
            /\ ~pass.corroborated
            /\ DOMAIN pass.keys # {} => server = "denies"
  /\ /\ ~pass.divided
     /\ server = "denies"
     /\ DOMAIN pass.keys # {}
     /\ DOMAIN pass.checks # {}
     => ~pass.corroborated

Inv == Shape /\ Stage /\ Linked /\ Truthful

LEMMA IdleIs ==
  /\ IdlePass \in Passes
  /\ IdlePass.at = "idle"
  /\ DOMAIN IdlePass.keys = {} /\ DOMAIN IdlePass.checks = {}
  /\ IdlePass.corroborated = FALSE /\ IdlePass.divided = FALSE
<1>1. <<>> \in Partial(Keys) /\ <<>> \in Partial(Checks)
  <2>1. [c \in {} |-> NULL] \in Partial(Keys) /\ [c \in {} |-> NULL] \in Partial(Checks)
    BY PartialIs
  <2> QED
    BY <2>1, NoneLeft
<1> QED
  BY <1>1 DEF IdlePass, Passes, Stages

LEMMA InvInit == Init => Inv
BY IdleIs DEF Init, Inv, Shape, Stage, Linked, Truthful, NoneOf, InPass, Servers, Standings

(* Without a pass under way nothing is left to be said of one. *)
LEMMA NoPass ==
  ASSUME Shape', pass' = IdlePass
  PROVE  Inv'
BY IdleIs DEF Inv, Stage, Linked, Truthful, InPass

---------------------------------------------------------------------------
(* A step keeps the invariant *)

(* A chat has been judged, and the pass goes on to the next. *)
LEMMA JudgedKeeps ==
  ASSUME Inv, Shape', pass.at \in {"judging", "notifying", "unlinking"},
         pass' = Onward(pass), UNCHANGED world,
         \A c \in Chats \ {Now} : link'[c] = link[c],
         relinked \ {Now} \subseteq relinked'
  PROVE  Inv'
<1> DEFINE left == Without(pass.checks)
<1>1. /\ pass.checks \in Partial(Checks)
      /\ DOMAIN pass.keys = {}
  BY DEF Inv, Shape, Passes, Stage
<1>2. /\ DOMAIN left = DOMAIN pass.checks \ {Now}
      /\ \A c \in DOMAIN left : left[c] = pass.checks[c]
      /\ left \in Partial(Checks)
      /\ left = <<>> <=> DOMAIN left = {}
  BY <1>1, FirstOne, NoneLeft DEF Now
<1>3. CASE left = <<>>
  BY <1>3, NoPass DEF Onward
<1>4. CASE left # <<>>
  <2>1. /\ pass'.at = "judging" /\ pass'.keys = pass.keys /\ pass'.checks = left
        /\ pass'.corroborated = pass.corroborated /\ pass'.divided = pass.divided
    BY <1>4 DEF Onward, Inv, Shape, Passes
  <2>2. Stage'
    BY <1>1, <1>2, <1>4, <2>1 DEF Stage
  <2>3. DOMAIN left \subseteq Chats \ {Now}
    BY <1>1, <1>2, PartialIs
  <2>4. Linked'
    BY <1>1, <1>2, <2>1, <2>3 DEF Inv, Linked, InPass
  <2>5. Truthful'
    <3>1. ASSUME NEW c \in DOMAIN pass'.checks \ relinked'
          PROVE  /\ c \in DOMAIN pass.checks \ relinked
                 /\ pass'.checks[c] = pass.checks[c] /\ link'[c] = link[c]
      BY <1>2, <2>1, <2>3
    <3> QED
      BY <1>1, <2>1, <3>1 DEF Inv, Truthful, world, Good
  <2> QED
    BY <2>2, <2>4, <2>5 DEF Inv
<1> QED
  BY <1>3, <1>4

(* The next chat to be judged is one of the pass. *)
LEMMA NowIs ==
  ASSUME Inv, pass.at \in {"judging", "notifying", "unlinking"}
  PROVE  Now \in Chats /\ Now \in DOMAIN pass.checks /\ Onward(pass) \in Passes
<1>1. pass.checks \in Partial(Checks) /\ DOMAIN pass.checks # {}
  BY DEF Inv, Shape, Passes, Stage
<1>2. Now \in DOMAIN pass.checks /\ DOMAIN pass.checks \subseteq Chats
  BY <1>1, FirstOne, PartialIs DEF Now
<1>3. Without(pass.checks) \in Partial(Checks)
  BY <1>1, FirstOne
<1>4. Onward(pass) \in Passes
  BY <1>3, IdleIs DEF Onward, Inv, Shape, Passes, Stages
<1> QED
  BY <1>2, <1>4

LEMMA LinkKeeps ==
  ASSUME Inv, NEW c \in Chats, NEW k \in Keys, Link(c, k)
  PROVE  Inv'
<1>1. /\ link' = [link EXCEPT ![c] = k] /\ k # NULL
      /\ relinked' = IF link[c] # NULL /\ (streak[c] > 0 \/ c \in InPass)
                     THEN relinked \cup {c} ELSE relinked
      /\ UNCHANGED <<streak, pass, server, standing>>
  BY LinkLifecycleAssumption DEF Link, world
<1>2. Shape'
  BY <1>1 DEF Inv, Shape
<1>3. c \in InPass => c \in relinked'
  BY <1>1 DEF Inv, Linked
<1>4. \A d \in Chats : /\ d # c => link'[d] = link[d]
                       /\ link'[c] = k
  BY <1>1 DEF Inv, Shape
<1>5. InPass \subseteq Chats /\ InPass' = InPass
  BY <1>1, PartialIs DEF InPass, Inv, Shape, Passes
<1>6. Linked'
  BY <1>1, <1>3, <1>4, <1>5 DEF Inv, Linked, InPass
<1>7. Truthful'
  BY <1>1, <1>3, <1>4, <1>5 DEF Inv, Truthful, Good, InPass
<1>8. Stage'
  BY <1>1 DEF Inv, Stage
<1> QED
  BY <1>2, <1>6, <1>7, <1>8 DEF Inv

LEMMA StartPassKeeps == Inv /\ StartPass => Inv'
<1> SUFFICES ASSUME Inv, StartPass PROVE Inv'
  OBVIOUS
<1> DEFINE linked == {c \in Chats \ blocked : link[c] # NULL}
           asked  == [c \in linked |-> link[c]]
<1>1. linked # {} /\ pass = IdlePass /\ UNCHANGED <<link, streak, server, standing, relinked>>
  BY DEF StartPass, store, world, history
<1>2. asked \in Partial(Keys) /\ DOMAIN asked = linked
  <2>1. \A c \in linked : asked[c] \in Keys
    BY DEF Inv, Shape
  <2> QED
    BY <2>1, PartialIs
<1>3. pass' = [IdlePass EXCEPT !.at = "validating", !.keys = asked]
  BY DEF StartPass
<1>4. /\ pass' \in Passes /\ pass'.at = "validating" /\ pass'.keys = asked
      /\ pass'.checks = IdlePass.checks /\ pass'.corroborated = FALSE
  <2> HIDE DEF asked
  <2> QED
    BY <1>2, <1>3, IdleIs DEF Passes, Stages
<1>5. Shape'
  BY <1>1, <1>4 DEF Inv, Shape
<1>6. Stage' /\ Linked' /\ Truthful'
  BY <1>1, <1>2, <1>4, IdleIs DEF Stage, Linked, Truthful, InPass
<1> QED
  BY <1>5, <1>6 DEF Inv

(* One more answer.  While the server denies every key it is a denial, and *)
(* a good key gets one only then.                                          *)
LEMMA ValidateKeeps == Inv /\ Validate => Inv'
<1> SUFFICES ASSUME Inv, Validate PROVE Inv'
  OBVIOUS
<1> DEFINE c      == First(pass.keys)
           answer == Check(pass.keys[c])
           left   == Without(pass.keys)
           checks == With(pass.checks, c, answer)
<1>1. /\ pass.at = "validating" /\ DOMAIN pass.keys # {}
      /\ pass.keys \in Partial(Keys) /\ pass.checks \in Partial(Checks)
      /\ UNCHANGED <<link, streak, server, standing, relinked>>
  BY DEF Inv, Shape, Passes, Stage, Validate, store, world, history
<1>2. /\ left \in Partial(Keys) /\ DOMAIN left = DOMAIN pass.keys \ {c}
      /\ \A d \in DOMAIN left : left[d] = pass.keys[d]
      /\ c \in DOMAIN pass.keys /\ c \in Chats /\ pass.keys[c] \in Keys
      /\ left = <<>> <=> DOMAIN left = {}
  <2>1. /\ left \in Partial(Keys) /\ DOMAIN left = DOMAIN pass.keys \ {c}
        /\ \A d \in DOMAIN left : left[d] = pass.keys[d]
        /\ c \in DOMAIN pass.keys
    BY <1>1, FirstOne
  <2>2. DOMAIN pass.keys \subseteq Chats /\ \A d \in DOMAIN pass.keys : pass.keys[d] \in Keys
    BY <1>1, PartialIs
  <2> HIDE DEF c, left
  <2>3. left = <<>> <=> DOMAIN left = {}
    BY <2>1, NoneLeft
  <2> QED
    BY <2>1, <2>2, <2>3
<1>3. /\ answer \in Checks
      /\ server = "denies" => answer = "INVALID"
      /\ answer = "INVALID" /\ Good(pass.keys[c]) => server = "denies"
      /\ answer = "EXHAUSTED" => ~Good(pass.keys[c])
  BY <1>2, CheckSays DEF Inv, Shape
<1>4. /\ checks \in Partial(Checks) /\ DOMAIN checks = DOMAIN pass.checks \cup {c}
      /\ checks[c] = answer
      /\ \A d \in DOMAIN pass.checks \ {c} : checks[d] = pass.checks[d]
  <2>1. c \in Chats /\ answer \in Checks /\ pass.checks \in Partial(Checks)
    BY <1>1, <1>2, <1>3
  <2> HIDE DEF c, answer, left
  <2>2. \A f \in Partial(Checks), d \in Chats, v \in Checks :
          /\ With(f, d, v) \in Partial(Checks)
          /\ DOMAIN With(f, d, v) = DOMAIN f \cup {d}
          /\ With(f, d, v)[d] = v
          /\ \A e \in DOMAIN f \ {d} : With(f, d, v)[e] = f[e]
    BY OneMore, Zenon
  <2> QED
    BY <2>1, <2>2
<1>5. pass' = [pass EXCEPT !.at = IF left = <<>> THEN "judging" ELSE @, !.keys = left,
                           !.checks = checks, !.corroborated = Corroborated(checks)]
  BY DEF Validate
<1>6. Corroborated(checks) <=> \E d \in DOMAIN checks : checks[d] = "VALID"
  BY DEF Corroborated, Corroborates
<1> HIDE DEF c, answer, left, checks
<1>7. /\ pass' \in Passes
      /\ pass'.at = IF left = <<>> THEN "judging" ELSE "validating"
      /\ pass'.keys = left /\ pass'.checks = checks
      /\ pass'.corroborated <=> \E d \in DOMAIN checks : checks[d] = "VALID"
      /\ pass'.divided = pass.divided
  <2>1. Corroborated(checks) \in BOOLEAN
    BY DEF Corroborated
  <2> QED
    BY <1>1, <1>2, <1>4, <1>5, <1>6, <2>1 DEF Inv, Shape, Passes, Stages
<1>8. Shape' /\ Stage'
  BY <1>1, <1>2, <1>4, <1>7 DEF Inv, Shape, Stage
<1>9. Linked'
  BY <1>1, <1>2, <1>4, <1>7 DEF Inv, Linked, InPass
<1>10. Truthful'
  (* Denied so far, and denied again: nobody has vouched for the server. *)
  <2>1. ~pass.divided /\ server = "denies" => ~pass'.corroborated
    BY <1>1, <1>3, <1>4, <1>7 DEF Inv, Truthful, Stage
  <2>2. ASSUME NEW d \in DOMAIN checks \ relinked
        PROVE  /\ checks[d] = "EXHAUSTED" => ~Good(link[d])
               /\ checks[d] = "INVALID" /\ Good(link[d]) /\ ~pass.divided =>
                    server = "denies"
    <3>1. CASE d = c
      BY <1>2, <1>3, <1>4, <2>2, <3>1 DEF Inv, Linked
    <3>2. CASE d # c
      BY <1>1, <1>4, <2>2, <3>2 DEF Inv, Truthful
    <3> QED
      BY <3>1, <3>2
  <2> QED
    BY <1>1, <1>7, <2>1, <2>2 DEF Truthful, Good
<1> QED
  BY <1>8, <1>9, <1>10 DEF Inv

LEMMA JudgingKeeps == Inv /\ (Hold \/ EndStreak \/ Advance \/ TearDown) => Inv'
<1> SUFFICES ASSUME Inv, Hold \/ EndStreak \/ Advance \/ TearDown PROVE Inv'
  OBVIOUS
<1>1. /\ pass.at \in {"judging", "notifying", "unlinking"}
      /\ UNCHANGED world
  BY DEF Hold, EndStreak, Advance, TearDown, Judging
<1>2. Now \in Chats /\ Now \in DOMAIN pass.checks /\ Onward(pass) \in Passes
  BY <1>1, NowIs
<1>3. CASE Hold
  <2>1. Shape' /\ pass' = Onward(pass) /\ UNCHANGED <<link, relinked>>
    BY <1>2, <1>3 DEF Hold, Inv, Shape, store, world, history
  <2> QED
    BY <1>1, <2>1, JudgedKeeps
<1>4. CASE EndStreak
  <2>1. Shape' /\ pass' = Onward(pass) /\ UNCHANGED link /\ relinked' = relinked \ {Now}
    BY <1>2, <1>4 DEF EndStreak, Inv, Shape, world
  <2> QED
    BY <1>1, <2>1, JudgedKeeps
<1>5. CASE TearDown
  <2>1. Shape' /\ pass' = Onward(pass) /\ relinked' = relinked \ {Now}
    BY <1>2, <1>5 DEF TearDown, Inv, Shape, world
  <2>2. \A c \in Chats \ {Now} : link'[c] = link[c]
    BY <1>5 DEF TearDown, Inv, Shape
  <2> QED
    BY <1>1, <2>1, <2>2, JudgedKeeps
<1>6. CASE Advance
  <2>1. streak' \in [Chats -> Nat] /\ UNCHANGED <<link, relinked>>
    BY <1>2, <1>6, LinkLifecycleAssumption DEF Advance, Inv, Shape, history
  <2>2. CASE pass' = Onward(pass)
    <3>1. Shape'
      BY <1>1, <1>2, <2>1, <2>2 DEF Inv, Shape, world
    <3> QED
      BY <1>1, <2>1, <2>2, <3>1, JudgedKeeps
  <2>3. CASE pass' = [pass EXCEPT !.at = "notifying"]
    <3>1. /\ pass' \in Passes /\ pass'.at = "notifying" /\ pass'.keys = pass.keys
          /\ pass'.checks = pass.checks /\ pass'.corroborated = pass.corroborated
          /\ pass'.divided = pass.divided
      BY <2>3 DEF Inv, Shape, Passes, Stages
    <3> QED
      BY <1>1, <2>1, <3>1 DEF Inv, Shape, Stage, Linked, Truthful, InPass, world, Good
  <2> QED
    BY <1>6, <2>2, <2>3 DEF Advance
<1> QED
  BY <1>3, <1>4, <1>5, <1>6

LEMMA NotifyKeeps == Inv /\ Notify => Inv'
<1> SUFFICES ASSUME Inv, Notify PROVE Inv'
  OBVIOUS
<1>1. /\ pass' = [pass EXCEPT !.at = "unlinking"] /\ pass.at = "notifying"
      /\ UNCHANGED <<link, streak, server, standing, relinked>>
  BY DEF Notify, store, world
<1>2. /\ pass' \in Passes /\ pass'.at = "unlinking" /\ pass'.keys = pass.keys
      /\ pass'.checks = pass.checks /\ pass'.corroborated = pass.corroborated
      /\ pass'.divided = pass.divided
  BY <1>1 DEF Inv, Shape, Passes, Stages
<1> QED
  BY <1>1, <1>2 DEF Inv, Shape, Stage, Linked, Truthful, InPass, Good

(* The server fails or recovers: where that could tell two chats of a pass *)
(* different things, the pass is divided.                                  *)
LEMMA TurnKeeps ==
  ASSUME Inv, NEW s \in Servers, Turn(s)
  PROVE  Inv'
<1> DEFINE divides == "denies" \in {s, server} /\ pass.keys # <<>> /\ pass.checks # <<>>
<1>1. /\ server' = s /\ UNCHANGED <<link, streak, standing, relinked>>
      /\ pass' = IF divides THEN [pass EXCEPT !.divided = TRUE] ELSE pass
  BY DEF Turn, store, history
<1>2. pass.keys \in Partial(Keys) /\ pass.checks \in Partial(Checks)
  BY DEF Inv, Shape, Passes
<1>3. /\ pass.keys = <<>> <=> DOMAIN pass.keys = {}
      /\ pass.checks = <<>> <=> DOMAIN pass.checks = {}
  BY <1>2, NoneLeft
<1>4. /\ pass' \in Passes /\ pass'.at = pass.at /\ pass'.keys = pass.keys
      /\ pass'.checks = pass.checks /\ pass'.corroborated = pass.corroborated
      /\ pass'.divided = (pass.divided \/ divides)
  BY <1>1 DEF Inv, Shape, Passes
<1>5. Shape' /\ Stage' /\ Linked'
  BY <1>1, <1>4 DEF Inv, Shape, Stage, Linked, InPass
<1>6. Truthful'
  BY <1>1, <1>3, <1>4 DEF Inv, Truthful, Good
<1> QED
  BY <1>5, <1>6 DEF Inv

(* A subscription ends, and never comes back. *)
LEMMA MoveKeeps ==
  ASSUME Inv, NEW k \in Keys, NEW s \in Standings, Move(k, s)
  PROVE  Inv'
<1>1. /\ standing' = [standing EXCEPT ![k] = s] /\ s # "active"
      /\ UNCHANGED <<link, streak, pass, server, relinked>>
  BY DEF Move, store, history
<1>2. Shape'
  BY <1>1 DEF Inv, Shape
<1>3. \A c \in InPass : link[c] \in Keys
  <2>1. InPass \subseteq Chats
    BY PartialIs DEF InPass, Inv, Shape, Passes
  <2> QED
    BY <2>1 DEF Inv, Shape, Linked
<1>4. \A j \in Keys : standing'[j] = "active" => standing[j] = "active"
  BY <1>1 DEF Inv, Shape
<1>5. Truthful'
  BY <1>1, <1>3, <1>4 DEF Inv, Truthful, Good, InPass
<1> QED
  BY <1>1, <1>2, <1>5 DEF Inv, Stage, Linked, InPass

(* The mark of an unreachable chat is read when a pass starts, and only    *)
(* then.                                                                   *)
LEMMA MarkKeeps ==
  ASSUME NEW c \in Blockers, Mark(c) \/ Unmark(c)
  PROVE  /\ Inv => Inv'
         /\ UNCHANGED <<link, streak, pass, server, standing, relinked, told, echoes, crashes>>
<1>1. UNCHANGED <<link, streak, pass, server, standing, relinked, told, echoes, crashes>>
  BY DEF Mark, Unmark, store, history, bounds
<1> QED
  BY <1>1 DEF Inv, Shape, Stage, Linked, Truthful, InPass, Good

LEMMA InvNext == Inv /\ [Next]_vars => Inv'
<1> SUFFICES ASSUME Inv, [Next]_vars PROVE Inv'
  OBVIOUS
<1>1. ASSUME NEW c \in Chats, NEW k \in Keys, Link(c, k) PROVE Inv'
  BY <1>1, LinkKeeps
<1>2. CASE DrainStep
  BY <1>2, StartPassKeeps, ValidateKeeps, JudgingKeeps, NotifyKeeps DEF DrainStep
<1>3. CASE Crash
  <2>1. Shape'
    BY <1>3, IdleIs DEF Crash, Inv, Shape, store, world, history
  <2> QED
    BY <1>3, <2>1, NoPass DEF Crash
<1>4. CASE Tick \/ UNCHANGED vars
  <2>1. UNCHANGED <<link, streak, pass, server, standing, relinked>>
    BY <1>4 DEF Tick, vars, store, world, history
  <2> QED
    BY <2>1 DEF Inv, Shape, Stage, Linked, Truthful, InPass, Good
<1>5. ASSUME NEW s \in Servers, Turn(s) PROVE Inv'
  BY <1>5, TurnKeeps
<1>6. ASSUME NEW k \in Keys, NEW s \in Standings, Move(k, s) PROVE Inv'
  BY <1>6, MoveKeeps
<1>7. ASSUME NEW c \in Blockers, Mark(c) \/ Unmark(c) PROVE Inv'
  BY <1>7, MarkKeeps
<1> QED
  BY <1>1, <1>2, <1>3, <1>4, <1>5, <1>6, <1>7 DEF Next

(* The link of a chat that pays is not worn down by a fault of signal-MCP, *)
(* however often it fails and recovers: a streak grows on a good key only  *)
(* in a pass that the fault divided, or if the chat was linked anew        *)
(* (_apply_link_observation, KeyCheck.corroborates).                       *)
THEOREM PayingStreakIsHeld == Spec => PayingStreakHeld
<1> DEFINE Held_(c) == streak'[c] > streak[c] /\ Good(link[c]) => pass.divided
<1>1. Inv /\ [Next]_vars => [\A c \in Chats \ relinked : Held_(c)]_vars
  <2> SUFFICES ASSUME Inv, Next, NEW c \in Chats \ relinked,
                      streak'[c] > streak[c], Good(link[c]), ~pass.divided
               PROVE  FALSE
    BY DEF vars, store
  <2>1. CASE UNCHANGED streak
    BY <2>1 DEF Inv, Shape
  <2>2. CASE EndStreak \/ TearDown
    BY <2>2 DEF EndStreak, TearDown, Inv, Shape
  <2>3. CASE Advance
    <3>1. c = Now
      BY <2>3 DEF Advance, Inv, Shape
    <3>2. Now \in DOMAIN pass.checks
      BY <2>3, NowIs DEF Advance, Judging
    <3>3. pass.checks[c] = "EXHAUSTED" \/ (pass.checks[c] = "INVALID" /\ pass.corroborated)
      BY <2>3, <3>1 DEF Advance, NoEvidence, Observed, Determined, SelfCorroborating
    <3> QED
      BY <3>1, <3>2, <3>3 DEF Inv, Truthful
  <2> QED
    BY <2>1, <2>2, <2>3 DEF Next, Link, DrainStep, StartPass, Validate, Hold, Notify, Crash, Tick,
                            Turn, Move, Mark, Unmark, store
<1> QED
  BY <1>1, InvInit, InvNext, PTL DEF Spec, PayingStreakHeld

---------------------------------------------------------------------------
(* Notices *)

(* Chats that were told, and whose teardown is not what comes next: each   *)
(* was left so by a crash of its own, and may be told again once.          *)
Stranded == told \ (IF pass.at = "unlinking" THEN {Now} ELSE {})

ToldInv ==
  /\ IsFiniteSet(told)
  /\ echoes \in Nat /\ crashes \in Nat
  /\ echoes + Cardinality(Stranded) <= crashes

LEMMA ToldInvInit == Init => ToldInv
<1> SUFFICES ASSUME Init PROVE ToldInv
  OBVIOUS
<1>1. told = {} /\ Stranded = {} /\ echoes = 0 /\ crashes = 0
  BY DEF Init, Stranded
<1> QED
  BY <1>1, FS_EmptySet DEF ToldInv

LEMMA ToldInvNext == Inv /\ ToldInv /\ [Next]_vars => ToldInv'
<1> SUFFICES ASSUME Inv, ToldInv, [Next]_vars PROVE ToldInv'
  OBVIOUS
<1>1. IsFiniteSet(told) /\ IsFiniteSet(Stranded) /\ Cardinality(Stranded) \in Nat
      /\ echoes \in Nat /\ crashes \in Nat /\ echoes + Cardinality(Stranded) <= crashes
  BY FS_Subset, FS_CardinalityType DEF ToldInv, Stranded
<1>2. CASE UNCHANGED <<told, echoes, crashes>> /\ Stranded' = Stranded
  BY <1>1, <1>2 DEF ToldInv
<1>3. CASE Notify
  <2>1. /\ pass.at = "notifying" /\ UNCHANGED crashes
        /\ pass'.at = "unlinking" /\ pass'.checks = pass.checks
    BY <1>3 DEF Notify, bounds, Inv, Shape, Passes
  <2>2. Now' = Now
    BY <2>1 DEF Now, First
  <2>3. Stranded = told /\ Stranded' = told \ {Now}
    BY <1>3, <2>1, <2>2 DEF Notify, Stranded
  <2>4. IsFiniteSet(told') /\ IsFiniteSet(told \ {Now})
    BY <1>1, <1>3, FS_AddElement, FS_RemoveElement DEF Notify
  <2>5. CASE Now \in told
    <3>1. Cardinality(told \ {Now}) = Cardinality(told) - 1
      BY <1>1, <2>5, FS_RemoveElement
    <3>2. echoes' \in {echoes, echoes + 1}
      BY <1>3 DEF Notify
    <3> QED
      BY <1>1, <2>1, <2>3, <2>4, <3>1, <3>2 DEF ToldInv
  <2>6. CASE Now \notin told
    <3>1. told \ {Now} = told /\ echoes' = echoes
      BY <1>3, <2>6 DEF Notify
    <3> QED
      BY <1>1, <2>1, <2>3, <2>4, <3>1 DEF ToldInv
  <2> QED
    BY <2>5, <2>6
<1>4. CASE TearDown
  <2>1. pass.at = "unlinking" /\ pass'.at # "unlinking"
    BY <1>4, IdleIs DEF TearDown, Onward, Inv, Shape, Passes
  <2>2. told' = Stranded /\ Stranded' = Stranded /\ UNCHANGED <<echoes, crashes>>
    BY <1>4, <2>1 DEF TearDown, Stranded, bounds
  <2> QED
    BY <1>1, <2>2 DEF ToldInv
<1>5. CASE Crash
  <2>1. crashes' = crashes + 1 /\ Stranded' = told /\ UNCHANGED <<told, echoes>>
    BY <1>5, IdleIs DEF Crash, Stranded, history
  <2>2. told \subseteq Stranded \cup {Now}
    BY DEF Stranded
  <2>3. IsFiniteSet(Stranded \cup {Now}) /\ Cardinality(Stranded \cup {Now}) <= Cardinality(Stranded) + 1
    <3>1. /\ IsFiniteSet(Stranded \cup {Now})
          /\ \/ Cardinality(Stranded \cup {Now}) = Cardinality(Stranded)
             \/ Cardinality(Stranded \cup {Now}) = Cardinality(Stranded) + 1
      BY <1>1, FS_AddElement
    <3> QED
      BY <1>1, <3>1
  <2>4. Cardinality(told) \in Nat /\ Cardinality(told) <= Cardinality(Stranded) + 1
    BY <1>1, <2>2, <2>3, FS_Subset, FS_CardinalityType
  <2> QED
    BY <1>1, <2>1, <2>4 DEF ToldInv
<1>6. ASSUME NEW s \in Servers, Turn(s) PROVE ToldInv'
  <2>1. pass'.at = pass.at /\ pass'.checks = pass.checks /\ UNCHANGED <<told, echoes, crashes>>
    BY <1>6 DEF Turn, history, bounds, Inv, Shape, Passes
  <2>2. Now' = Now
    BY <2>1 DEF Now, First
  <2> QED
    BY <1>2, <2>1, <2>2 DEF Stranded
<1>7. CASE StartPass \/ Validate \/ Hold \/ EndStreak \/ Advance
  <2>1. pass.at # "unlinking" /\ pass'.at # "unlinking" /\ UNCHANGED <<told, echoes, crashes>>
    BY <1>7, IdleIs DEF StartPass, Validate, Hold, EndStreak, Advance, Judging, Onward, history, bounds,
                        Inv, Shape, Passes
  <2> QED
    BY <1>2, <2>1 DEF Stranded
<1>8. ASSUME UNCHANGED <<pass, told, echoes, crashes>> PROVE ToldInv'
  BY <1>2, <1>8 DEF Stranded, Now, First
<1>9. ASSUME \/ \E c \in Chats, k \in Keys : Link(c, k)
             \/ Tick
             \/ \E k \in Keys, s \in Standings : Move(k, s)
             \/ \E c \in Blockers : Mark(c) \/ Unmark(c)
             \/ UNCHANGED vars
      PROVE  UNCHANGED <<pass, told, echoes, crashes>>
  BY <1>9, MarkKeeps DEF Link, Tick, Move, vars, history, bounds
<1> QED
  BY <1>3, <1>4, <1>5, <1>6, <1>7, <1>8, <1>9 DEF Next, DrainStep

(* A chat is told of a downgrade once for each link it loses, and again    *)
(* only after a crash between the notice and the teardown, however many    *)
(* passes it takes (_send_downgrade_notice, unlink_subscriber).            *)
THEOREM IsToldOnce == Spec => []ToldOncePerLapse
<1>1. ToldInv => ToldOncePerLapse
  <2> SUFFICES ASSUME ToldInv PROVE echoes <= crashes
    BY DEF ToldOncePerLapse
  <2>1. Cardinality(Stranded) \in Nat
    BY FS_Subset, FS_CardinalityType DEF ToldInv, Stranded
  <2> QED
    BY <2>1 DEF ToldInv
<1> QED
  BY <1>1, InvInit, InvNext, ToldInvInit, ToldInvNext, PTL DEF Spec
=============================================================================
