---------------------------- MODULE DaveController ----------------------------
(* The default DAVE controller of a voice connection                          *)
(* (voice_dave_controller_libdave.go with dave/*.go).  It holds the MLS       *)
(* session of the call, one key ratchet per user, the encryptor of the        *)
(* outgoing audio and one decryptor per SSRC.  Three goroutines call it       *)
(* through withDAVEController: the websocket's reader, opusSender and         *)
(* opusReceiver; VoiceConnection.Close detaches it and closes it.             *)
(*                                                                            *)
(* A step is a critical section of c.mu or one call of a libdave handle: a    *)
(* call of the controller is a sequence of them, and other calls come in      *)
(* between.  A ratchet is a handle that is destroyed explicitly; encryptors   *)
(* and decryptors keep a bare reference to the one they were given.           *)
(*                                                                            *)
(* Left out: passthrough mode, the users a proposal is checked against, the   *)
(* messages sent back, and what libdave does with a frame; the second sender  *)
(* and receiver a controller has while those of the connection before it have *)
(* not yet seen their channels closed.                                        *)
EXTENDS Integers, FiniteSets

CONSTANTS Me,           \* the user of the voice connection
          Others,       \* the other users of the call
          Ssrcs,        \* the SSRCs the others send on
          None,         \* no user
          MaxEpoch,     \* bound: MLS epochs of a session
          MaxHandles    \* bound: ratchets of a user referenced at a time

Users == {Me} \cup Others

ASSUME DaveAssumption ==
  /\ None \notin Users /\ Me \notin Others
  /\ MaxEpoch \in Nat /\ MaxHandles \in Nat

Reader == "wsListen"
Sender == "opusSender"
Receiver == "opusReceiver"
Goroutines == {Reader, Sender, Receiver}

Sessions == 1..2        \* of a controller: the second one only after Close

\* A ratchet: a handle that derives the keys of a user.
Handles == [user : Users, n : 1..MaxHandles]
NoRatchet == [user |-> None, n |-> 0]    \* nil; an encryptor or decryptor without a key
NoDecryptor == [user |-> None, n |-> 1]

VARIABLES
  attached,     \* v.daveController is this controller
  closed,       \* Close of the controller has run
  proto,        \* c.protocolVersion
  session,      \* c.session; 0: nil
  live,         \* the sessions created and not destroyed
  epoch,        \* the epoch of each session's group; 0: no group yet
  members,      \* the users in each session's group
  ratchets,     \* c.ratchets
  of,           \* the ratchets that are not destroyed, and the epoch each derives keys for
  encryptor,    \* c.encryptor exists
  encKey,       \* the ratchet the encryptor references
  outboundSet,  \* c.outboundRatchetSet
  ssrcUsers,    \* c.ssrcUsers
  decryptors,   \* c.decryptors: the ratchet each decryptor references
  call,         \* the call each goroutine is in
  late,         \* the goroutines that took the pointer before Close did, and whose
                \* call has made no step yet
  settled       \* history: no two calls that change keys overlapped since an epoch
                \* that renewed them all

controller == <<proto, session, ratchets, encryptor, outboundSet, ssrcUsers, decryptors>>
libdave == <<live, epoch, members, of, encKey>>
connection == <<attached, closed>>
vars == <<controller, libdave, connection, call, late, settled>>

-------------------------------------------------------------------------------
(* Calls.  pc is the next step; `then` is the step after a ratchet is         *)
(* obtained and installed.                                                    *)

Idle == [pc |-> "Idle", then |-> "Idle", user |-> None, ssrc |-> 0, session |-> 0,
         ratchet |-> NoRatchet, want |-> {}, version |-> 1]

Quiet == late = {} /\ \A g \in Goroutines : call[g] = Idle

\* The first step of a call: withDAVEController has read the pointer, and goes
\* on with it even if Close has taken it away meanwhile.
Enter(g) ==
  /\ call[g] = Idle
  /\ attached \/ g \in late
  /\ late' = late \ {g}

At(g, pc) == call[g].pc = pc /\ UNCHANGED late
GoTo(g, c) == call' = [call EXCEPT ![g] = c]
Continue(g, pc) == GoTo(g, [call[g] EXCEPT !.pc = pc])
Return(g) == GoTo(g, Idle)

Refreshing(s, users) == [Idle EXCEPT !.pc = "Refresh", !.session = s, !.want = users]

Open == DOMAIN of
Destroyed(hs) == [h \in Open \ hs |-> of[h]]

\* The handles something still refers to; a new ratchet has the first other one.
Referenced ==
  Open \cup {encKey} \cup {decryptors[x] : x \in Ssrcs} \cup {call[g].ratchet : g \in Goroutines}

Fresh(h, u) ==
  /\ h \in Handles \ Referenced /\ h.user = u
  /\ \A k \in Handles \ Referenced : k.user = u => h.n <= k.n

-------------------------------------------------------------------------------
(* The MLS handlers of the reader.                                            *)

\* A version of 0 is replaced by 1, the only other version there is.
HaveSession ==
  /\ IF session = 0
       THEN \E s \in Sessions :
              /\ s = IF closed THEN 2 ELSE 1
              /\ session' = s
              /\ live' = live \cup {s}
       ELSE UNCHANGED <<session, live>>
  /\ proto' = 1

\* No session without a group: the channel id is not a number.
NoGroup == session = 0 /\ UNCHANGED <<session, live, proto>>

\* The handler goes on to c, or returns with the error.
EnsureSession(c) ==
  /\ Enter(Reader)
  /\ \/ HaveSession /\ GoTo(Reader, c)
     \/ NoGroup /\ Return(Reader)
  /\ UNCHANGED <<ratchets, encryptor, outboundSet, ssrcUsers, decryptors,
                 epoch, members, of, encKey, connection>>

PrepareTransition ==
  \E v \in 0..1 : EnsureSession([Idle EXCEPT !.pc = "SetVersion", !.version = v])

\* PrepareEpoch, HandleMLSExternalSender and HandleMLSProposals: beyond
\* ensureSession they only read.
Negotiate == EnsureSession(Idle)

HandleMLSCommitTransition == EnsureSession([Idle EXCEPT !.pc = "Commit"])
HandleMLSWelcome == EnsureSession([Idle EXCEPT !.pc = "Welcome"])

SetVersion ==
  /\ At(Reader, "SetVersion")
  /\ proto' = call[Reader].version
  /\ Return(Reader)
  /\ UNCHANGED <<session, ratchets, encryptor, outboundSet, ssrcUsers, decryptors,
                 libdave, connection>>

\* libdave rejects the message, or the session is gone: the handler gives up.
Reject ==
  /\ At(Reader, "Commit") \/ At(Reader, "Welcome")
  /\ Return(Reader)
  /\ UNCHANGED <<controller, libdave, connection>>

IgnoreCommit ==
  /\ At(Reader, "Commit") /\ session # 0
  /\ GoTo(Reader, [Idle EXCEPT !.pc = "Outbound"])
  /\ UNCHANGED <<controller, libdave, connection>>

\* The group enters its next epoch, with the users of the roster in it.
\* refreshRatchets wants a ratchet for each of them and for each known speaker.
Process ==
  /\ At(Reader, "Commit") \/ At(Reader, "Welcome")
  /\ session # 0 /\ epoch[session] < MaxEpoch
  /\ \E roster \in SUBSET Users :
       /\ Me \in roster
       /\ epoch' = [epoch EXCEPT ![session] = @ + 1]
       /\ members' = [members EXCEPT ![session] = roster]
       /\ GoTo(Reader, Refreshing(session, (roster \cup {ssrcUsers[x] : x \in Ssrcs}) \ {None}))
  /\ UNCHANGED <<controller, live, of, encKey, connection>>

\* refreshRatchets' loop, in the order of a map.
Refresh ==
  /\ At(Reader, "Refresh")
  /\ \E u \in call[Reader].want :
       GoTo(Reader, [call[Reader] EXCEPT !.pc = "GetKeyRatchet", !.then = "Refresh",
                                         !.user = u, !.want = @ \ {u}])
  /\ UNCHANGED <<controller, libdave, connection>>

Refreshed ==
  /\ At(Reader, "Refresh") /\ call[Reader].want = {}
  /\ GoTo(Reader, [Idle EXCEPT !.pc = "Outbound"])
  /\ UNCHANGED <<controller, libdave, connection>>

EnsureOutboundRatchet ==
  /\ At(Reader, "Outbound")
  /\ IF ratchets[Me] # NoRatchet \/ session = 0
       THEN Return(Reader)
       ELSE GoTo(Reader, [Idle EXCEPT !.pc = "GetKeyRatchet", !.user = Me, !.session = session])
  /\ UNCHANGED <<controller, libdave, connection>>

-------------------------------------------------------------------------------
(* Obtaining and installing a ratchet, by any of the goroutines.              *)

\* Session.GetKeyRatchet: nil when the session is destroyed or the user is not
\* in its group.  The caller owns the new handle.
GetKeyRatchet(g) ==
  LET c == call[g] IN
  /\ At(g, "GetKeyRatchet")
  /\ IF c.session \in live /\ c.user \in members[c.session]
       THEN \E h \in Handles :
              /\ Fresh(h, c.user)
              /\ of' = [k \in Open \cup {h} |->
                    IF k = h THEN epoch[c.session] ELSE of[k]]
              /\ GoTo(g, [c EXCEPT !.pc = "InstallRatchet", !.ratchet = h])
       ELSE /\ IF c.then = "Refresh" THEN GoTo(g, Refreshing(c.session, c.want)) ELSE Return(g)
            /\ UNCHANGED of
  /\ UNCHANGED <<controller, live, epoch, members, encKey, connection>>

\* Mutant: the new ratchet is not announced to the sender.
InstallRatchetSilently(g) ==
  LET c == call[g] IN
  /\ At(g, "InstallRatchet")
  /\ of' = Destroyed({ratchets[c.user]})
  /\ ratchets' = [ratchets EXCEPT ![c.user] = c.ratchet]
  /\ decryptors' = [x \in Ssrcs |->
       IF ssrcUsers[x] = c.user /\ decryptors[x] # NoDecryptor THEN c.ratchet ELSE decryptors[x]]
  /\ CASE c.then = "Idle"    -> Return(g)
       [] c.then = "Refresh" -> GoTo(g, Refreshing(c.session, c.want))
       [] OTHER              -> GoTo(g, [c EXCEPT !.pc = c.then, !.then = "Idle", !.user = None, !.session = 0])
  /\ UNCHANGED <<proto, session, encryptor, outboundSet, ssrcUsers, live, epoch, members, encKey, connection>>

\* The user's decryptors follow; the encryptor follows at the next frame sent.
InstallRatchet(g) ==
  LET c == call[g] IN
  /\ At(g, "InstallRatchet")
  /\ of' = Destroyed({ratchets[c.user]})
  /\ ratchets' = [ratchets EXCEPT ![c.user] = c.ratchet]
  /\ outboundSet' = (outboundSet /\ c.user # Me)
  /\ decryptors' = [x \in Ssrcs |->
       IF ssrcUsers[x] = c.user /\ decryptors[x] # NoDecryptor THEN c.ratchet ELSE decryptors[x]]
  /\ CASE c.then = "Idle"    -> Return(g)
       [] c.then = "Refresh" -> GoTo(g, Refreshing(c.session, c.want))
       [] OTHER              -> GoTo(g, [c EXCEPT !.pc = c.then, !.then = "Idle", !.user = None, !.session = 0])
  /\ UNCHANGED <<proto, session, encryptor, ssrcUsers, live, epoch, members, encKey, connection>>

-------------------------------------------------------------------------------
(* Users and their SSRCs.                                                     *)

\* Mutant: the ratchet is forgotten and not closed.
ClientDisconnectedKeepsRatchet == \E u \in Others :
  LET left == {x \in Ssrcs : ssrcUsers[x] = u} IN
  /\ Enter(Reader)
  /\ ratchets' = [ratchets EXCEPT ![u] = NoRatchet]
  /\ decryptors' = [x \in Ssrcs |-> IF x \in left THEN NoDecryptor ELSE decryptors[x]]
  /\ ssrcUsers' = [x \in Ssrcs |-> IF x \in left THEN None ELSE ssrcUsers[x]]
  /\ UNCHANGED <<proto, session, encryptor, outboundSet, libdave, connection, call>>

ClientDisconnected == \E u \in Others :
  LET left == {x \in Ssrcs : ssrcUsers[x] = u} IN
  /\ Enter(Reader)
  /\ of' = Destroyed({ratchets[u]})
  /\ ratchets' = [ratchets EXCEPT ![u] = NoRatchet]
  /\ decryptors' = [x \in Ssrcs |-> IF x \in left THEN NoDecryptor ELSE decryptors[x]]
  /\ ssrcUsers' = [x \in Ssrcs |-> IF x \in left THEN None ELSE ssrcUsers[x]]
  /\ UNCHANGED <<proto, session, encryptor, outboundSet, live, epoch, members, encKey, connection, call>>

\* Where a call goes that needs a decryptor for a user.
ToDecryptor(g, u, x) ==
  IF ratchets[u] = NoRatchet
    THEN GoTo(g, [Idle EXCEPT !.pc = "GetKeyRatchet", !.then = "NewDecryptor",
                              !.user = u, !.ssrc = x, !.session = session])
    ELSE GoTo(g, [Idle EXCEPT !.pc = "NewDecryptor", !.ssrc = x, !.ratchet = ratchets[u]])

\* The server gives an SSRC to another user only after the first one left.
HandleSpeakingUpdate == \E u \in Others, x \in Ssrcs :
  /\ Enter(Reader)
  /\ ssrcUsers[x] \in {u, None}
  /\ ssrcUsers' = [ssrcUsers EXCEPT ![x] = u]
  /\ IF decryptors[x] # NoDecryptor \/ session = 0
       THEN UNCHANGED call
       ELSE ToDecryptor(Reader, u, x)
  /\ UNCHANGED <<proto, session, ratchets, encryptor, outboundSet, decryptors, libdave, connection>>

\* A ratchet that was closed since it was read gives the decryptor no key.
NewDecryptor(g) ==
  /\ At(g, "NewDecryptor")
  /\ GoTo(g, [call[g] EXCEPT !.pc = "StoreDecryptor",
                             !.ratchet = IF @ \in Open THEN @ ELSE NoRatchet])
  /\ UNCHANGED <<controller, libdave, connection>>

\* HandleSpeakingUpdate stores its decryptor if there is none; DecryptOpus always.
StoreDecryptor(g) ==
  LET x == call[g].ssrc IN
  /\ At(g, "StoreDecryptor")
  /\ decryptors' = IF g = Receiver \/ decryptors[x] = NoDecryptor
                     THEN [decryptors EXCEPT ![x] = call[g].ratchet]
                     ELSE decryptors
  /\ Return(g)
  /\ UNCHANGED <<proto, session, ratchets, encryptor, outboundSet, ssrcUsers, libdave, connection>>

-------------------------------------------------------------------------------
(* Frames.                                                                    *)

\* Decrypting changes nothing but the counters of the decryptor.
DecryptOpus == \E x \in Ssrcs :
  /\ Enter(Receiver)
  /\ IF proto = 0 \/ decryptors[x] # NoDecryptor \/ session = 0 \/ ssrcUsers[x] = None
       THEN UNCHANGED call
       ELSE ToDecryptor(Receiver, ssrcUsers[x], x)
  /\ UNCHANGED <<controller, libdave, connection>>

EncryptOpus ==
  LET after == IF encryptor THEN "Flag" ELSE "NewEncryptor" IN
  /\ Enter(Sender)
  /\ CASE proto = 0 -> UNCHANGED call
       [] proto # 0 /\ ratchets[Me] # NoRatchet ->
            GoTo(Sender, [Idle EXCEPT !.pc = after, !.ratchet = ratchets[Me]])
       [] OTHER -> IF session = 0
                     THEN UNCHANGED call
                     ELSE GoTo(Sender, [Idle EXCEPT !.pc = "GetKeyRatchet", !.then = after,
                                                    !.user = Me, !.session = session])
  /\ UNCHANGED <<controller, libdave, connection>>

NewEncryptor ==
  /\ At(Sender, "NewEncryptor")
  /\ encryptor' = TRUE
  /\ Continue(Sender, "Flag")
  /\ UNCHANGED <<proto, session, ratchets, outboundSet, ssrcUsers, decryptors, libdave, connection>>

\* The flag is set before the ratchet is.
FlagOutbound ==
  /\ At(Sender, "Flag")
  /\ outboundSet' = TRUE
  /\ IF outboundSet
       THEN GoTo(Sender, [Idle EXCEPT !.pc = "Encrypt"])
       ELSE Continue(Sender, "SetKeyRatchet")
  /\ UNCHANGED <<proto, session, ratchets, encryptor, ssrcUsers, decryptors, libdave, connection>>

\* The encryptor of a controller closed meanwhile ignores the ratchet.
SetKeyRatchet ==
  /\ At(Sender, "SetKeyRatchet")
  /\ encKey' = IF encryptor /\ call[Sender].ratchet \in Open THEN call[Sender].ratchet ELSE NoRatchet
  /\ GoTo(Sender, [Idle EXCEPT !.pc = "Encrypt"])
  /\ UNCHANGED <<controller, live, epoch, members, of, connection>>

\* Only now is the encryptor's ratchet used.
Encrypt ==
  /\ At(Sender, "Encrypt")
  /\ Return(Sender)
  /\ UNCHANGED <<controller, libdave, connection>>

-------------------------------------------------------------------------------
(* VoiceConnection.Close: the pointer first, the controller last.             *)

Detach ==
  /\ attached
  /\ attached' = FALSE
  /\ \E entered \in SUBSET {g \in Goroutines : call[g] = Idle} : late' = entered
  /\ UNCHANGED <<controller, libdave, closed, call>>

\* Mutant: the session is destroyed and stays in c.session.
CloseKeepsPointer ==
  /\ ~attached /\ ~closed
  /\ closed' = TRUE
  /\ decryptors' = [x \in Ssrcs |-> NoDecryptor]
  /\ of' = Destroyed({ratchets[u] : u \in Users})
  /\ ratchets' = [u \in Users |-> NoRatchet]
  /\ live' = live \ {session}
  /\ encryptor' = FALSE /\ encKey' = NoRatchet
  /\ UNCHANGED <<attached, proto, session, outboundSet, ssrcUsers, epoch, members, call, late>>

\* Mutant: the ratchets are left to the finalizers.
CloseKeepsRatchets ==
  /\ ~attached /\ ~closed
  /\ closed' = TRUE
  /\ decryptors' = [x \in Ssrcs |-> NoDecryptor]
  /\ session' = 0
  /\ live' = live \ {session}
  /\ encryptor' = FALSE /\ encKey' = NoRatchet
  /\ UNCHANGED <<attached, proto, ratchets, of, outboundSet, ssrcUsers, epoch, members, call, late>>

Close ==
  /\ ~attached /\ ~closed
  /\ closed' = TRUE
  /\ decryptors' = [x \in Ssrcs |-> NoDecryptor]
  /\ of' = Destroyed({ratchets[u] : u \in Users})
  /\ ratchets' = [u \in Users |-> NoRatchet]
  /\ session' = 0
  /\ live' = live \ {session}
  /\ encryptor' = FALSE /\ encKey' = NoRatchet
  /\ UNCHANGED <<attached, proto, outboundSet, ssrcUsers, epoch, members, call, late>>

-------------------------------------------------------------------------------

Init ==
  /\ attached = TRUE /\ closed = FALSE
  /\ proto = 0 /\ session = 0
  /\ live = {}
  /\ epoch = [s \in Sessions |-> 0]
  /\ members = [s \in Sessions |-> {}]
  /\ ratchets = [u \in Users |-> NoRatchet]
  /\ of = <<>>
  /\ encryptor = FALSE /\ encKey = NoRatchet /\ outboundSet = FALSE
  /\ ssrcUsers = [x \in Ssrcs |-> None]
  /\ decryptors = [x \in Ssrcs |-> NoDecryptor]
  /\ call = [g \in Goroutines |-> Idle]
  /\ late = {}
  /\ settled = TRUE

Messages ==
  \/ PrepareTransition \/ SetVersion \/ Negotiate
  \/ HandleMLSCommitTransition \/ HandleMLSWelcome \/ Reject \/ IgnoreCommit \/ Process
  \/ Refresh \/ Refreshed \/ EnsureOutboundRatchet
  \/ ClientDisconnected \/ HandleSpeakingUpdate

Frames ==
  \/ DecryptOpus
  \/ EncryptOpus \/ NewEncryptor \/ FlagOutbound \/ SetKeyRatchet \/ Encrypt

Ratchets == \E g \in Goroutines :
  GetKeyRatchet(g) \/ InstallRatchet(g) \/ NewDecryptor(g) \/ StoreDecryptor(g)

\* Calls that change keys: the reader's from the group's new epoch, or from a
\* speaker's new ratchet, on; the sender's and the receiver's all but the last step.
Changing(g) == call[g].pc \notin {"Idle", "SetVersion", "Commit", "Welcome", "Encrypt"}

\* A client that leaves is forgotten in one step, which has no state of its own.
Forgets == \E u \in Others : ratchets[u] # NoRatchet /\ ratchets'[u] = NoRatchet

Overlap ==
  /\ (Changing(Sender) \/ Changing(Receiver))'
  /\ Changing(Reader)' \/ ssrcUsers' # ssrcUsers \/ Forgets

\* A new epoch in which every decryptor's user is a member renews every key in use.
Renewing ==
  /\ epoch' # epoch
  /\ \A x \in Ssrcs : decryptors[x] # NoDecryptor => ssrcUsers[x] \in members'[session]

Watch == settled' = ((settled \/ Renewing) /\ ~Overlap)

Next == (Messages \/ Frames \/ Ratchets \/ Detach \/ Close) /\ Watch

Spec == Init /\ [][Next]_vars

-------------------------------------------------------------------------------
(* Properties.                                                                *)

\* The state has its type; c.session is never a destroyed session.
TypeOK ==
  /\ late \subseteq Goroutines
  /\ {attached, closed, encryptor, outboundSet, settled} \subseteq BOOLEAN
  /\ proto \in 0..1
  /\ live \subseteq Sessions /\ session \in live \cup {0}
  /\ epoch \in [Sessions -> 0..MaxEpoch]
  /\ members \in [Sessions -> SUBSET Users]
  /\ ratchets \in [Users -> Handles \cup {NoRatchet}]
  /\ Open \subseteq Handles /\ of \in [Open -> 1..MaxEpoch]
  /\ encKey \in Handles \cup {NoRatchet}
  /\ ssrcUsers \in [Ssrcs -> Others \cup {None}]
  /\ decryptors \in [Ssrcs -> Handles \cup {NoRatchet, NoDecryptor}]

Held == {call[g].ratchet : g \in Goroutines}

\* No ratchet is lost and none is kept destroyed: whatever the interleaving of
\* the three goroutines and Close, the map holds only live ratchets, each for
\* its user, and a live ratchet is in the map or in the hands of a call.
HandlesKept ==
  /\ \A u \in Users : ratchets[u] # NoRatchet => ratchets[u] \in Open /\ ratchets[u].user = u
  /\ Open \subseteq {ratchets[u] : u \in Users} \cup Held

\* Between calls, unless calls overlapped since the last epoch, the keys in use
\* are the group's: every member's ratchet is of the current epoch, the encryptor
\* marked as set uses our ratchet, and each decryptor its user's.
Current ==
  settled /\ Quiet /\ ~closed =>
    /\ session # 0 => \A u \in members[session] :
         ratchets[u] # NoRatchet => of[ratchets[u]] = epoch[session]
    /\ (session # 0 /\ members[session] # {}) => ratchets[Me] # NoRatchet
    /\ outboundSet => encryptor /\ encKey = ratchets[Me]
    /\ \A x \in Ssrcs : decryptors[x] # NoDecryptor =>
         ssrcUsers[x] # None /\ decryptors[x] = ratchets[ssrcUsers[x]]

\* Close releases everything: what is still live after it is a ratchet that a
\* call under way has obtained and not yet installed.
CloseReleases ==
  [][closed' # closed => live' = {} /\ Open' \subseteq Held]_vars

\* dave/keyratchet.go says of the ratchet a Decryptor or an Encryptor was given:
\* "we must keep it alive until the consuming Decryptor/Encryptor is done with
\* it".  Violated: installRatchet destroys the old ratchet while a frame that
\* found the outbound ratchet set is about to be encrypted with it.
KeptAlive ==
  call[Sender].pc = "Encrypt" => encKey \in Open \cup {NoRatchet}

===============================================================================
