--------------------------- MODULE DataDirectory ---------------------------
(***************************************************************************)
(* The data directory of the CLI, and the commands init, invite and accept *)
(* (packages/cli/src) run on it from several terminals.                    *)
(*                                                                         *)
(* A command is a process of its own; it may be killed, and a file         *)
(* operation may fail, at every step.  What the commands share is the file *)
(* system.  A path names an inode and a rename moves it; a process that    *)
(* has a file open writes to its inode, whatever it is called by then.     *)
(***************************************************************************)
EXTENDS Naturals, Sequences, FiniteSets, SequencesExt

CONSTANTS Process,      \* terminals
          Peers,        \* peer ids of others
          Codes,        \* invite codes of theirs
          PeerOf,       \* [Codes -> Peers]
          NotACode,     \* an argument without a hyphen
          MaxCommands   \* bound on the commands that are run

Parts == {"", "part"}   \* what may be left of a value that is cut off
Trust == {"verified", "tofu"}
Entry == [peer_id : Peers \cup {"part"}, trust : Trust]

ASSUME DirectoryAssumption ==
  /\ IsFiniteSet(Process)
  /\ PeerOf \in [Codes -> Peers]
  /\ NotACode \notin Codes
  /\ MaxCommands \in Nat
  /\ Parts \cap Peers = {}

Saved == {"key", "pub", "config"}   \* files written to a .tmp sibling first
File == Saved \cup {"known"}
Inode == 1 .. Cardinality(File) + Cardinality(Saved) + Cardinality(Process)
NoFile == 0

Empty == <<>>             \* a file just truncated; as known_peers.toml, no peers
Placeholder == <<"wss://rdv.example.com">>
Edited == <<"a real server">>

Idle == [at |-> "idle", name |-> "none", force |-> FALSE, code |-> NotACode,
         self |-> 0, file |-> "key", fd |-> NoFile, draft |-> <<>>]

VARIABLES
  final,     \* [File -> the inode of the path, or NoFile]
  tmp,       \* [Saved -> the inode of its .tmp sibling, or NoFile]
  disk,      \* [Inode -> content]: a key or a public key is <<its number>>
  proc,      \* [Process -> where its command is, and the command's variables]
  keys,      \* how many key pairs have been generated
  open,      \* the server: codes that can be redeemed
  left,      \* commands that may still be run
  registered,\* history: identities that a server or the user has been told
  edited,    \* history: the user has edited config.toml
  confirmed, \* history: peers whose fingerprint was shown and confirmed
  enrolled,  \* history: entries reported as added, or there from the start
  forced,    \* history: an init --force has gone past its check
  raced,     \* history: "identity", "known": two inits, two saves overlapped;
             \*   "torn": they did, and one of the two lists was cut short
  cut        \* history: "identity", "known": its last save has been cut short

files == <<final, tmp, disk>>
history == <<registered, edited, confirmed, enrolled, forced, raced, cut>>
vars == <<files, proc, keys, open, left, history>>

-----------------------------------------------------------------------------
(* The text of known_peers.toml: a section for each [[peer]], with the lines   *)
(* that decide whether it parses and what it says.                             *)

Line(key, value) == [key |-> key, value |-> value]
Section(e) ==
  <<Line("peer_id", e.peer_id), Line("trust", e.trust), Line("home_rendezvous", "url")>>
SerializeKnownPeers(peers) == [n \in DOMAIN peers |-> Section(peers[n])]

\* The parser goes through a section line by line: the last one with a key counts.
LinesOf(section, key) == {n \in DOMAIN section : section[n].key = key}
Get(section, key) == IF LinesOf(section, key) = {} THEN "" ELSE section[Max(LinesOf(section, key))].value

\* Without one of these, or with another trust, the whole text is refused.
Complete(section) ==
  /\ Get(section, "peer_id") # "" /\ Get(section, "home_rendezvous") # ""
  /\ \A n \in LinesOf(section, "trust") : section[n].value \in Trust
Parses(text) == \A n \in DOMAIN text : Complete(text[n])

EntryOf(section) ==
  [peer_id |-> Get(section, "peer_id"),
   trust |-> IF LinesOf(section, "trust") = {} THEN "tofu" ELSE Get(section, "trust")]
ParseKnownPeers(text) == [n \in DOMAIN text |-> EntryOf(text[n])]

\* What a full disk leaves of a text: its first sections, and the last of them
\* down to a line, which may end in its value.
CutShort(section) ==
  {SubSeq(section, 1, k) : k \in 0 .. Len(section)}
    \cup {Append(SubSeq(section, 1, k - 1), Line(section[k].key, v)) : k \in DOMAIN section, v \in Parts}
Cuts(text) ==
  {Empty} \cup UNION {{Append(SubSeq(text, 1, n - 1), s) : s \in CutShort(text[n])} : n \in DOMAIN text}

\* The outcomes of writing a text at the start of a file that another process
\* has written since it was truncated: a longer one keeps its tail.  If that
\* begins inside a section, its lines belong to the last section written.  (What
\* ends inside a line may also take the rest of an old one.  Only a list that was
\* cut short does, which is "torn": those mixtures are not told apart.)
From(seq, n) == SubSeq(seq, n, Len(seq))
Joined(text, lines) == Append(Front(text), Last(text) \o lines)
Overlaid(new, old) ==
  IF new = Empty THEN {old} ELSE
  {new} \cup {new \o From(old, n) : n \in 2 .. Len(old)}
    \cup UNION {{Joined(new, From(old[n], k)) \o From(old, n + 1) : k \in DOMAIN old[n]} : n \in DOMAIN old}

-----------------------------------------------------------------------------
(* The file system. *)

Linked == Range(final) \cup Range(tmp) \cup {proc[p].fd : p \in Process}
NewInode == CHOOSE i \in Inode : i \notin Linked

Exists(f) == final[f] # NoFile
Content(f) == disk[final[f]]
Whole(f) == Exists(f) /\ Content(f) # Empty

\* Init: an empty directory, or one that is set up; then known_peers.toml may
\* have an entry that the user has typed in.
Init ==
  /\ \E setUp \in BOOLEAN, typed \in {Empty} \cup {<<e>> : e \in [peer_id : Peers, trust : {"tofu"}]} :
       LET present(f) == setUp /\ (f = "known" => typed # Empty)
           inode == [key |-> 1, pub |-> 2, config |-> 3, known |-> 4] IN
       /\ setUp \/ typed = Empty
       /\ final = [f \in File |-> IF present(f) THEN inode[f] ELSE NoFile]
       /\ disk = [i \in Inode |-> CASE setUp /\ i \in {1, 2} -> <<1>>
                                    [] setUp /\ i = 3 -> Edited
                                    [] i = 4 -> SerializeKnownPeers(typed)
                                    [] OTHER -> Empty]
       /\ keys = IF setUp THEN 1 ELSE 0
       /\ registered = 1 .. keys
       /\ edited = setUp
       /\ enrolled = Range(typed)
  /\ tmp = [f \in Saved |-> NoFile]
  /\ proc = [p \in Process |-> Idle]
  /\ open = Codes
  /\ left = MaxCommands
  /\ confirmed = {} /\ forced = FALSE /\ raced = {} /\ cut = {}

-----------------------------------------------------------------------------
(* How a command proceeds and ends. *)

At(p, place) == proc[p].at = place
Running(p, name) == proc[p].name = name
Goto(p, place) == proc' = [proc EXCEPT ![p].at = place]
Exit(p) == proc' = [proc EXCEPT ![p] = Idle]
Others(p) == Process \ {p}

Initialising(p) == Running(p, "init") /\ ~At(p, "identity")
Saving(p) == proc[p].at \in {"truncate", "save"}
\* identity.key has been replaced and identity.pub has not.
BetweenTheTwo(p) == proc[p].file = "pub" /\ proc[p].at \in {"open", "write", "rename"}

Command ==
  [name : {"init"}, force : BOOLEAN, code : {NotACode}]
    \cup [name : {"invite"}, force : {FALSE}, code : {NotACode}]
    \cup [name : {"accept"}, force : {FALSE}, code : Codes \cup {NotACode}]

Start(p, c) ==
  /\ At(p, "idle") /\ left > 0
  /\ left' = left - 1
  /\ proc' = [proc EXCEPT ![p] = [Idle EXCEPT !.at = "identity", !.name = c.name,
                                              !.force = c.force, !.code = c.code]]
  /\ UNCHANGED <<files, keys, open, history>>

\* The process is killed, or a file operation rejects and it ends with exit
\* code 2.  A file it has truncated and not written stays empty.
Stop(p) ==
  /\ ~At(p, "idle")
  /\ Exit(p)
  /\ cut' = cut \cup (IF BetweenTheTwo(p) THEN {"identity"} ELSE {})
                \cup (IF At(p, "save") THEN {"known"} ELSE {})
  /\ UNCHANGED <<files, keys, open, left, registered, edited, confirmed, enrolled, forced, raced>>

\* Between commands the user puts the address of a server into config.toml.
EditConfig ==
  /\ \A p \in Process : ~Initialising(p)
  /\ Exists("config") => Content("config") # Edited
  /\ LET i == IF Exists("config") THEN final["config"] ELSE NewInode IN
       /\ final' = [final EXCEPT !["config"] = i]
       /\ disk' = [disk EXCEPT ![i] = Edited]
  /\ edited' = TRUE
  /\ UNCHANGED <<tmp, proc, keys, open, left, registered, confirmed, enrolled, forced, raced, cut>>

-----------------------------------------------------------------------------
(* init: runInit(), saveIdentity(), writeConfig(). *)

\* Exit 1: there is an identity and no --force.  Exit 2, with --force too: the
\* identity cannot be parsed.
InitRefuses(p) ==
  /\ At(p, "identity") /\ Running(p, "init")
  /\ Exists("key")
  /\ Whole("key") => ~proc[p].force
  /\ Exit(p)
  /\ UNCHANGED <<files, keys, open, left, history>>

\* Mutant: --force is not asked for.
InitGeneratesUnasked(p) ==
  /\ At(p, "identity") /\ Running(p, "init")
  /\ Exists("key") => Whole("key")
  /\ keys' = keys + 1
  /\ proc' = [proc EXCEPT ![p].at = "open", ![p].file = "key", ![p].self = keys + 1]
  /\ UNCHANGED <<files, open, left, history>>

InitGenerates(p) ==
  /\ At(p, "identity") /\ Running(p, "init")
  /\ Exists("key") => Whole("key") /\ proc[p].force
  /\ keys' = keys + 1
  /\ proc' = [proc EXCEPT ![p].at = "open", ![p].file = "key", ![p].self = keys + 1]
  /\ forced' = (forced \/ proc[p].force)
  /\ raced' = raced \cup (IF \E o \in Others(p) : Initialising(o) THEN {"identity"} ELSE {})
  /\ UNCHANGED <<files, open, left, registered, edited, confirmed, enrolled, cut>>

\* fs.writeFile() of the .tmp: open for writing, then write.
\* Mutant: the file itself is opened.
OpenInPlace(p) ==
  LET f == proc[p].file
      i == IF Exists(f) THEN final[f] ELSE NewInode IN
  /\ At(p, "open")
  /\ final' = [final EXCEPT ![f] = i]
  /\ disk' = [disk EXCEPT ![i] = Empty]
  /\ proc' = [proc EXCEPT ![p].at = "write", ![p].fd = i]
  /\ UNCHANGED <<tmp, keys, open, left, history>>

OpenTmp(p) ==
  LET f == proc[p].file
      i == IF tmp[f] = NoFile THEN NewInode ELSE tmp[f] IN
  /\ At(p, "open")
  /\ tmp' = [tmp EXCEPT ![f] = i]
  /\ disk' = [disk EXCEPT ![i] = Empty]
  /\ proc' = [proc EXCEPT ![p].at = "write", ![p].fd = i]
  /\ UNCHANGED <<final, keys, open, left, history>>

WriteTmp(p) ==
  /\ At(p, "write")
  /\ disk' = [disk EXCEPT ![proc[p].fd] =
                 IF proc[p].file = "config" THEN Placeholder ELSE <<proc[p].self>>]
  /\ proc' = [proc EXCEPT ![p].at = "rename", ![p].fd = NoFile]
  /\ UNCHANGED <<final, tmp, keys, open, left, history>>

\* Without the .tmp, renamed by another init, the rename rejects: Stop.
RenameTmp(p) ==
  LET f == proc[p].file IN
  /\ At(p, "rename")
  /\ tmp[f] # NoFile
  /\ final' = [final EXCEPT ![f] = tmp[f]]
  /\ tmp' = [tmp EXCEPT ![f] = NoFile]
  /\ CASE f = "key" -> proc' = [proc EXCEPT ![p].at = "open", ![p].file = "pub"]
       [] f = "pub" -> Goto(p, "access")
       [] f = "config" -> Exit(p)
  /\ registered' = registered \cup (IF f = "config" THEN {proc[p].self} ELSE {})
  /\ cut' = IF f = "pub" THEN cut \ {"identity"} ELSE cut
  /\ UNCHANGED <<disk, keys, open, left, edited, confirmed, enrolled, forced, raced>>

\* An existing config.toml is kept unless --force.
KeepsConfig(p) == Exists("config") /\ ~proc[p].force

InitChecksConfig(p) ==
  /\ At(p, "access")
  /\ IF KeepsConfig(p)
       THEN /\ Exit(p)
            /\ registered' = registered \cup {proc[p].self}
       ELSE /\ proc' = [proc EXCEPT ![p].at = "open", ![p].file = "config"]
            /\ UNCHANGED registered
  /\ UNCHANGED <<files, keys, open, left, edited, confirmed, enrolled, forced, raced, cut>>

-----------------------------------------------------------------------------
(* invite and accept, up to the answer of the server. *)

\* Exit 1 without an identity, exit 2 if it cannot be parsed.
NoIdentity(p) ==
  /\ At(p, "identity") /\ ~Running(p, "init")
  /\ ~Whole("key")
  /\ Exit(p)
  /\ UNCHANGED <<files, keys, open, left, history>>

LoadIdentity(p) ==
  /\ At(p, "identity") /\ ~Running(p, "init")
  /\ Whole("key")
  /\ proc' = [proc EXCEPT ![p].at = "config", ![p].self = Content("key")[1]]
  /\ UNCHANGED <<files, keys, open, left, history>>

\* loadConfig(): a file that is missing or cannot be parsed gives the defaults,
\* and their address is the placeholder.
Url == IF Whole("config") THEN Content("config") ELSE Placeholder

\* Exit 1 on the placeholder, 64 on an argument that is no code.
LoadConfig(p) ==
  /\ At(p, "config")
  /\ IF Url = Placeholder \/ (Running(p, "accept") /\ proc[p].code = NotACode)
       THEN Exit(p) ELSE Goto(p, "server")
  /\ UNCHANGED <<files, keys, open, left, history>>

\* client.connect() registers the identity; the code of an invite is fresh, so
\* the server takes it.  Exit 0 with the code, or 2 if the answer is lost;
\* without a connection the command stops before it.
InviteCreate(p) ==
  /\ At(p, "server") /\ Running(p, "invite")
  /\ registered' = registered \cup {proc[p].self}
  /\ Exit(p)
  /\ UNCHANGED <<files, keys, open, left, edited, confirmed, enrolled, forced, raced, cut>>

\* The server takes a code once.  Exit 1 if it is unknown or used, and if the
\* answer is lost, answered = FALSE.
InviteRedeem(p, answered) ==
  LET c == proc[p].code IN
  /\ At(p, "server") /\ Running(p, "accept")
  /\ registered' = registered \cup {proc[p].self}
  /\ open' = open \ {c}
  /\ IF answered /\ c \in open THEN Goto(p, "confirm") ELSE Exit(p)
  /\ UNCHANGED <<files, keys, left, edited, confirmed, enrolled, forced, raced, cut>>

-----------------------------------------------------------------------------
(* accept: the prompts and known_peers.toml. *)

Peer(p) == PeerOf[proc[p].code]

Decline(p) ==
  /\ At(p, "confirm")
  /\ Exit(p)
  /\ UNCHANGED <<files, keys, open, left, history>>

Confirm(p) ==
  /\ At(p, "confirm")
  /\ confirmed' = confirmed \cup {Peer(p)}
  /\ Goto(p, "alias")
  /\ UNCHANGED <<files, keys, open, left, registered, edited, enrolled, forced, raced, cut>>

KnownText == IF Exists("known") THEN Content("known") ELSE Empty
KnownPeers == ParseKnownPeers(KnownText)
Find(peers, id) == {n \in DOMAIN peers : peers[n].peer_id = id}

\* addPeerFromInvite(), verifyPeerTrust().  Mutants: the list is not copied;
\* the peer is not looked up.
AddPeerAlone(peers, id) ==
  IF Find(peers, id) # {} THEN peers ELSE <<[peer_id |-> id, trust |-> "tofu"]>>
VerifyAll(peers, id) == [n \in DOMAIN peers |-> [peers[n] EXCEPT !.trust = "verified"]]
AddPeerFromInvite(peers, id) ==
  IF Find(peers, id) # {} THEN peers ELSE Append(peers, [peer_id |-> id, trust |-> "tofu"])
VerifyPeerTrust(peers, id) ==
  [n \in DOMAIN peers |-> IF peers[n].peer_id = id THEN [peers[n] EXCEPT !.trust = "verified"]
                                                  ELSE peers[n]]

\* The alias has been entered; what follows does not await, but other
\* processes run.  Exit 2 if the file does not parse, 1 if it has the peer.
LoadKnownPeers(p) ==
  /\ At(p, "alias")
  /\ IF ~Parses(KnownText) \/ Find(KnownPeers, Peer(p)) # {}
       THEN Exit(p) /\ UNCHANGED raced
       ELSE /\ proc' = [proc EXCEPT ![p].at = "truncate",
                          ![p].draft = VerifyPeerTrust(AddPeerFromInvite(KnownPeers, Peer(p)), Peer(p))]
            /\ raced' = raced \cup (IF \E o \in Others(p) : Saving(o) THEN {"known"} ELSE {})
  /\ UNCHANGED <<files, keys, open, left, registered, edited, confirmed, enrolled, forced, cut>>

\* writeFileSync() of known_peers.toml itself: open with truncation, write.
OpenKnownPeers(p) ==
  LET i == IF Exists("known") THEN final["known"] ELSE NewInode IN
  /\ At(p, "truncate")
  /\ final' = [final EXCEPT !["known"] = i]
  /\ disk' = [disk EXCEPT ![i] = Empty]
  /\ proc' = [proc EXCEPT ![p].at = "save", ![p].fd = i]
  /\ UNCHANGED <<tmp, keys, open, left, history>>

\* A list that was cut short does not end where an entry does.
WriteKnownPeers(p) ==
  LET i == proc[p].fd IN
  /\ At(p, "save")
  /\ \E text \in Overlaid(SerializeKnownPeers(proc[p].draft), disk[i]) :
       disk' = [disk EXCEPT ![i] = text]
  /\ enrolled' = enrolled \cup {[peer_id |-> Peer(p), trust |-> "verified"]}
  /\ raced' = raced \cup (IF Parses(disk[i]) THEN {} ELSE {"torn"})
  /\ Exit(p)
  /\ UNCHANGED <<final, tmp, keys, open, left, registered, edited, confirmed, forced, cut>>

\* No space is left: part of the list is written, and the command exits with 2.
WriteFails(p) ==
  LET i == proc[p].fd IN
  /\ At(p, "save")
  /\ \E part \in Cuts(SerializeKnownPeers(proc[p].draft)) :
       \E text \in Overlaid(part, disk[i]) : disk' = [disk EXCEPT ![i] = text]
  /\ cut' = cut \cup {"known"}
  /\ raced' = raced \cup (IF disk[i] = Empty THEN {} ELSE {"torn"})
  /\ Exit(p)
  /\ UNCHANGED <<final, tmp, keys, open, left, registered, edited, confirmed, enrolled, forced>>

-----------------------------------------------------------------------------
Step(p) ==
  \/ \E c \in Command : Start(p, c)
  \/ Stop(p)
  \/ InitRefuses(p) \/ InitGenerates(p)
  \/ OpenTmp(p) \/ WriteTmp(p) \/ RenameTmp(p) \/ InitChecksConfig(p)
  \/ NoIdentity(p) \/ LoadIdentity(p) \/ LoadConfig(p)
  \/ InviteCreate(p) \/ \E answered \in BOOLEAN : InviteRedeem(p, answered)
  \/ Decline(p) \/ Confirm(p)
  \/ LoadKnownPeers(p) \/ OpenKnownPeers(p) \/ WriteKnownPeers(p) \/ WriteFails(p)

Next == EditConfig \/ \E p \in Process : Step(p)

Spec == Init /\ [][Next]_vars

-----------------------------------------------------------------------------
(* Properties. *)

\* identity.key never holds less than a key pair, whatever was killed and
\* whenever: the .tmp and its rename (identity-storage.ts:52).  identity.pub
\* belongs to it unless an init is, or was stopped, between the two.  Two inits at once share
\* the names of their .tmp files, and then neither is sure.
IdentityIsWhole ==
  "identity" \notin raced =>
    /\ Exists("key") => Whole("key")
    /\ Exists("key") /\ "identity" \notin cut /\ (\A p \in Process : ~BetweenTheTwo(p))
         => Whole("pub") /\ Content("pub") = Content("key")

\* Who has been told an identity, a server or the user, will find it in the
\* directory, and the user's address stays in config.toml: no command but
\* init --force replaces them, even if earlier ones were killed half way.
NothingIsReplacedUnforced ==
  ~forced /\ "identity" \notin raced =>
    /\ \A k \in registered : Whole("key") /\ Content("key") = <<k>>
    /\ edited => Content("config") = Edited

\* A peer is "verified" in known_peers.toml only if its fingerprint was shown
\* and confirmed (manual-fingerprint-confirmation-on-accept.md): when two saves
\* overlap, and when one is cut short.  Not when both happen to the same list:
\* what is left of an entry that was cut off takes the trust of another.
TrustIsEarned ==
  "torn" \notin raced /\ Parses(KnownText) =>
    \A n \in DOMAIN KnownPeers : KnownPeers[n].trust = "verified" => KnownPeers[n].peer_id \in confirmed

\* A peer that was reported as added stays in known_peers.toml with its trust,
\* through every later accept, unless saves overlapped or were cut short: the
\* list is read, changed and written without a lock or a .tmp (accept.ts:200-217).
KnownPeersStay ==
  "known" \notin raced \cup cut /\ (\A p \in Process : ~At(p, "save")) =>
    Parses(KnownText) /\ enrolled \subseteq Range(KnownPeers)

=============================================================================
