------------------------- MODULE DataDirectoryProofs -------------------------
(***************************************************************************)
(* Theorems about the data directory, for every number of terminals, every *)
(* set of peers and codes and every number of commands.                    *)
(***************************************************************************)
EXTENDS DataDirectory, FiniteSetTheorems, SequenceTheorems, WellFoundedInduction, TLAPS

-----------------------------------------------------------------------------
(* The inductive invariant.                                                *)

Place == {"idle", "identity", "open", "write", "rename", "access", "config",
          "server", "confirm", "alias", "truncate", "save"}
Kind == {"identity", "known"}

Terminal ==
  [at : Place, name : {"none", "init", "invite", "accept"}, force : BOOLEAN,
   code : Codes \cup {NotACode}, self : Nat, file : Saved, fd : Inode \cup {NoFile},
   draft : Seq(Entry)]

\* What an inode holds depends on the file: see KeyTexts, TrustInv, IdentityInv.
TypeOK ==
  /\ final \in [File -> Inode \cup {NoFile}]
  /\ tmp \in [Saved -> Inode \cup {NoFile}]
  /\ disk = [i \in Inode |-> disk[i]]
  /\ proc \in [Process -> Terminal]
  /\ keys \in Nat /\ left \in Nat
  /\ open \subseteq Codes
  /\ registered \subseteq Nat /\ confirmed \subseteq Peers /\ enrolled \subseteq Entry
  /\ edited \in BOOLEAN /\ forced \in BOOLEAN
  /\ raced \subseteq Kind \cup {"torn"} /\ cut \subseteq Kind

\* The key file and its .tmp are empty or have a key, however many inits run.
KeyTexts ==
  /\ Exists("key") => Content("key") \in Seq(Nat)
  /\ tmp["key"] # NoFile => disk[tmp["key"]] \in Seq(Nat)

\* A command is where its name and its arguments can have brought it.
Phases ==
  \A p \in Process :
    /\ At(p, "idle") => Running(p, "none")
    /\ At(p, "identity") => ~Running(p, "none")
    /\ proc[p].at \in {"open", "write", "rename", "access"} => Running(p, "init")
    /\ proc[p].at \in {"config", "server"} => proc[p].name \in {"invite", "accept"}
    /\ At(p, "server") /\ Running(p, "accept") => proc[p].code \in Codes
    /\ proc[p].at \in {"confirm", "alias", "truncate", "save"} =>
         Running(p, "accept") /\ proc[p].code \in Codes

\* No inode is reached under two names, and a file that is open for writing is
\* not another file of the directory.
NoAlias ==
  /\ \A f, g \in File : f # g /\ Exists(f) => final[f] # final[g]
  /\ \A f \in Saved, g \in File : tmp[f] # NoFile => tmp[f] # final[g]
  /\ \A f, g \in Saved : f # g /\ tmp[f] # NoFile => tmp[f] # tmp[g]
  /\ \A p \in Process : At(p, "write") =>
       /\ proc[p].fd # NoFile
       /\ \A g \in File \ {proc[p].file} : proc[p].fd # final[g]
       /\ \A g \in Saved \ {proc[p].file} : proc[p].fd # tmp[g]
  /\ \A p \in Process : At(p, "save") => Exists("known") /\ proc[p].fd = final["known"]

\* A list of peers whose verified ones are among those given.
Earned(peers, by) ==
  /\ peers \in Seq(Entry)
  /\ \A n \in DOMAIN peers : peers[n].trust = "verified" => peers[n].peer_id \in by

\* The lines of known_peers.toml, and the text in sections.
Lines ==
  [key : {"peer_id"}, value : Peers \cup Parts]
    \cup [key : {"trust"}, value : Trust \cup Parts]
    \cup [key : {"home_rendezvous"}, value : {"url"} \cup Parts]
Texts == Seq(Seq(Lines))

\* In a section, the trust that counts stands after the peer_id that counts, and
\* if it is "verified", this peer has been confirmed.  The lines from any one on
\* may then be appended to such a section of a confirmed peer: the trust comes
\* with its own peer_id, or takes the section's.
LastWith(section, key, n) == n \in LinesOf(section, key) /\ \A k \in LinesOf(section, key) : k <= n
Sound(section, by) ==
  \E m, n \in DOMAIN section :
    /\ m < n /\ LastWith(section, "peer_id", m) /\ LastWith(section, "trust", n)
    /\ section[n].value = "verified" => section[m].value \in by
AllSound(text, by) == \A n \in DOMAIN text : Sound(text[n], by)

TrustInv ==
  /\ KnownText \in Texts
  /\ "torn" \notin raced /\ Parses(KnownText) => AllSound(KnownText, confirmed)
  /\ \A p \in Process :
       /\ proc[p].at \in {"alias", "truncate", "save"} => Peer(p) \in confirmed
       /\ Saving(p) =>
            /\ proc[p].draft \in Seq(Entry) /\ proc[p].draft # Empty
            /\ "torn" \notin raced => Earned(proc[p].draft, confirmed)
            /\ Last(proc[p].draft).peer_id = Peer(p)

\* As long as no two saves have overlapped and none was cut short, the file or
\* the list about to be saved has every peer that was reported as added.
StayInv ==
  /\ "known" \notin raced => \A p, q \in Process : Saving(p) /\ Saving(q) => p = q
  /\ "known" \notin raced \cup cut =>
       /\ (\A p \in Process : ~At(p, "save")) =>
            Parses(KnownText) /\ enrolled \subseteq Range(KnownPeers)
       /\ \A p \in Process :
            /\ Saving(p) =>
                 enrolled \cup {[peer_id |-> Peer(p), trust |-> "verified"]} \subseteq Range(proc[p].draft)
            /\ At(p, "save") => KnownText = Empty

\* identity.key and what has been made of it.
IsKey(n) == Exists("key") /\ Content("key") = <<n>>
SavesKey(p) == proc[p].file = "key" /\ proc[p].at \in {"open", "write", "rename"}
Text(p) == IF proc[p].file = "config" THEN Placeholder ELSE <<proc[p].self>>

IdentityInv ==
  "identity" \notin raced =>
    /\ \A p, q \in Process : Initialising(p) /\ Initialising(q) => p = q
    /\ Exists("key") => Content("key")[1] \in Nat /\ IsKey(Content("key")[1])
    /\ \A p \in Process :
         /\ At(p, "write") => proc[p].fd = tmp[proc[p].file]
         /\ At(p, "rename") => tmp[proc[p].file] # NoFile /\ disk[tmp[proc[p].file]] = Text(p)
         /\ Initialising(p) /\ ~SavesKey(p) => IsKey(proc[p].self)
    /\ Exists("key") /\ "identity" \notin cut /\ (\A p \in Process : ~BetweenTheTwo(p)) =>
         Exists("pub") /\ Content("pub") = Content("key")

\* Without --force nothing that is in the directory is replaced.
UnforcedInv ==
  ~forced /\ "identity" \notin raced =>
    /\ \A k \in registered : IsKey(k)
    /\ edited => Exists("config") /\ Content("config") = Edited
    /\ \A p \in Process :
         /\ Initialising(p) => ~proc[p].force
         /\ SavesKey(p) => ~Exists("key")
         /\ proc[p].at \in {"config", "server"} => IsKey(proc[p].self)
         /\ Initialising(p) /\ proc[p].file = "config" => ~edited

IInv == TypeOK /\ KeyTexts /\ Phases /\ NoAlias /\ TrustInv /\ StayInv /\ IdentityInv /\ UnforcedInv

-----------------------------------------------------------------------------
(* Operators.                                                              *)

LEMMA FiniteFiles == IsFiniteSet(File) /\ IsFiniteSet(Saved)
<1>1. IsFiniteSet({"key"}) /\ IsFiniteSet({"pub"}) /\ IsFiniteSet({"config"}) /\ IsFiniteSet({"known"})
  BY FS_Singleton
<1>2. IsFiniteSet({"key"} \cup {"pub"})
  BY <1>1, FS_Union
<1>3. IsFiniteSet(({"key"} \cup {"pub"}) \cup {"config"})
  BY <1>1, <1>2, FS_Union
<1>4. Saved = ({"key"} \cup {"pub"}) \cup {"config"}
  BY DEF Saved
<1>5. IsFiniteSet(Saved)
  BY <1>3, <1>4
<1> QED
  BY <1>1, <1>5, FS_Union DEF File

\* A function has no more values than arguments.
LEMMA ValuesOfFunction ==
  ASSUME NEW S, IsFiniteSet(S), NEW f, f = [x \in S |-> f[x]]
  PROVE  IsFiniteSet(Range(f)) /\ Cardinality(Range(f)) <= Cardinality(S)
<1>1. f \in Surjection(S, Range(f))
  BY DEF Surjection, Range
<1> QED
  BY <1>1, FS_Surjection

\* There is an inode for a new file: as many as there can be names and open files.
LEMMA FreshInode ==
  ASSUME TypeOK, NoFile \in Linked
  PROVE  NewInode \in Inode /\ NewInode \notin Linked
<1> DEFINE Descriptor == [p \in Process |-> proc[p].fd]
<1> DEFINE A == Range(final)
<1> DEFINE B == Range(tmp)
<1> DEFINE D == Range(Descriptor)
<1> DEFINE N == Cardinality(File) + Cardinality(Saved) + Cardinality(Process)
<1>1. IsFiniteSet(A) /\ Cardinality(A) <= Cardinality(File)
  BY FiniteFiles, ValuesOfFunction DEF TypeOK
<1>2. IsFiniteSet(B) /\ Cardinality(B) <= Cardinality(Saved)
  BY FiniteFiles, ValuesOfFunction DEF TypeOK
<1>3. IsFiniteSet(D) /\ Cardinality(D) <= Cardinality(Process)
  <2>1. Descriptor = [p \in Process |-> Descriptor[p]]
    OBVIOUS
  <2>2. IsFiniteSet(Process)
    BY DirectoryAssumption
  <2> HIDE DEF Descriptor
  <2> QED
    BY <2>1, <2>2, ValuesOfFunction
<1>4. Linked = A \cup B \cup D
  BY DEF Linked, Range
<1>5. /\ Cardinality(File) \in Nat /\ Cardinality(Saved) \in Nat /\ Cardinality(Process) \in Nat
      /\ Cardinality(A) \in Nat /\ Cardinality(B) \in Nat /\ Cardinality(D) \in Nat
  BY <1>1, <1>2, <1>3, FiniteFiles, DirectoryAssumption, FS_CardinalityType
<1> HIDE DEF A, B, D
<1>6. IsFiniteSet(Linked) /\ Cardinality(Linked) \in Nat /\ Cardinality(Linked) <= N
  <2>1. /\ IsFiniteSet(A \cup B) /\ IsFiniteSet(A \cap B)
        /\ Cardinality(A \cup B) = Cardinality(A) + Cardinality(B) - Cardinality(A \cap B)
    BY <1>1, <1>2, FS_Union, FS_Subset
  <2>2. /\ IsFiniteSet((A \cup B) \cup D) /\ IsFiniteSet((A \cup B) \cap D)
        /\ Cardinality((A \cup B) \cup D)
             = Cardinality(A \cup B) + Cardinality(D) - Cardinality((A \cup B) \cap D)
    BY <2>1, <1>3, FS_Union, FS_Subset
  <2>3. /\ Cardinality(A \cap B) \in Nat /\ Cardinality((A \cup B) \cap D) \in Nat
        /\ Cardinality(A \cup B) \in Nat /\ Cardinality((A \cup B) \cup D) \in Nat
    BY <2>1, <2>2, FS_CardinalityType
  <2> QED
    BY <2>1, <2>2, <2>3, <1>1, <1>2, <1>3, <1>4, <1>5
<1>7. \E i \in Inode : i \notin Linked
  <2>1. SUFFICES ASSUME Inode \subseteq Linked PROVE FALSE
    OBVIOUS
  <2>2. 0 .. N \in SUBSET Linked
    BY <2>1, <1>5 DEF Inode, NoFile
  <2>3. N \in Nat
    BY <1>5
  <2> HIDE DEF N
  <2>4. Cardinality(0 .. N) = N + 1
    BY <2>3, FS_Interval
  <2>5. Cardinality(0 .. N) <= Cardinality(Linked)
    BY <2>2, <1>6, FS_Subset
  <2> QED
    BY <2>3, <2>4, <2>5, <1>6
<1> QED
  BY <1>7 DEF NewInode

\* Who has confirmed more has earned what he had.
LEMMA EarnedOfMore ==
  ASSUME NEW peers, NEW by, NEW more, Earned(peers, by), by \subseteq more
  PROVE  Earned(peers, more)
BY DEF Earned

\* What addPeerFromInvite() and verifyPeerTrust() make of a list without the peer.
LEMMA DraftOfPeer ==
  ASSUME NEW peers \in Seq(Entry), NEW by, NEW id \in Peers, id \in by, Find(peers, id) = {}
  PROVE  LET draft == VerifyPeerTrust(AddPeerFromInvite(peers, id), id) IN
           /\ draft \in Seq(Entry)
           /\ draft # Empty
           /\ Last(draft).peer_id = id
           /\ Earned(peers, by) => Earned(draft, by)
           /\ Range(peers) \subseteq Range(draft)
           /\ [peer_id |-> id, trust |-> "verified"] \in Range(draft)
<1> DEFINE draft == VerifyPeerTrust(AddPeerFromInvite(peers, id), id)
<1> DEFINE new == [peer_id |-> id, trust |-> "verified"]
<1> DEFINE listed == Append(peers, [peer_id |-> id, trust |-> "tofu"])
<1>1. draft = [n \in DOMAIN listed |-> IF listed[n].peer_id = id
                                         THEN [listed[n] EXCEPT !.trust = "verified"] ELSE listed[n]]
  BY DEF VerifyPeerTrust, AddPeerFromInvite
<1>2. /\ Len(peers) \in Nat
      /\ DOMAIN peers = 1 .. Len(peers)
      /\ \A n \in 1 .. Len(peers) : peers[n] \in Entry
  OBVIOUS
<1>3. /\ DOMAIN listed = 1 .. Len(peers) + 1
      /\ \A n \in 1 .. Len(peers) : listed[n] = peers[n]
      /\ listed[Len(peers) + 1] = [peer_id |-> id, trust |-> "tofu"]
  BY <1>2
<1>4. \A n \in 1 .. Len(peers) : peers[n].peer_id # id
  BY <1>2 DEF Find
<1> HIDE DEF listed, draft
<1>5. /\ DOMAIN draft = 1 .. Len(peers) + 1
      /\ \A n \in 1 .. Len(peers) : draft[n] = peers[n]
  BY <1>1, <1>2, <1>3, <1>4
<1>6. draft[Len(peers) + 1] = new
  BY <1>1, <1>2, <1>3
<1>7. draft \in Seq(Entry) /\ Len(draft) = Len(peers) + 1
  <2>1. \A n \in 1 .. Len(peers) + 1 : draft[n] \in Entry
    BY <1>2, <1>5, <1>6 DEF Entry, Trust
  <2>2. draft = [n \in 1 .. Len(peers) + 1 |-> draft[n]]
    BY <1>1, <1>3
  <2> QED
    BY <2>1, <2>2, <1>2
<1>8. Earned(peers, by) => Earned(draft, by)
  BY <1>2, <1>5, <1>6, <1>7 DEF Earned
<1>9. Range(peers) \subseteq Range(draft) /\ new \in Range(draft)
  BY <1>2, <1>5, <1>6 DEF Range
<1>10. draft # Empty /\ Last(draft).peer_id = id
  BY <1>2, <1>6, <1>7 DEF Empty, Last
<1> QED
  BY <1>7, <1>8, <1>9, <1>10 DEF draft

-----------------------------------------------------------------------------
(* The text of known_peers.toml.                                           *)

\* The largest of some positions.
LEMMA MaxOfPositions ==
  ASSUME NEW n \in Nat, NEW s \in SUBSET (1 .. n), s # {}
  PROVE  Max(s) \in s /\ \A i \in s : i <= Max(s)
<1> DEFINE Mirror == {n - i : i \in s}
           R == OpToRel(<, Nat)
<1>1. PICK m \in Mirror : \A i \in Mirror : ~(<<i, m>> \in R)
  <2>1. IsWellFoundedOn(R, Nat)
    BY NatLessThanWellFounded
  <2>2. Mirror \subseteq Nat /\ Mirror # {}
    <3>1. \A i \in s : n - i \in Nat
      OBVIOUS
    <3>2. Mirror \subseteq Nat
      BY <3>1
    <3>3. \E i \in s : n - i \in Mirror
      OBVIOUS
    <3> QED
      BY <3>2, <3>3
  <2> HIDE DEF Mirror, R
  <2> QED
    BY <2>1, <2>2, WFMin
<1>2. PICK k \in s : m = n - k
  OBVIOUS
<1>3. ASSUME NEW i \in s PROVE i <= k
  <2>1. n - i \in Mirror /\ n - i \in Nat /\ n - k \in Nat
    OBVIOUS
  <2>2. ~(n - i < n - k)
    BY <1>1, <1>2, <2>1 DEF OpToRel
  <2> QED
    BY <2>2
<1>4. \E j \in s : \A i \in s : j >= i
  BY <1>3
<1>5. Max(s) \in s /\ \A i \in s : Max(s) >= i
  BY <1>4 DEF Max
<1> QED
  BY <1>5

\* The last line with a key is the one that is read.
LEMMA LineThatCounts ==
  ASSUME NEW section \in Seq(Lines), NEW key, NEW n, LastWith(section, key, n)
  PROVE  LinesOf(section, key) # {} /\ Get(section, key) = section[n].value
<1> DEFINE found == LinesOf(section, key)
<1>1. found \in SUBSET (1 .. Len(section)) /\ Len(section) \in Nat /\ n \in found
  BY DEF LinesOf, LastWith
<1>2. Max(found) \in found /\ \A i \in found : i <= Max(found)
  <2> HIDE DEF found
  <2> QED
    BY <1>1, MaxOfPositions
<1>3. Max(found) = n
  BY <1>1, <1>2 DEF LastWith
<1> QED
  BY <1>1, <1>3 DEF Get

\* A section that is complete reads as an entry.
LEMMA EntryIsTyped ==
  ASSUME NEW section \in Seq(Lines), Complete(section)
  PROVE  EntryOf(section) \in Entry
<1>1. ASSUME NEW key, LinesOf(section, key) # {}
      PROVE  \E n \in LinesOf(section, key) : Get(section, key) = section[n].value
  <2>1. LinesOf(section, key) \in SUBSET (1 .. Len(section)) /\ Len(section) \in Nat
    BY DEF LinesOf
  <2> QED
    BY <1>1, <2>1, MaxOfPositions DEF Get
<1>2. Get(section, "peer_id") \in Peers \cup {"part"}
  <2>1. LinesOf(section, "peer_id") # {} /\ Get(section, "peer_id") # ""
    BY DEF Complete, Get
  <2>2. PICK n \in LinesOf(section, "peer_id") : Get(section, "peer_id") = section[n].value
    BY <1>1, <2>1
  <2>3. section[n] \in Lines /\ section[n].key = "peer_id"
    BY <2>2 DEF LinesOf
  <2> QED
    BY <2>1, <2>2, <2>3 DEF Lines, Parts
<1>3. LinesOf(section, "trust") # {} => Get(section, "trust") \in Trust
  BY <1>1 DEF Complete
<1> QED
  BY <1>2, <1>3 DEF EntryOf, Entry, Trust

\* What a sound section says has been earned.
LEMMA EntryIsEarned ==
  ASSUME NEW section \in Seq(Lines), NEW by, Sound(section, by), EntryOf(section).trust = "verified"
  PROVE  EntryOf(section).peer_id \in by
<1>1. PICK m \in DOMAIN section, n \in DOMAIN section :
        /\ LastWith(section, "peer_id", m) /\ LastWith(section, "trust", n)
        /\ section[n].value = "verified" => section[m].value \in by
  BY DEF Sound
<1>2. Get(section, "peer_id") = section[m].value
  BY <1>1, LineThatCounts
<1>3. Get(section, "trust") = section[n].value /\ LinesOf(section, "trust") # {}
  BY <1>1, LineThatCounts
<1> QED
  BY <1>1, <1>2, <1>3 DEF EntryOf

\* What has been read of a text.
LEMMA ParsedIsTyped ==
  ASSUME NEW text \in Texts, Parses(text)
  PROVE  /\ ParseKnownPeers(text) \in Seq(Entry)
         /\ \A by : AllSound(text, by) => Earned(ParseKnownPeers(text), by)
<1>1. text \in Seq(Seq(Lines)) /\ DOMAIN text = 1 .. Len(text) /\ Len(text) \in Nat
  BY DEF Texts
<1>2. \A n \in DOMAIN text : EntryOf(text[n]) \in Entry
  BY <1>1, EntryIsTyped DEF Parses
<1>3. ParseKnownPeers(text) \in Seq(Entry)
  BY <1>1, <1>2 DEF ParseKnownPeers
<1>4. ASSUME NEW by, AllSound(text, by), NEW n \in DOMAIN text, EntryOf(text[n]).trust = "verified"
      PROVE  EntryOf(text[n]).peer_id \in by
  BY <1>1, <1>4, EntryIsEarned DEF AllSound
<1>5. DOMAIN ParseKnownPeers(text) = DOMAIN text
      /\ \A n \in DOMAIN text : ParseKnownPeers(text)[n] = EntryOf(text[n])
  BY DEF ParseKnownPeers
<1> QED
  BY <1>3, <1>4, <1>5 DEF Earned

LEMMA LineFields == \A key, value : Line(key, value).key = key /\ Line(key, value).value = value
BY DEF Line

LEMMA ThreeInARow ==
  ASSUME NEW S, NEW a \in S, NEW b \in S, NEW c \in S
  PROVE  <<a, b, c>> \in Seq(S) /\ Len(<<a, b, c>>) = 3
         /\ <<a, b, c>>[1] = a /\ <<a, b, c>>[2] = b /\ <<a, b, c>>[3] = c
OBVIOUS

\* A section as it is written.
LEMMA SectionLines ==
  ASSUME NEW e \in Entry
  PROVE  /\ Section(e) \in Seq(Lines) /\ Len(Section(e)) = 3
         /\ Section(e)[1] = Line("peer_id", e.peer_id)
         /\ Section(e)[2] = Line("trust", e.trust)
         /\ Section(e)[3] = Line("home_rendezvous", "url")
<1>1. /\ Line("peer_id", e.peer_id) \in Lines
      /\ Line("trust", e.trust) \in Lines
      /\ Line("home_rendezvous", "url") \in Lines
  BY DEF Line, Lines, Entry, Parts
<1> QED
  BY <1>1, ThreeInARow, Zenon DEF Section

\* Three lines in the order in which they are written, whatever the address.
LEMMA ThreeLines ==
  ASSUME NEW s \in Seq(Lines), Len(s) = 3, NEW e \in Entry, NEW by,
         s[1] = Line("peer_id", e.peer_id), s[2] = Line("trust", e.trust),
         s[3].key = "home_rendezvous", e.trust = "verified" => e.peer_id \in by
  PROVE  /\ Sound(s, by)
         /\ Get(s, "peer_id") = e.peer_id /\ Get(s, "home_rendezvous") = s[3].value
         /\ LinesOf(s, "trust") = {2} /\ Get(s, "trust") = e.trust
<1>1. DOMAIN s = {1, 2, 3}
  BY DEF LastWith
<1>2. LinesOf(s, "peer_id") = {1} /\ LinesOf(s, "trust") = {2} /\ LinesOf(s, "home_rendezvous") = {3}
  BY <1>1 DEF LinesOf, Line
<1>3. /\ LastWith(s, "peer_id", 1) /\ LastWith(s, "trust", 2) /\ LastWith(s, "home_rendezvous", 3)
  BY <1>2 DEF LastWith
<1>4. s[1].value = e.peer_id /\ s[2].value = e.trust
  BY DEF Line
<1>5. Sound(s, by)
  BY <1>1, <1>3, <1>4 DEF Sound
<1> QED
  BY <1>2, <1>3, <1>4, <1>5, LineThatCounts

\* What is written is what is read.
LEMMA SectionReads ==
  ASSUME NEW e \in Entry
  PROVE  Complete(Section(e)) /\ EntryOf(Section(e)) = e
<1>1. Section(e)[3].key = "home_rendezvous" /\ Section(e)[3].value = "url"
  <2>1. Section(e)[3] = Line("home_rendezvous", "url")
    BY SectionLines
  <2>2. Section(e)[3].key = "home_rendezvous"
    BY <2>1 DEF Line
  <2>3. Section(e)[3].value = "url"
    BY <2>1 DEF Line
  <2> QED
    BY <2>2, <2>3
<1>2. Section(e)[2].value = e.trust
  <2>1. Section(e)[2] = Line("trust", e.trust)
    BY SectionLines
  <2> QED
    BY <2>1 DEF Line
<1>3. /\ Get(Section(e), "peer_id") = e.peer_id
      /\ Get(Section(e), "home_rendezvous") = Section(e)[3].value
      /\ LinesOf(Section(e), "trust") = {2} /\ Get(Section(e), "trust") = e.trust
  <2>1. e.trust = "verified" => e.peer_id \in {e.peer_id}
    OBVIOUS
  <2> QED
    BY <1>1, <2>1, SectionLines, ThreeLines, Zenon
<1>4. e.peer_id # "" /\ e.trust \in Trust
  BY DirectoryAssumption DEF Entry, Parts
<1>5. Complete(Section(e))
  BY <1>1, <1>2, <1>3, <1>4 DEF Complete
<1>6. EntryOf(Section(e)) = e
  BY <1>3 DEF EntryOf, Entry
<1> QED
  BY <1>5, <1>6

LEMMA SerializedReads ==
  ASSUME NEW peers \in Seq(Entry)
  PROVE  LET text == SerializeKnownPeers(peers) IN
           /\ text \in Texts /\ Len(text) = Len(peers)
           /\ \A n \in 1 .. Len(peers) : text[n] = Section(peers[n])
           /\ Parses(text) /\ ParseKnownPeers(text) = peers
           /\ \A by : Earned(peers, by) => AllSound(text, by)
<1> DEFINE text == SerializeKnownPeers(peers)
<1>1. DOMAIN peers = 1 .. Len(peers) /\ Len(peers) \in Nat /\ \A n \in 1 .. Len(peers) : peers[n] \in Entry
  OBVIOUS
<1>2. DOMAIN text = 1 .. Len(peers) /\ \A n \in 1 .. Len(peers) : text[n] = Section(peers[n])
  BY <1>1 DEF SerializeKnownPeers
<1>3. \A n \in 1 .. Len(peers) : Section(peers[n]) \in Seq(Lines)
  BY <1>1, SectionLines
<1>4. text \in Seq(Seq(Lines)) /\ Len(text) = Len(peers)
  <2>1. text = [n \in 1 .. Len(peers) |-> Section(peers[n])]
    BY <1>1 DEF SerializeKnownPeers
  <2> HIDE DEF text
  <2> QED
    BY <2>1, <1>1, <1>3
<1> HIDE DEF text
<1>5. Parses(text)
  BY <1>1, <1>2, SectionReads DEF Parses
<1>6. ParseKnownPeers(text) = peers
  <2>1. ParseKnownPeers(text) = [n \in 1 .. Len(peers) |-> peers[n]]
    BY <1>1, <1>2, SectionReads DEF ParseKnownPeers
  <2> QED
    BY <2>1
<1>7. ASSUME NEW by, Earned(peers, by), NEW n \in 1 .. Len(peers) PROVE Sound(text[n], by)
  <2>1. peers[n] \in Entry /\ (peers[n].trust = "verified" => peers[n].peer_id \in by)
    BY <1>1, <1>7 DEF Earned
  <2>2. Sound(Section(peers[n]), by)
    <3>1. Section(peers[n])[3].key = "home_rendezvous"
      BY <2>1, SectionLines, LineFields, Zenon
    <3> QED
      BY <2>1, <3>1, SectionLines, ThreeLines, Zenon
  <2> QED
    BY <1>2, <2>2
<1> QED
  BY <1>2, <1>4, <1>5, <1>6, <1>7 DEF Texts, AllSound, text

\* The end of a sequence.
LEMMA FromProperties ==
  ASSUME NEW S, NEW seq \in Seq(S), NEW n \in Nat, n >= 1
  PROVE  /\ From(seq, n) \in Seq(S)
         /\ Len(From(seq, n)) = IF n <= Len(seq) THEN Len(seq) - n + 1 ELSE 0
         /\ \A i \in 1 .. Len(seq) - n + 1 : From(seq, n)[i] = seq[n + i - 1]
<1>1. Len(seq) \in Nat /\ \A i \in n .. Len(seq) : seq[i] \in S
  OBVIOUS
<1> QED
  BY <1>1, SubSeqProperties DEF From

LEMMA SoundOfMore ==
  ASSUME NEW text, NEW by, NEW more, AllSound(text, by), by \subseteq more
  PROVE  AllSound(text, more)
BY DEF AllSound, Sound

\* The lines of a sound section, from any one on, leave the section they are
\* appended to sound, if it is one of a peer that has been confirmed.
LEMMA AppendedLines ==
  ASSUME NEW e \in Entry, NEW by, e.peer_id \in by,
         NEW s \in Seq(Lines), Sound(s, by), NEW k \in DOMAIN s
  PROVE  Sound(Section(e) \o From(s, k), by)
<1> DEFINE rest == From(s, k)
<1> DEFINE joined == Section(e) \o rest
<1>1. /\ Section(e) \in Seq(Lines) /\ Len(Section(e)) = 3
      /\ Section(e)[1].key = "peer_id" /\ Section(e)[1].value = e.peer_id
      /\ Section(e)[2].key = "trust"
      /\ Section(e)[3].key = "home_rendezvous"
  <2>1. /\ Section(e) \in Seq(Lines) /\ Len(Section(e)) = 3
        /\ Section(e)[1] = Line("peer_id", e.peer_id)
        /\ Section(e)[2] = Line("trust", e.trust)
        /\ Section(e)[3] = Line("home_rendezvous", "url")
    BY SectionLines
  <2> QED
    BY <2>1 DEF Line
<1>2. /\ k \in Nat /\ 1 <= k /\ k <= Len(s) /\ Len(s) \in Nat
      /\ rest \in Seq(Lines) /\ Len(rest) = Len(s) - k + 1
      /\ \A i \in 1 .. Len(s) - k + 1 : rest[i] = s[k + i - 1]
  <2>1. k \in Nat /\ 1 <= k /\ k <= Len(s) /\ Len(s) \in Nat
    OBVIOUS
  <2> QED
    BY <2>1, FromProperties
<1> HIDE DEF rest
<1>3. /\ joined \in Seq(Lines) /\ Len(joined) = Len(s) - k + 4
      /\ joined[1] = Section(e)[1] /\ joined[2] = Section(e)[2] /\ joined[3] = Section(e)[3]
      /\ \A i \in 4 .. Len(s) - k + 4 : joined[i] = rest[i - 3]
  <2>1. /\ joined \in Seq(Lines) /\ Len(joined) = 3 + Len(rest)
        /\ \A i \in 1 .. 3 + Len(rest) : joined[i] = IF i <= 3 THEN Section(e)[i] ELSE rest[i - 3]
    <3>1. /\ joined \in Seq(Lines) /\ Len(joined) = Len(Section(e)) + Len(rest)
          /\ \A i \in 1 .. Len(Section(e)) + Len(rest) :
               joined[i] = IF i <= Len(Section(e)) THEN Section(e)[i] ELSE rest[i - Len(Section(e))]
      <4>1. Section(e) \in Seq(Lines) /\ rest \in Seq(Lines)
        BY <1>1, <1>2
      <4> QED
        BY <4>1, ConcatProperties, Zenon
    <3> QED
      BY <1>1, <3>1, Zenon
  <2> HIDE DEF joined
  <2>2. 3 + Len(rest) = Len(s) - k + 4 /\ 3 + Len(rest) >= 4
    BY <1>2
  <2>3. /\ joined[1] = Section(e)[1] /\ joined[2] = Section(e)[2] /\ joined[3] = Section(e)[3]
    BY <2>1, <2>2
  <2> QED
    BY <2>1, <2>2, <2>3
<1> HIDE DEF joined
<1>4. DOMAIN joined = 1 .. Len(s) - k + 4 /\ DOMAIN s = 1 .. Len(s)
  BY <1>3
\* The lines of s from k on are those of the joined section from 4 on.
<1>5. ASSUME NEW i \in DOMAIN joined, i >= 4
      PROVE  i + k - 4 \in DOMAIN s /\ k <= i + k - 4 /\ joined[i] = s[i + k - 4]
  <2>1. i \in 4 .. Len(s) - k + 4 /\ i - 3 \in 1 .. Len(s) - k + 1 /\ k + (i - 3) - 1 = i + k - 4
    BY <1>2, <1>4, <1>5
  <2>2. joined[i] = s[i + k - 4]
    BY <1>2, <1>3, <2>1
  <2> QED
    BY <1>2, <1>4, <1>5, <2>1, <2>2
<1>6. ASSUME NEW j \in DOMAIN s, k <= j
      PROVE  j - k + 4 \in DOMAIN joined /\ joined[j - k + 4] = s[j]
  <2>1. j - k + 4 \in DOMAIN joined /\ j - k + 4 >= 4 /\ (j - k + 4) + k - 4 = j
    BY <1>2, <1>4, <1>6
  <2> QED
    BY <1>5, <2>1
<1>7. joined[1].key = "peer_id" /\ joined[2].key = "trust" /\ joined[3].key = "home_rendezvous"
  BY <1>1, <1>3
\* The last line with a key, if it is appended, is the last of the joined section.
<1>8. ASSUME NEW key, NEW j \in DOMAIN s, LastWith(s, key, j), k <= j
      PROVE  LastWith(joined, key, j - k + 4)
  <2>1. s[j].key = key /\ \A i \in DOMAIN s : s[i].key = key => i <= j
    BY <1>8 DEF LastWith, LinesOf
  <2>2. j - k + 4 \in LinesOf(joined, key)
    BY <1>6, <1>8, <2>1 DEF LinesOf
  <2>3. ASSUME NEW i \in DOMAIN joined, joined[i].key = key PROVE i <= j - k + 4
    <3>1. i \in Int /\ j \in Int /\ k \in Int
      BY <1>2, <1>4
    <3>2. CASE i >= 4
      <4>1. i + k - 4 <= j
        BY <1>5, <2>1, <2>3, <3>2
      <4> QED
        BY <3>1, <4>1
    <3> QED
      BY <1>8, <3>1, <3>2
  <2> QED
    BY <2>2, <2>3 DEF LastWith, LinesOf
\* If it is not, none is.
<1>9. ASSUME NEW key, NEW j \in DOMAIN s, LastWith(s, key, j), j < k,
             NEW i \in DOMAIN joined, joined[i].key = key
      PROVE  i < 4
  <2>1. \A l \in DOMAIN s : s[l].key = key => l <= j
    BY <1>9 DEF LastWith, LinesOf
  <2>2. SUFFICES ASSUME i >= 4 PROVE FALSE
    BY <1>4
  <2>3. i + k - 4 \in DOMAIN s /\ k <= i + k - 4 /\ s[i + k - 4].key = key
    BY <1>5, <1>9, <2>2
  <2>4. i + k - 4 <= j
    BY <2>1, <2>3
  <2> QED
    BY <1>2, <1>4, <1>9, <2>3, <2>4
<1>10. /\ 1 \in DOMAIN joined /\ 2 \in DOMAIN joined
       /\ \A i \in DOMAIN joined : i < 4 => i \in {1, 2, 3}
  BY <1>2, <1>4
<1>11. PICK m \in DOMAIN s, n \in DOMAIN s :
         /\ m < n /\ LastWith(s, "peer_id", m) /\ LastWith(s, "trust", n)
         /\ s[n].value = "verified" => s[m].value \in by
  BY DEF Sound
<1>12. m \in Int /\ n \in Int /\ k \in Int /\ m < n
  BY <1>2, <1>4, <1>11
\* The lines that count are both appended, the trust alone, or neither.
<1>13. CASE k <= m
  <2>1. k <= n /\ m - k + 4 < n - k + 4
    BY <1>12, <1>13
  <2>2. /\ m - k + 4 \in DOMAIN joined /\ joined[m - k + 4] = s[m]
        /\ n - k + 4 \in DOMAIN joined /\ joined[n - k + 4] = s[n]
    BY <1>6, <1>13, <2>1
  <2>3. LastWith(joined, "peer_id", m - k + 4) /\ LastWith(joined, "trust", n - k + 4)
    BY <1>8, <1>11, <1>13, <2>1
  <2>4. joined[n - k + 4].value = "verified" => joined[m - k + 4].value \in by
    BY <1>11, <2>2
  <2>5. Sound(joined, by)
    BY <2>1, <2>2, <2>3, <2>4, Zenon DEF Sound
  <2> QED
    BY <2>5 DEF joined, rest
<1>14. CASE m < k
  <2>1. LastWith(joined, "peer_id", 1)
    <3>1. \A i \in DOMAIN joined : joined[i].key = "peer_id" => i = 1
      BY <1>7, <1>9, <1>10, <1>11, <1>14
    <3> QED
      BY <1>7, <1>10, <3>1 DEF LastWith, LinesOf
  <2>2. joined[1].value \in by
    BY <1>1, <1>3
  <2>3. CASE k <= n
    <3>1. n - k + 4 \in DOMAIN joined /\ 1 < n - k + 4
      BY <1>6, <1>12, <2>3
    <3>2. LastWith(joined, "trust", n - k + 4)
      BY <1>8, <1>11, <2>3
    <3>3. Sound(joined, by)
      BY <1>10, <2>1, <2>2, <3>1, <3>2, Zenon DEF Sound
    <3> QED
      BY <3>3 DEF joined, rest
  <2>4. CASE n < k
    <3>1. \A i \in DOMAIN joined : joined[i].key = "trust" => i = 2
      BY <1>7, <1>9, <1>10, <1>11, <2>4
    <3>2. LastWith(joined, "trust", 2)
      BY <1>7, <1>10, <3>1 DEF LastWith, LinesOf
    <3>3. Sound(joined, by)
      BY <1>10, <2>1, <2>2, <3>2 DEF Sound
    <3> QED
      BY <3>3 DEF joined, rest
  <2> QED
    BY <1>12, <2>3, <2>4
<1> QED
  BY <1>12, <1>13, <1>14

\* The first lines of a sequence.
LEMMA FirstLines ==
  ASSUME NEW S, NEW seq \in Seq(S), NEW n \in 0 .. Len(seq)
  PROVE  /\ SubSeq(seq, 1, n) \in Seq(S) /\ Len(SubSeq(seq, 1, n)) = n
         /\ \A i \in 1 .. n : SubSeq(seq, 1, n)[i] = seq[i]
<1>1. n \in Nat /\ Len(seq) \in Nat /\ \A i \in 1 .. n : seq[i] \in S
  OBVIOUS
<1> QED
  BY <1>1, SubSeqProperties

\* A section that was cut short has the keys it was written with, and its lines
\* are those that were written but perhaps the last.
LEMMA CutSection ==
  ASSUME NEW section \in Seq(Lines), NEW s \in CutShort(section)
  PROVE  /\ s \in Seq(Lines) /\ Len(s) <= Len(section)
         /\ \A i \in 1 .. Len(s) : s[i].key = section[i].key
         /\ \A i \in 1 .. Len(s) : i < Len(s) => s[i] = section[i]
<1>1. CASE \E k \in 0 .. Len(section) : s = SubSeq(section, 1, k)
  <2>1. PICK k \in 0 .. Len(section) : s = SubSeq(section, 1, k)
    BY <1>1
  <2>2. s \in Seq(Lines) /\ Len(s) = k /\ \A i \in 1 .. k : s[i] = section[i]
    BY <2>1, FirstLines
  <2> QED
    BY <2>2
<1>2. CASE \E k \in DOMAIN section, v \in Parts : s = Append(SubSeq(section, 1, k - 1), Line(section[k].key, v))
  <2>1. PICK k \in DOMAIN section, v \in Parts : s = Append(SubSeq(section, 1, k - 1), Line(section[k].key, v))
    BY <1>2
  <2> DEFINE first == SubSeq(section, 1, k - 1)
  <2> DEFINE line == Line(section[k].key, v)
  <2>2. k \in Nat /\ 1 <= k /\ k <= Len(section) /\ Len(section) \in Nat
    OBVIOUS
  <2>3. first \in Seq(Lines) /\ Len(first) = k - 1 /\ \A i \in 1 .. k - 1 : first[i] = section[i]
    <3>1. k - 1 \in 0 .. Len(section)
      BY <2>2
    <3> QED
      BY <3>1, FirstLines
  <2>4. line \in Lines /\ line.key = section[k].key
    <3>1. section[k] \in Lines
      OBVIOUS
    <3> QED
      BY <3>1 DEF Line, Lines
  <2>5. s = Append(first, line)
    BY <2>1
  <2> HIDE DEF first, line
  <2>6. s \in Seq(Lines) /\ Len(s) = k /\ s[k] = line /\ \A i \in 1 .. k - 1 : s[i] = section[i]
    BY <2>2, <2>3, <2>4, <2>5
  <2>7. \A i \in 1 .. k : i = k \/ i \in 1 .. k - 1
    BY <2>2
  <2> QED
    BY <2>2, <2>4, <2>6, <2>7
<1> QED
  BY <1>1, <1>2 DEF CutShort

\* If it is complete, it is sound: no more than the address is cut off.
LEMMA CutSectionIsSound ==
  ASSUME NEW e \in Entry, NEW by, e.trust = "verified" => e.peer_id \in by,
         NEW s \in CutShort(Section(e)), Complete(s)
  PROVE  Sound(s, by)
<1>1. /\ Section(e) \in Seq(Lines) /\ Len(Section(e)) = 3
      /\ Section(e)[1] = Line("peer_id", e.peer_id)
      /\ Section(e)[2] = Line("trust", e.trust)
      /\ Section(e)[3] = Line("home_rendezvous", "url")
  BY SectionLines
<1>2. /\ s \in Seq(Lines) /\ Len(s) <= 3
      /\ \A i \in 1 .. Len(s) : s[i].key = Section(e)[i].key
      /\ \A i \in 1 .. Len(s) : i < Len(s) => s[i] = Section(e)[i]
  BY <1>1, CutSection, Zenon
<1>3. LinesOf(s, "home_rendezvous") # {}
  BY DEF Complete, Get
<1>4. PICK n \in DOMAIN s : s[n].key = "home_rendezvous"
  BY <1>3 DEF LinesOf
<1>5. Section(e)[1].key = "peer_id" /\ Section(e)[2].key = "trust" /\ Section(e)[3].key = "home_rendezvous"
  <2>1. Section(e)[1].key = "peer_id"
    BY <1>1 DEF Line
  <2>2. Section(e)[2].key = "trust"
    BY <1>1 DEF Line
  <2>3. Section(e)[3].key = "home_rendezvous"
    BY <1>1 DEF Line
  <2> QED
    BY <2>1, <2>2, <2>3
<1>6. n = 3 /\ Len(s) = 3
  <2>1. n \in 1 .. Len(s) /\ Len(s) \in Nat
    BY <1>2
  <2>2. n # 1 /\ n # 2
    <3>1. Section(e)[n].key = "home_rendezvous"
      BY <1>2, <1>4, <2>1
    <3> QED
      BY <1>5, <3>1
  <2>3. n \in Int /\ Len(s) \in Int /\ 1 <= n /\ n <= Len(s) /\ Len(s) <= 3
    BY <1>2, <2>1
  <2>4. n \in {1, 2, 3}
    BY <2>3
  <2>5. n = 3
    BY <2>2, <2>4
  <2>6. Len(s) = 3
    <3> DEFINE len == Len(s)
    <3>1. len \in Int /\ n <= len /\ len <= 3
      BY <2>3
    <3> HIDE DEF len
    <3>2. len = 3
      BY <2>5, <3>1
    <3> QED
      BY <3>2 DEF len
  <2> QED
    BY <2>5, <2>6
<1>7. s[1] = Section(e)[1] /\ s[2] = Section(e)[2]
  <2>1. 1 \in 1 .. 3 /\ 2 \in 1 .. 3 /\ 1 < 3 /\ 2 < 3
    OBVIOUS
  <2> QED
    BY <1>2, <1>6, <2>1
<1> QED
  BY <1>1, <1>2, <1>4, <1>6, <1>7, ThreeLines, Zenon

\* What a full disk leaves of a list.
LEMMA CutsAreTexts ==
  ASSUME NEW text \in Texts, NEW c \in Cuts(text)
  PROVE  /\ c \in Texts
         /\ \/ c = Empty
            \/ \E n \in 1 .. Len(text) : \E s \in CutShort(text[n]) :
                 /\ Len(c) = n /\ c[n] = s
                 /\ \A i \in 1 .. n - 1 : c[i] = text[i]
<1>1. CASE c = Empty
  BY <1>1 DEF Empty, Texts
<1>2. CASE c # Empty
  <2>1. \E n \in DOMAIN text : \E s \in CutShort(text[n]) : c = Append(SubSeq(text, 1, n - 1), s)
    BY <1>2 DEF Cuts
  <2> PICK n \in DOMAIN text : \E s \in CutShort(text[n]) : c = Append(SubSeq(text, 1, n - 1), s)
    BY <2>1
  <2> PICK s \in CutShort(text[n]) : c = Append(SubSeq(text, 1, n - 1), s)
    OBVIOUS
  <2> DEFINE first == SubSeq(text, 1, n - 1)
  <2>2. /\ text \in Seq(Seq(Lines)) /\ Len(text) \in Nat /\ n \in 1 .. Len(text)
        /\ text[n] \in Seq(Lines) /\ n - 1 \in 0 .. Len(text)
    BY DEF Texts
  <2>3. s \in Seq(Lines)
    BY <2>2, CutSection
  <2>4. first \in Seq(Seq(Lines)) /\ Len(first) = n - 1 /\ \A i \in 1 .. n - 1 : first[i] = text[i]
    BY <2>2, FirstLines
  <2>5. c = Append(first, s)
    OBVIOUS
  <2> HIDE DEF first
  <2>6. c \in Seq(Seq(Lines)) /\ Len(c) = n /\ c[n] = s /\ \A i \in 1 .. n - 1 : c[i] = text[i]
    BY <2>2, <2>3, <2>4, <2>5
  <2> QED
    BY <2>2, <2>6 DEF Texts
<1> QED
  BY <1>1, <1>2

LEMMA CutsAreSound ==
  ASSUME NEW peers, NEW by, Earned(peers, by),
         NEW c \in Cuts(SerializeKnownPeers(peers)), Parses(c)
  PROVE  AllSound(c, by)
<1> DEFINE text == SerializeKnownPeers(peers)
<1>1. peers \in Seq(Entry) /\ DOMAIN peers = 1 .. Len(peers) /\ Len(peers) \in Nat
  BY DEF Earned
<1>2. /\ text \in Texts /\ Len(text) = Len(peers)
      /\ \A n \in 1 .. Len(peers) : text[n] = Section(peers[n])
      /\ AllSound(text, by)
  BY <1>1, SerializedReads
<1>3. c \in Cuts(text)
  OBVIOUS
<1> HIDE DEF text
<1>4. CASE c = Empty
  BY <1>4 DEF AllSound, Empty
<1>5. CASE c # Empty
  <2>0. PICK n \in 1 .. Len(text) : \E s \in CutShort(text[n]) :
          /\ Len(c) = n /\ c[n] = s
          /\ \A i \in 1 .. n - 1 : c[i] = text[i]
    BY <1>2, <1>3, <1>5, CutsAreTexts
  <2>1. PICK s \in CutShort(text[n]) :
          /\ Len(c) = n /\ c[n] = s
          /\ \A i \in 1 .. n - 1 : c[i] = text[i]
    BY <2>0
  <2>2. DOMAIN c = 1 .. n /\ n \in DOMAIN c /\ DOMAIN text = 1 .. Len(text)
    <3>1. c \in Seq(Seq(Lines)) /\ text \in Seq(Seq(Lines))
      BY <1>2, <1>3, CutsAreTexts DEF Texts
    <3> QED
      BY <2>1, <3>1
  <2>3. Sound(c[n], by)
    <3>1. peers[n] \in Entry /\ (peers[n].trust = "verified" => peers[n].peer_id \in by)
      BY <1>1, <1>2, <2>1 DEF Earned
    <3>2. s \in CutShort(Section(peers[n])) /\ Complete(s)
      BY <1>2, <2>1, <2>2 DEF Parses
    <3> QED
      BY <2>1, <3>1, <3>2, CutSectionIsSound
  <2>4. \A i \in 1 .. n - 1 : Sound(c[i], by)
    BY <1>2, <2>1, <2>2 DEF AllSound
  <2> QED
    BY <2>2, <2>3, <2>4 DEF AllSound
<1> QED
  BY <1>4, <1>5

\* Lines are appended to the last section of a text.
LEMMA JoinedText ==
  ASSUME NEW text \in Texts, text # Empty, NEW lines \in Seq(Lines)
  PROVE  LET joined == Joined(text, lines) IN
           /\ joined \in Texts /\ Len(joined) = Len(text)
           /\ joined[Len(text)] = Last(text) \o lines
           /\ \A i \in 1 .. Len(text) - 1 : joined[i] = text[i]
<1> DEFINE first == SubSeq(text, 1, Len(text) - 1)
<1> DEFINE section == Last(text) \o lines
<1>1. text \in Seq(Seq(Lines)) /\ Len(text) \in Nat /\ Len(text) >= 1 /\ Len(text) - 1 \in 0 .. Len(text)
  BY DEF Texts, Empty
<1>2. first \in Seq(Seq(Lines)) /\ Len(first) = Len(text) - 1
      /\ \A i \in 1 .. Len(text) - 1 : first[i] = text[i]
  BY <1>1, FirstLines
<1>3. section \in Seq(Lines)
  BY <1>1, ConcatProperties DEF Last
<1>4. Joined(text, lines) = Append(first, section)
  BY DEF Joined, Front
<1> HIDE DEF first, section
<1>5. /\ Append(first, section) \in Seq(Seq(Lines)) /\ Len(Append(first, section)) = Len(text)
      /\ Append(first, section)[Len(text)] = section
      /\ \A i \in 1 .. Len(text) - 1 : Append(first, section)[i] = first[i]
  BY <1>1, <1>2, <1>3
<1> QED
  BY <1>2, <1>4, <1>5 DEF Texts, section

\* The three outcomes of writing over a text.
LEMMA OverlaidText ==
  ASSUME NEW new \in Texts, new # Empty, NEW old \in Texts, NEW text \in Overlaid(new, old)
  PROVE  \/ text = new
         \/ \E n \in 2 .. Len(old) : text = new \o From(old, n)
         \/ \E n \in 1 .. Len(old) : \E k \in DOMAIN old[n] :
              text = Joined(new, From(old[n], k)) \o From(old, n + 1)
<1>1. DOMAIN old = 1 .. Len(old)
  BY DEF Texts
<1> QED
  BY <1>1 DEF Overlaid

LEMMA OverlaidIsText ==
  ASSUME NEW new \in Texts, NEW old \in Texts, NEW text \in Overlaid(new, old)
  PROVE  text \in Texts
<1>1. CASE new = Empty
  BY <1>1 DEF Overlaid
<1>2. CASE new # Empty
  <2>1. \A n \in Nat : n >= 1 => From(old, n) \in Texts
    BY FromProperties DEF Texts
  <2>2. \A a, b \in Texts : a \o b \in Texts
    BY ConcatProperties DEF Texts
  <2>3. ASSUME NEW n \in 2 .. Len(old) PROVE new \o From(old, n) \in Texts
    <3>1. n \in Nat /\ n >= 1
      BY DEF Texts
    <3> QED
      BY <2>1, <2>2, <3>1
  <2>4. ASSUME NEW n \in 1 .. Len(old), NEW k \in DOMAIN old[n]
        PROVE  Joined(new, From(old[n], k)) \o From(old, n + 1) \in Texts
    <3>1. n + 1 \in Nat /\ n + 1 >= 1 /\ old[n] \in Seq(Lines)
      BY DEF Texts
    <3>2. From(old[n], k) \in Seq(Lines)
      BY <3>1, FromProperties
    <3>3. Joined(new, From(old[n], k)) \in Texts
      BY <1>2, <3>2, JoinedText
    <3> QED
      BY <2>1, <2>2, <3>1, <3>3
  <2>5. CASE text = new
    BY <2>5
  <2>6. CASE \E n \in 2 .. Len(old) : text = new \o From(old, n)
    BY <2>3, <2>6
  <2>7. CASE \E n \in 1 .. Len(old) : \E k \in DOMAIN old[n] :
               text = Joined(new, From(old[n], k)) \o From(old, n + 1)
    BY <2>4, <2>7
  <2> QED
    BY <1>2, <2>5, <2>6, <2>7, OverlaidText
<1> QED
  BY <1>1, <1>2

LEMMA OverlaidOfEmpty == \A new : Overlaid(new, Empty) = {new}
<1>1. Len(Empty) = 0 /\ DOMAIN Empty = {} /\ 2 .. 0 = {}
  BY DEF Empty
<1> QED
  BY <1>1 DEF Overlaid


\* What is sound of two texts is so of one after the other, and of their ends.
LEMMA SoundConcat ==
  ASSUME NEW a \in Texts, NEW b \in Texts, NEW by, AllSound(a, by), AllSound(b, by)
  PROVE  AllSound(a \o b, by)
<1>1. /\ a \in Seq(Seq(Lines)) /\ DOMAIN a = 1 .. Len(a) /\ Len(a) \in Nat
      /\ b \in Seq(Seq(Lines)) /\ DOMAIN b = 1 .. Len(b) /\ Len(b) \in Nat
  BY DEF Texts
<1>2. /\ DOMAIN (a \o b) = 1 .. Len(a) + Len(b)
      /\ \A i \in 1 .. Len(a) + Len(b) : (a \o b)[i] = IF i <= Len(a) THEN a[i] ELSE b[i - Len(a)]
  BY <1>1
<1>3. \A i \in 1 .. Len(a) + Len(b) : i \in 1 .. Len(a) \/ (~(i <= Len(a)) /\ i - Len(a) \in 1 .. Len(b))
  BY <1>1
<1>4. \A i \in 1 .. Len(a) + Len(b) : Sound((a \o b)[i], by)
  <2>1. ASSUME NEW i \in 1 .. Len(a) + Len(b) PROVE Sound((a \o b)[i], by)
    <3>1. CASE i \in 1 .. Len(a)
      <4>1. (a \o b)[i] = a[i]
        BY <1>1, <1>2, <3>1
      <4> QED
        BY <1>1, <3>1, <4>1 DEF AllSound
    <3>2. CASE ~(i <= Len(a)) /\ i - Len(a) \in 1 .. Len(b)
      <4>1. (a \o b)[i] = b[i - Len(a)]
        BY <1>2, <3>2
      <4> QED
        BY <1>1, <3>2, <4>1 DEF AllSound
    <3> QED
      BY <1>3, <3>1, <3>2
  <2> QED
    BY <2>1
<1> QED
  BY <1>2, <1>4 DEF AllSound

LEMMA SoundFrom ==
  ASSUME NEW a \in Texts, NEW by, AllSound(a, by), NEW n \in Nat, n >= 1
  PROVE  From(a, n) \in Texts /\ AllSound(From(a, n), by)
<1>1. /\ a \in Seq(Seq(Lines)) /\ DOMAIN a = 1 .. Len(a) /\ Len(a) \in Nat
  BY DEF Texts
<1> DEFINE rest == From(a, n)
<1>2. /\ rest \in Seq(Seq(Lines)) /\ Len(rest) = IF n <= Len(a) THEN Len(a) - n + 1 ELSE 0
      /\ \A i \in 1 .. Len(a) - n + 1 : rest[i] = a[n + i - 1]
  BY <1>1, FromProperties
<1> HIDE DEF rest
<1>3. DOMAIN rest = 1 .. Len(rest)
  BY <1>2
<1>4. ASSUME NEW i \in 1 .. Len(rest) PROVE i \in 1 .. Len(a) - n + 1 /\ n + i - 1 \in 1 .. Len(a)
  BY <1>1, <1>2
<1>5. \A i \in 1 .. Len(rest) : Sound(rest[i], by)
  BY <1>1, <1>2, <1>4 DEF AllSound
<1> QED
  BY <1>2, <1>3, <1>5 DEF AllSound, Texts, rest

\* A list whose last peer has been confirmed, written over one that is sound.
LEMMA OverlaidIsSound ==
  ASSUME NEW peers, NEW by, Earned(peers, by), peers # Empty, Last(peers).peer_id \in by,
         NEW old \in Texts, AllSound(old, by),
         NEW text \in Overlaid(SerializeKnownPeers(peers), old)
  PROVE  AllSound(text, by)
<1> DEFINE new == SerializeKnownPeers(peers)
<1>1. peers \in Seq(Entry) /\ Len(peers) \in Nat /\ Len(peers) >= 1
  BY DEF Earned, Empty
<1>2. /\ new \in Texts /\ Len(new) = Len(peers) /\ AllSound(new, by)
      /\ \A n \in 1 .. Len(peers) : new[n] = Section(peers[n])
  BY <1>1, SerializedReads
<1>3. text \in Overlaid(new, old)
  OBVIOUS
<1> HIDE DEF new
<1>4. new # Empty /\ DOMAIN new = 1 .. Len(new) /\ Last(new) = Section(Last(peers)) /\ Last(peers) \in Entry
  BY <1>1, <1>2 DEF Empty, Last, Texts
<1>5. old \in Seq(Seq(Lines)) /\ DOMAIN old = 1 .. Len(old) /\ Len(old) \in Nat
  BY DEF Texts
<1>6. ASSUME NEW n \in 2 .. Len(old), text = new \o From(old, n) PROVE AllSound(text, by)
  <2>1. n \in Nat /\ n >= 1
    BY <1>5
  <2>2. From(old, n) \in Texts /\ AllSound(From(old, n), by)
    BY <2>1, SoundFrom
  <2> QED
    BY <1>2, <1>6, <2>2, SoundConcat
<1>7. ASSUME NEW n \in 1 .. Len(old), NEW k \in DOMAIN old[n],
             text = Joined(new, From(old[n], k)) \o From(old, n + 1)
      PROVE  AllSound(text, by)
  <2>1. n + 1 \in Nat /\ n + 1 >= 1 /\ old[n] \in Seq(Lines) /\ Sound(old[n], by)
    BY <1>5 DEF AllSound
  <2>2. From(old, n + 1) \in Texts /\ AllSound(From(old, n + 1), by)
    BY <2>1, SoundFrom
  <2> DEFINE lines == From(old[n], k)
  <2> DEFINE joined == Joined(new, lines)
  <2>3. lines \in Seq(Lines)
    BY <2>1, FromProperties
  <2>4. Sound(Last(new) \o lines, by)
    BY <1>4, <2>1, AppendedLines
  <2> HIDE DEF lines
  <2>5. /\ joined \in Texts /\ Len(joined) = Len(new)
        /\ joined[Len(new)] = Last(new) \o lines
        /\ \A i \in 1 .. Len(new) - 1 : joined[i] = new[i]
    BY <1>2, <1>4, <2>3, JoinedText
  <2> HIDE DEF joined
  <2>6. DOMAIN joined = 1 .. Len(new)
    BY <2>5 DEF Texts
  <2>7. \A i \in 1 .. Len(new) : i = Len(new) \/ i \in 1 .. Len(new) - 1
    BY <1>1, <1>2
  <2>8. \A i \in 1 .. Len(new) - 1 : Sound(joined[i], by)
    BY <1>2, <1>4, <2>5 DEF AllSound
  <2>9. AllSound(joined, by)
    BY <2>4, <2>5, <2>6, <2>7, <2>8 DEF AllSound
  <2> QED
    BY <1>7, <2>2, <2>5, <2>9, SoundConcat DEF joined, lines
<1> QED
  <2>1. CASE text = new
    BY <1>2, <2>1
  <2>2. CASE \E n \in 2 .. Len(old) : text = new \o From(old, n)
    BY <1>6, <2>2
  <2>3. CASE \E n \in 1 .. Len(old) : \E k \in DOMAIN old[n] :
               text = Joined(new, From(old[n], k)) \o From(old, n + 1)
    BY <1>7, <2>3
  <2> QED
    BY <1>2, <1>3, <1>4, <2>1, <2>2, <2>3, OverlaidText

-----------------------------------------------------------------------------
(* The types, and what a step leaves alone.                                *)

LEMMA TypeInit == Init => TypeOK
<1> SUFFICES ASSUME Init PROVE TypeOK
  OBVIOUS
<1>1. 1 \in Inode /\ 2 \in Inode /\ 3 \in Inode /\ 4 \in Inode
  <2>1. IsFiniteSet(Process) /\ IsFiniteSet(File) /\ IsFiniteSet(Saved)
    BY FiniteFiles, DirectoryAssumption
  <2>2. Cardinality(Process) \in Nat /\ Cardinality(File) \in Nat /\ Cardinality(Saved) \in Nat
    BY <2>1, FS_CardinalityType
  <2>3. Cardinality(File) >= 4
    <3>1. Cardinality({"key"}) = 1 /\ IsFiniteSet({"key"})
      BY FS_Singleton
    <3>2. Cardinality({"key"} \cup {"pub"}) = 2 /\ IsFiniteSet({"key"} \cup {"pub"})
      BY <3>1, FS_AddElement
    <3>3. /\ Cardinality(({"key"} \cup {"pub"}) \cup {"config"}) = 3
          /\ IsFiniteSet(({"key"} \cup {"pub"}) \cup {"config"})
      BY <3>2, FS_AddElement
    <3>4. Cardinality((({"key"} \cup {"pub"}) \cup {"config"}) \cup {"known"}) = 4
      BY <3>3, FS_AddElement
    <3>5. File = (({"key"} \cup {"pub"}) \cup {"config"}) \cup {"known"}
      BY DEF File, Saved
    <3> QED
      BY <3>4, <3>5
  <2> QED
    BY <2>2, <2>3 DEF Inode
<1>2. PICK setUp \in BOOLEAN, typed \in {Empty} \cup {<<e>> : e \in [peer_id : Peers, trust : {"tofu"}]} :
        LET present(f) == setUp /\ (f = "known" => typed # Empty)
            inode == [key |-> 1, pub |-> 2, config |-> 3, known |-> 4] IN
        /\ final = [f \in File |-> IF present(f) THEN inode[f] ELSE NoFile]
        /\ disk = [i \in Inode |-> CASE setUp /\ i \in {1, 2} -> <<1>>
                                     [] setUp /\ i = 3 -> Edited
                                     [] i = 4 -> SerializeKnownPeers(typed)
                                     [] OTHER -> Empty]
        /\ keys = IF setUp THEN 1 ELSE 0
        /\ registered = 1 .. keys
        /\ edited = setUp
        /\ enrolled = Range(typed)
  BY DEF Init
<1>3. final \in [File -> Inode \cup {NoFile}] /\ tmp \in [Saved -> Inode \cup {NoFile}]
  <2>1. \A f \in File : [key |-> 1, pub |-> 2, config |-> 3, known |-> 4][f] \in Inode
    BY <1>1 DEF File, Saved
  <2> QED
    BY <1>2, <2>1 DEF Init
<1>4. disk = [i \in Inode |-> disk[i]]
  BY <1>2
<1>5. Idle \in Terminal
  BY DEF Idle, Terminal, Place, Saved, NoFile
<1>6. proc \in [Process -> Terminal]
  BY <1>5 DEF Init
<1>7. keys \in Nat /\ left \in Nat /\ registered \subseteq Nat
  BY <1>2, DirectoryAssumption DEF Init
<1>8. enrolled \subseteq Entry
  <2>1. CASE typed = Empty
    BY <2>1, <1>2 DEF Range, Empty
  <2>2. CASE typed # Empty
    <3>1. PICK e \in [peer_id : Peers, trust : {"tofu"}] : typed = <<e>>
      BY <2>2, <1>2
    <3>2. Range(typed) = {e}
      BY <3>1 DEF Range
    <3>3. e \in Entry
      BY DEF Entry, Trust
    <3> QED
      BY <1>2, <3>2, <3>3
  <2> QED
    BY <2>1, <2>2
<1>9. edited \in BOOLEAN /\ forced \in BOOLEAN
  BY <1>2 DEF Init
<1>10. open \subseteq Codes /\ confirmed \subseteq Peers /\ raced = {} /\ cut = {}
  BY DEF Init
<1> QED
  BY <1>3, <1>4, <1>6, <1>7, <1>8, <1>9, <1>10 DEF TypeOK


\* A command changes its own variables only.
LEMMA OthersStand ==
  ASSUME TypeOK, NEW p \in Process, Step(p)
  PROVE  \A q \in Process : q # p => proc'[q] = proc[q]
<1>0. proc \in [Process -> Terminal]
  BY DEF TypeOK
<1>1. ASSUME NEW c \in Command, Start(p, c) PROVE \A q \in Process : q # p => proc'[q] = proc[q]
  BY <1>0, <1>1 DEF Start
<1>2. CASE Stop(p) \/ InitRefuses(p) \/ NoIdentity(p) \/ InviteCreate(p) \/ Decline(p)
             \/ WriteKnownPeers(p) \/ WriteFails(p)
  BY <1>0, <1>2 DEF Stop, InitRefuses, NoIdentity, InviteCreate, Decline, WriteKnownPeers, WriteFails, Exit
<1>3. CASE InitGenerates(p) \/ OpenTmp(p) \/ WriteTmp(p) \/ LoadIdentity(p) \/ Confirm(p) \/ OpenKnownPeers(p)
  BY <1>0, <1>3 DEF InitGenerates, OpenTmp, WriteTmp, LoadIdentity, Confirm, OpenKnownPeers, Goto
<1>4. CASE RenameTmp(p)
  BY <1>0, <1>4 DEF RenameTmp, Goto, Exit, TypeOK, Saved, Terminal
<1>5. CASE InitChecksConfig(p) \/ LoadConfig(p) \/ LoadKnownPeers(p)
  BY <1>0, <1>5 DEF InitChecksConfig, LoadConfig, LoadKnownPeers, Goto, Exit
<1>6. ASSUME NEW answered \in BOOLEAN, InviteRedeem(p, answered)
      PROVE  \A q \in Process : q # p => proc'[q] = proc[q]
  BY <1>0, <1>6 DEF InviteRedeem, Goto, Exit
<1> QED
  BY <1>1, <1>2, <1>3, <1>4, <1>5, <1>6 DEF Step

\* The inode that is opened for the .tmp of a file is reached by no other name.
LEMMA OpenTmpInode ==
  ASSUME TypeOK, NoAlias, NEW p \in Process, OpenTmp(p)
  PROVE  LET f == proc[p].file
             i == IF tmp[f] = NoFile THEN NewInode ELSE tmp[f] IN
           /\ f \in Saved /\ i \in Inode /\ i # NoFile
           /\ \A g \in File : i # final[g]
           /\ \A g \in Saved \ {f} : i # tmp[g]
           /\ \A q \in Process : At(q, "write") /\ proc[q].file # f => i # proc[q].fd
           /\ \A q \in Process : At(q, "save") => i # proc[q].fd
<1> DEFINE f == proc[p].file
<1> DEFINE i == IF tmp[f] = NoFile THEN NewInode ELSE tmp[f]
<1>1. f \in Saved
  BY DEF TypeOK, Terminal
<1>2. CASE tmp[f] = NoFile
  <2>1. NoFile \in Linked
    BY <1>1, <1>2 DEF Linked, Range, TypeOK
  <2>2. i \in Inode /\ i \notin Linked
    BY <1>2, <2>1, FreshInode
  <2>3. i # NoFile
    BY <2>1, <2>2
  <2>4. (\A g \in File : final[g] \in Linked) /\ (\A g \in Saved : tmp[g] \in Linked)
    BY DEF Linked, Range, TypeOK
  <2>5. \A q \in Process : proc[q].fd \in Linked
    BY DEF Linked
  <2> HIDE DEF i
  <2> QED
    BY <1>1, <2>2, <2>3, <2>4, <2>5 DEF i
<1>3. CASE tmp[f] # NoFile
  <2>1. i = tmp[f] /\ i \in Inode
    BY <1>1, <1>3 DEF TypeOK
  <2>2. /\ \A g \in File : i # final[g]
        /\ \A g \in Saved \ {f} : i # tmp[g]
    BY <1>1, <1>3, <2>1 DEF NoAlias
  <2>3. /\ \A q \in Process : At(q, "write") /\ proc[q].file # f => i # proc[q].fd
        /\ \A q \in Process : At(q, "save") => i # proc[q].fd
    BY <1>1, <1>3, <2>1 DEF NoAlias, Exists, File
  <2> QED
    BY <1>1, <1>3, <2>1, <2>2, <2>3
<1> QED
  BY <1>2, <1>3

\* So is the one that is opened for known_peers.toml.
LEMMA OpenKnownInode ==
  ASSUME TypeOK, NoAlias, NEW p \in Process, OpenKnownPeers(p)
  PROVE  LET i == IF Exists("known") THEN final["known"] ELSE NewInode IN
           /\ i \in Inode /\ i # NoFile
           /\ \A g \in File \ {"known"} : i # final[g]
           /\ \A g \in Saved : i # tmp[g]
           /\ \A q \in Process : At(q, "write") => i # proc[q].fd
           /\ \A q \in Process : At(q, "save") => i = proc[q].fd
<1> DEFINE i == IF Exists("known") THEN final["known"] ELSE NewInode
<1>1. "known" \in File /\ "known" \notin Saved
  BY DEF File, Saved
<1>2. CASE ~Exists("known")
  <2>1. NoFile \in Linked
    BY <1>1, <1>2 DEF Linked, Range, TypeOK, Exists
  <2>2. i \in Inode /\ i \notin Linked
    BY <1>2, <2>1, FreshInode
  <2>3. i # NoFile
    BY <2>1, <2>2
  <2>4. (\A g \in File : final[g] \in Linked) /\ (\A g \in Saved : tmp[g] \in Linked)
    BY DEF Linked, Range, TypeOK
  <2>5. \A q \in Process : proc[q].fd \in Linked
    BY DEF Linked
  <2>6. \A q \in Process : ~At(q, "save")
    BY <1>2 DEF NoAlias
  <2> HIDE DEF i
  <2> QED
    BY <2>2, <2>3, <2>4, <2>5, <2>6 DEF i
<1>3. CASE Exists("known")
  <2>1. i = final["known"] /\ i \in Inode /\ i # NoFile
    BY <1>1, <1>3 DEF TypeOK, Exists
  <2>2. /\ \A g \in File \ {"known"} : i # final[g]
        /\ \A g \in Saved : i # tmp[g]
    BY <1>1, <1>3, <2>1 DEF NoAlias, Exists
  <2>3. /\ \A q \in Process : At(q, "write") => i # proc[q].fd
        /\ \A q \in Process : At(q, "save") => i = proc[q].fd
    BY <1>1, <1>3, <2>1 DEF NoAlias, TypeOK, Terminal
  <2> QED
    BY <1>3, <2>1, <2>2, <2>3
<1> QED
  BY <1>2, <1>3

\* And config.toml when the user edits it: no init has anything open then.
LEMMA EditConfigInode ==
  ASSUME TypeOK, Phases, NoAlias, EditConfig
  PROVE  LET i == IF Exists("config") THEN final["config"] ELSE NewInode IN
           /\ i \in Inode /\ i # NoFile
           /\ \A g \in File \ {"config"} : i # final[g]
           /\ \A g \in Saved : i # tmp[g]
           /\ \A q \in Process : ~At(q, "write")
           /\ \A q \in Process : At(q, "save") => i # proc[q].fd
<1> DEFINE i == IF Exists("config") THEN final["config"] ELSE NewInode
<1>1. "config" \in File /\ "config" \in Saved /\ "config" # "known" /\ "known" \in File
  BY DEF File, Saved
<1>0. \A q \in Process : ~At(q, "write")
  BY DEF EditConfig, Initialising, Phases, At
<1>2. CASE ~Exists("config")
  <2>1. NoFile \in Linked
    BY <1>1, <1>2 DEF Linked, Range, TypeOK, Exists
  <2>2. i \in Inode /\ i \notin Linked
    BY <1>2, <2>1, FreshInode
  <2>3. i # NoFile
    BY <2>1, <2>2
  <2>4. (\A g \in File : final[g] \in Linked) /\ (\A g \in Saved : tmp[g] \in Linked)
    BY DEF Linked, Range, TypeOK
  <2>5. \A q \in Process : proc[q].fd \in Linked
    BY DEF Linked
  <2> HIDE DEF i
  <2> QED
    BY <1>0, <2>2, <2>3, <2>4, <2>5 DEF i
<1>3. CASE Exists("config")
  <2>1. i = final["config"] /\ i \in Inode /\ i # NoFile
    BY <1>1, <1>3 DEF TypeOK, Exists
  <2>2. /\ \A g \in File \ {"config"} : i # final[g]
        /\ \A g \in Saved : i # tmp[g]
    BY <1>1, <1>3, <2>1 DEF NoAlias, Exists
  <2>3. \A q \in Process : At(q, "save") => i # proc[q].fd
    BY <1>1, <2>1, <2>2 DEF NoAlias, At
  <2> QED
    BY <1>0, <1>3, <2>1, <2>2, <2>3
<1> QED
  BY <1>2, <1>3

\* A terminal at its prompt is one.
LEMMA IdleTerminal == Idle \in Terminal
BY DEF Idle, Terminal, Place, Saved, NoFile

\* A terminal that goes on, or ends its command, is still one.
LEMMA TerminalGoesOn ==
  ASSUME proc \in [Process -> Terminal], NEW p \in Process, NEW place \in Place, NEW f \in Saved,
         \/ proc' = [proc EXCEPT ![p] = Idle]
         \/ proc' = [proc EXCEPT ![p].at = place]
         \/ proc' = [proc EXCEPT ![p].at = place, ![p].file = f]
  PROVE  proc' \in [Process -> Terminal]
<1>0. proc[p] \in Terminal
  OBVIOUS
<1>1. CASE proc' = [proc EXCEPT ![p] = Idle]
  BY <1>1, IdleTerminal
<1>2. CASE proc' = [proc EXCEPT ![p].at = place]
  <2>1. [proc[p] EXCEPT !.at = place] \in Terminal
    BY <1>0 DEF Terminal
  <2> QED
    BY <1>2, <2>1
<1>3. CASE proc' = [proc EXCEPT ![p].at = place, ![p].file = f]
  <2>1. [proc[p] EXCEPT !.at = place, !.file = f] \in Terminal
    BY <1>0 DEF Terminal
  <2>2. proc' = [proc EXCEPT ![p] = [proc[p] EXCEPT !.at = place, !.file = f]]
    BY <1>3
  <2> QED
    BY <2>1, <2>2
<1> QED
  BY <1>1, <1>2, <1>3

\* An accept past the server has the code of a peer.
LEMMA PeerOfCommand ==
  ASSUME Phases, NEW p \in Process, proc[p].at \in {"confirm", "alias", "truncate", "save"}
  PROVE  Peer(p) \in Peers
BY DirectoryAssumption DEF Phases, Peer

\* The peers that are known, when the file parses.
LEMMA KnownPeersEarned ==
  ASSUME TrustInv, Parses(KnownText)
  PROVE  KnownPeers \in Seq(Entry) /\ ("torn" \notin raced => Earned(KnownPeers, confirmed))
BY ParsedIsTyped DEF TrustInv, KnownPeers

\* Every action keeps the types.
LEMMA TypeStep ==
  ASSUME TypeOK, KeyTexts, Phases, NoAlias, TrustInv, NEW p \in Process, Step(p)
  PROVE  TypeOK'
<1>0. /\ proc \in [Process -> Terminal] /\ proc[p] \in Terminal /\ Idle \in Terminal
      /\ [proc EXCEPT ![p] = Idle] \in [Process -> Terminal]
  BY IdleTerminal DEF TypeOK
<1>1. ASSUME NEW c \in Command, Start(p, c) PROVE TypeOK'
  <2>1. [Idle EXCEPT !.at = "identity", !.name = c.name, !.force = c.force, !.code = c.code] \in Terminal
    BY <1>0 DEF Terminal, Command, Place
  <2>2. proc' \in [Process -> Terminal]
    BY <1>0, <1>1, <2>1 DEF Start
  <2> QED
    BY <1>1, <2>2 DEF TypeOK, Start, files, history
<1>2. CASE Stop(p)
  BY <1>0, <1>2 DEF TypeOK, Stop, Exit, files, Kind
<1>3. CASE InitRefuses(p) \/ NoIdentity(p) \/ Decline(p)
  BY <1>0, <1>3 DEF TypeOK, InitRefuses, NoIdentity, Decline, Exit, files, history
<1>4. CASE InitGenerates(p)
  <2>1. proc' \in [Process -> Terminal]
    <3>1. keys + 1 \in Nat /\ "open" \in Place /\ "key" \in Saved
      BY DEF TypeOK, Place, Saved
    <3>2. proc' = [proc EXCEPT ![p].at = "open", ![p].file = "key", ![p].self = keys + 1]
      BY <1>4 DEF InitGenerates
    <3> QED
      BY <1>0, <3>1, <3>2 DEF Terminal
  <2>2. forced' \in BOOLEAN
    BY <1>0, <1>4 DEF InitGenerates, TypeOK, Terminal
  <2> QED
    BY <1>4, <2>1, <2>2 DEF TypeOK, InitGenerates, files, Kind
<1>5. CASE OpenTmp(p)
  <2> DEFINE f == proc[p].file
  <2> DEFINE i == IF tmp[f] = NoFile THEN NewInode ELSE tmp[f]
  <2>1. f \in Saved /\ i \in Inode
    BY <1>5, OpenTmpInode
  <2>2. /\ tmp' = [tmp EXCEPT ![f] = i] /\ disk' = [disk EXCEPT ![i] = Empty]
        /\ proc' = [proc EXCEPT ![p].at = "write", ![p].fd = i]
    BY <1>5 DEF OpenTmp
  <2> HIDE DEF i, f
  <2>3. proc' \in [Process -> Terminal]
    BY <1>0, <2>1, <2>2 DEF Terminal, Place
  <2> QED
    <3>1. tmp' \in [Saved -> Inode \cup {NoFile}]
      BY <2>1, <2>2 DEF TypeOK
    <3>2. disk' = [j \in Inode |-> disk'[j]]
      BY <2>2 DEF TypeOK
    <3>3. UNCHANGED <<final, keys, open, left, history>>
      BY <1>5 DEF OpenTmp
    <3> QED
      BY <2>3, <3>1, <3>2, <3>3 DEF TypeOK, history
<1>6. CASE WriteTmp(p)
  <2>1. proc' \in [Process -> Terminal]
    BY <1>0, <1>6 DEF WriteTmp, Terminal, Place, NoFile
  <2> QED
    BY <1>6, <2>1 DEF TypeOK, WriteTmp, history
<1>7. CASE RenameTmp(p)
  <2>1. proc[p].file \in Saved /\ proc[p].self \in Nat
    BY <1>0 DEF Terminal
  <2>2. /\ final' = [final EXCEPT ![proc[p].file] = tmp[proc[p].file]]
        /\ tmp' = [tmp EXCEPT ![proc[p].file] = NoFile]
    BY <1>7 DEF RenameTmp
  <2>3. final' \in [File -> Inode \cup {NoFile}] /\ tmp' \in [Saved -> Inode \cup {NoFile}]
    BY <2>1, <2>2 DEF TypeOK, File
  <2>4. proc' \in [Process -> Terminal]
    <3>1. \/ proc' = [proc EXCEPT ![p].at = "open", ![p].file = "pub"]
          \/ proc' = [proc EXCEPT ![p].at = "access"]
          \/ proc' = [proc EXCEPT ![p] = Idle]
      BY <1>7, <2>1 DEF RenameTmp, Goto, Exit, Saved
    <3>2. "open" \in Place /\ "access" \in Place /\ "pub" \in Saved
      BY DEF Place, Saved
    <3> QED
      BY <1>0, <3>1, <3>2, TerminalGoesOn
  <2>5. registered' \subseteq Nat /\ cut' \subseteq Kind
    BY <1>7, <2>1 DEF TypeOK, RenameTmp
  <2> QED
    BY <1>7, <2>3, <2>4, <2>5 DEF TypeOK, RenameTmp
<1>8. CASE InitChecksConfig(p)
  <2>0. \/ proc' = [proc EXCEPT ![p] = Idle]
        \/ proc' = [proc EXCEPT ![p].at = "open", ![p].file = "config"]
    BY <1>8 DEF InitChecksConfig, Exit
  <2>1. proc' \in [Process -> Terminal]
    <3>1. "open" \in Place /\ "config" \in Saved
      BY DEF Place, Saved
    <3> QED
      BY <1>0, <2>0, <3>1, TerminalGoesOn
  <2>2. registered' \subseteq Nat
    BY <1>0, <1>8 DEF InitChecksConfig, TypeOK, Terminal
  <2> QED
    BY <1>8, <2>1, <2>2 DEF TypeOK, InitChecksConfig, files
<1>9. CASE LoadIdentity(p)
  <2>1. Content("key")[1] \in Nat
    <3>1. Content("key") \in Seq(Nat) /\ Content("key") # Empty
      BY <1>9 DEF LoadIdentity, Whole, KeyTexts
    <3> QED
      BY <3>1 DEF Empty
  <2>2. proc' = [proc EXCEPT ![p].at = "config", ![p].self = Content("key")[1]]
    BY <1>9 DEF LoadIdentity
  <2>3. proc' \in [Process -> Terminal]
    BY <1>0, <2>1, <2>2 DEF Terminal, Place
  <2> QED
    BY <1>9, <2>3 DEF TypeOK, LoadIdentity, files, history
<1>10. CASE LoadConfig(p)
  <2>1. proc' = [proc EXCEPT ![p] = Idle] \/ proc' = [proc EXCEPT ![p].at = "server"]
    BY <1>10 DEF LoadConfig, Exit, Goto
  <2>2. proc' \in [Process -> Terminal]
    <3>1. "server" \in Place /\ "key" \in Saved
      BY DEF Place, Saved
    <3> QED
      BY <1>0, <2>1, <3>1, TerminalGoesOn
  <2> QED
    BY <1>10, <2>2 DEF TypeOK, LoadConfig, files, history
<1>11. CASE InviteCreate(p)
  BY <1>0, <1>11 DEF TypeOK, InviteCreate, Exit, files, Terminal
<1>12. ASSUME NEW answered \in BOOLEAN, InviteRedeem(p, answered) PROVE TypeOK'
  <2>1. proc' \in [Process -> Terminal]
    <3>1. proc' = [proc EXCEPT ![p] = Idle] \/ proc' = [proc EXCEPT ![p].at = "confirm"]
      BY <1>12 DEF InviteRedeem, Exit, Goto
    <3>2. "confirm" \in Place /\ "key" \in Saved
      BY DEF Place, Saved
    <3> QED
      BY <1>0, <3>1, <3>2, TerminalGoesOn
  <2>2. registered' \subseteq Nat /\ open' \subseteq Codes
    BY <1>0, <1>12 DEF InviteRedeem, TypeOK, Terminal
  <2> QED
    BY <1>12, <2>1, <2>2 DEF TypeOK, InviteRedeem, files
<1>13. CASE Confirm(p)
  <2>1. proc' \in [Process -> Terminal]
    BY <1>0, <1>13 DEF Confirm, Goto, Terminal, Place
  <2>2. confirmed' \subseteq Peers
    BY <1>13, PeerOfCommand DEF Confirm, TypeOK, At
  <2> QED
    BY <1>13, <2>1, <2>2 DEF TypeOK, Confirm, files
<1>14. CASE LoadKnownPeers(p)
  <2> DEFINE draft == VerifyPeerTrust(AddPeerFromInvite(KnownPeers, Peer(p)), Peer(p))
  <2>1. CASE ~Parses(KnownText) \/ Find(KnownPeers, Peer(p)) # {}
    BY <1>0, <1>14, <2>1 DEF TypeOK, LoadKnownPeers, Exit, files
  <2>2. CASE ~(~Parses(KnownText) \/ Find(KnownPeers, Peer(p)) # {})
    <3>1. Peer(p) \in Peers /\ Peer(p) \in confirmed
      BY <1>14, PeerOfCommand DEF LoadKnownPeers, At, TrustInv
    <3>2. draft \in Seq(Entry)
      BY <2>2, <3>1, KnownPeersEarned, DraftOfPeer
    <3>3. proc' = [proc EXCEPT ![p].at = "truncate", ![p].draft = draft]
      BY <1>14, <2>2 DEF LoadKnownPeers
    <3> HIDE DEF draft
    <3>4. proc' \in [Process -> Terminal]
      BY <1>0, <3>2, <3>3 DEF Terminal, Place
    <3>5. raced' \subseteq Kind \cup {"torn"}
      BY <1>14, <2>2 DEF LoadKnownPeers, TypeOK, Kind
    <3> QED
      BY <1>14, <3>4, <3>5 DEF TypeOK, LoadKnownPeers, files
  <2> QED
    BY <2>1, <2>2
<1>15. CASE OpenKnownPeers(p)
  <2> DEFINE i == IF Exists("known") THEN final["known"] ELSE NewInode
  <2>1. i \in Inode
    BY <1>15, OpenKnownInode
  <2>2. /\ final' = [final EXCEPT !["known"] = i] /\ disk' = [disk EXCEPT ![i] = Empty]
        /\ proc' = [proc EXCEPT ![p].at = "save", ![p].fd = i]
    BY <1>15 DEF OpenKnownPeers
  <2> HIDE DEF i
  <2>3. proc' \in [Process -> Terminal]
    BY <1>0, <2>1, <2>2 DEF Terminal, Place
  <2>4. final' \in [File -> Inode \cup {NoFile}]
    BY <2>1, <2>2 DEF TypeOK
  <2> QED
    BY <1>15, <2>2, <2>3, <2>4 DEF TypeOK, OpenKnownPeers, history
<1>16. CASE WriteKnownPeers(p)
  <2>1. disk' = [i \in Inode |-> disk'[i]]
    BY <1>16 DEF WriteKnownPeers, TypeOK
  <2>2. enrolled' \subseteq Entry
    <3>1. Peer(p) \in Peers
      BY <1>16, PeerOfCommand DEF WriteKnownPeers, At
    <3>2. enrolled' = enrolled \cup {[peer_id |-> Peer(p), trust |-> "verified"]}
      BY <1>16 DEF WriteKnownPeers
    <3> QED
      BY <3>1, <3>2 DEF TypeOK, Entry, Trust
  <2>3. proc' \in [Process -> Terminal]
    BY <1>0, <1>16 DEF WriteKnownPeers, Exit
  <2>4. raced' \subseteq Kind \cup {"torn"}
    BY <1>16 DEF WriteKnownPeers, TypeOK
  <2> QED
    BY <1>16, <2>1, <2>2, <2>3, <2>4 DEF TypeOK, WriteKnownPeers
<1>17. CASE WriteFails(p)
  <2>1. disk' = [i \in Inode |-> disk'[i]]
    BY <1>17 DEF WriteFails, TypeOK
  <2>2. proc' \in [Process -> Terminal]
    BY <1>0, <1>17 DEF WriteFails, Exit
  <2>3. cut' \subseteq Kind /\ raced' \subseteq Kind \cup {"torn"}
    BY <1>17 DEF WriteFails, TypeOK, Kind
  <2> QED
    BY <1>17, <2>1, <2>2, <2>3 DEF TypeOK, WriteFails
<1> QED
  BY <1>1, <1>2, <1>3, <1>4, <1>5, <1>6, <1>7, <1>8, <1>9, <1>10, <1>11, <1>12, <1>13, <1>14,
     <1>15, <1>16, <1>17 DEF Step

LEMMA TypeEdit ==
  ASSUME TypeOK, Phases, NoAlias, EditConfig
  PROVE  TypeOK'
<1> DEFINE i == IF Exists("config") THEN final["config"] ELSE NewInode
<1>1. i \in Inode
  BY EditConfigInode
<1>2. final' = [final EXCEPT !["config"] = i] /\ disk' = [disk EXCEPT ![i] = Edited]
  BY DEF EditConfig
<1> HIDE DEF i
<1>3. final' \in [File -> Inode \cup {NoFile}]
  BY <1>1, <1>2 DEF TypeOK
<1> QED
  BY <1>2, <1>3 DEF TypeOK, EditConfig

-----------------------------------------------------------------------------
(* Where a command is, and what the inodes are called.                     *)

\* What a command that goes on, starts or ends changes of its terminal.
LEMMA AfterGoto ==
  ASSUME TypeOK, NEW p \in Process, NEW place, Goto(p, place)
  PROVE  /\ proc'[p].at = place /\ proc'[p].name = proc[p].name /\ proc'[p].code = proc[p].code
         /\ proc'[p].self = proc[p].self /\ proc'[p].file = proc[p].file
         /\ proc'[p].draft = proc[p].draft /\ proc'[p].force = proc[p].force
<1>1. proc[p] \in Terminal /\ proc'[p] = [proc[p] EXCEPT !.at = place]
  BY DEF TypeOK, Goto
<1> QED
  BY <1>1 DEF Terminal

LEMMA AfterStart ==
  ASSUME TypeOK, NEW p \in Process, NEW c \in Command, Start(p, c)
  PROVE  /\ proc'[p].at = "identity" /\ proc'[p].file = "key"
         /\ proc'[p].name \in {"init", "invite", "accept"}
<1>1. proc'[p] = [Idle EXCEPT !.at = "identity", !.name = c.name, !.force = c.force, !.code = c.code]
  BY DEF TypeOK, Start
<1>2. c.name \in {"init", "invite", "accept"}
  BY DEF Command
<1> QED
  BY <1>1, <1>2 DEF Idle

LEMMA AfterExit ==
  ASSUME TypeOK, NEW p \in Process, Exit(p)
  PROVE  proc'[p] = Idle
BY DEF TypeOK, Exit

\* Where a rename takes its command.
LEMMA AfterRename ==
  ASSUME TypeOK, NEW p \in Process, RenameTmp(p)
  PROVE  \/ /\ proc[p].file = "key" /\ proc'[p].at = "open" /\ proc'[p].file = "pub"
            /\ proc'[p].name = proc[p].name /\ proc'[p].self = proc[p].self
            /\ proc'[p].force = proc[p].force
         \/ /\ proc[p].file = "pub" /\ proc'[p].at = "access" /\ proc'[p].file = "pub"
            /\ proc'[p].name = proc[p].name /\ proc'[p].self = proc[p].self
            /\ proc'[p].force = proc[p].force
         \/ proc[p].file = "config" /\ proc'[p] = Idle
<1>1. proc \in [Process -> Terminal] /\ proc[p] \in Terminal
  BY DEF TypeOK
<1>2. CASE proc[p].file = "key"
  <2>1. proc' = [proc EXCEPT ![p].at = "open", ![p].file = "pub"]
    BY <1>2 DEF RenameTmp
  <2>2. proc'[p] = [proc[p] EXCEPT !.at = "open", !.file = "pub"]
    BY <1>1, <2>1
  <2> QED
    BY <1>1, <1>2, <2>2 DEF Terminal
<1>3. CASE proc[p].file = "pub"
  <2>1. Goto(p, "access")
    BY <1>3 DEF RenameTmp
  <2> QED
    BY <1>3, <2>1, AfterGoto
<1>4. CASE proc[p].file = "config"
  <2>1. Exit(p)
    BY <1>4 DEF RenameTmp
  <2> QED
    BY <1>4, <2>1, AfterExit
<1> QED
  BY <1>1, <1>2, <1>3, <1>4 DEF Terminal, Saved

\* And the reading of known_peers.toml.
LEMMA AfterLoad ==
  ASSUME TypeOK, NEW p \in Process, LoadKnownPeers(p)
  PROVE  \/ proc'[p] = Idle /\ raced' = raced
         \/ /\ Parses(KnownText) /\ Find(KnownPeers, Peer(p)) = {}
            /\ proc'[p].at = "truncate"
            /\ proc'[p].name = proc[p].name /\ proc'[p].code = proc[p].code
            /\ proc'[p].draft = VerifyPeerTrust(AddPeerFromInvite(KnownPeers, Peer(p)), Peer(p))
            /\ raced' = raced \cup (IF \E o \in Others(p) : Saving(o) THEN {"known"} ELSE {})
<1> DEFINE draft == VerifyPeerTrust(AddPeerFromInvite(KnownPeers, Peer(p)), Peer(p))
<1>1. proc \in [Process -> Terminal] /\ proc[p] \in Terminal
  BY DEF TypeOK
<1>2. CASE ~Parses(KnownText) \/ Find(KnownPeers, Peer(p)) # {}
  BY <1>2, AfterExit DEF LoadKnownPeers
<1>3. CASE ~(~Parses(KnownText) \/ Find(KnownPeers, Peer(p)) # {})
  <2>1. /\ proc' = [proc EXCEPT ![p].at = "truncate", ![p].draft = draft]
        /\ raced' = raced \cup (IF \E o \in Others(p) : Saving(o) THEN {"known"} ELSE {})
    BY <1>3 DEF LoadKnownPeers
  <2> HIDE DEF draft
  <2>2. proc'[p] = [proc[p] EXCEPT !.at = "truncate", !.draft = draft]
    BY <1>1, <2>1
  <2>3. /\ proc'[p].at = "truncate" /\ proc'[p].draft = draft
        /\ proc'[p].name = proc[p].name /\ proc'[p].code = proc[p].code
    BY <1>1, <2>2 DEF Terminal
  <2> QED
    BY <1>3, <2>1, <2>3 DEF draft
<1> QED
  BY <1>2, <1>3

\* One step for each action that moves a terminal.
LEMMA PhasesStep ==
  ASSUME TypeOK, Phases, NEW p \in Process, Step(p)
  PROVE  Phases'
<1> DEFINE PhaseOf(q) ==
      /\ At(q, "idle") => Running(q, "none")
      /\ At(q, "identity") => ~Running(q, "none")
      /\ proc[q].at \in {"open", "write", "rename", "access"} => Running(q, "init")
      /\ proc[q].at \in {"config", "server"} => proc[q].name \in {"invite", "accept"}
      /\ At(q, "server") /\ Running(q, "accept") => proc[q].code \in Codes
      /\ proc[q].at \in {"confirm", "alias", "truncate", "save"} =>
           Running(q, "accept") /\ proc[q].code \in Codes
<1>0. proc \in [Process -> Terminal] /\ proc[p] \in Terminal /\ PhaseOf(p)
  BY DEF TypeOK, Phases
<1>1. SUFFICES PhaseOf(p)'
  <2>1. \A q \in Process : q # p => PhaseOf(q)'
    BY OthersStand DEF Phases, Running, At
  <2> QED
    BY <2>1 DEF Phases
<1>2. ASSUME NEW c \in Command, Start(p, c) PROVE PhaseOf(p)'
  BY <1>2, AfterStart DEF Running, At
<1>3. CASE proc' = [proc EXCEPT ![p] = Idle]
  BY <1>0, <1>3 DEF Idle, Running, At
<1>4. CASE Stop(p) \/ InitRefuses(p) \/ NoIdentity(p) \/ InviteCreate(p) \/ Decline(p)
             \/ WriteKnownPeers(p) \/ WriteFails(p)
  BY <1>3, <1>4 DEF Stop, InitRefuses, NoIdentity, InviteCreate, Decline, WriteKnownPeers, WriteFails, Exit
<1>5. CASE InitGenerates(p) \/ OpenTmp(p) \/ WriteTmp(p)
  BY <1>0, <1>5 DEF InitGenerates, OpenTmp, WriteTmp, Running, At, Terminal
<1>6. CASE RenameTmp(p)
  <2>1. Running(p, "init")
    BY <1>0, <1>6 DEF RenameTmp, At
  <2> QED
    BY <1>6, <2>1, AfterRename DEF Running, At, Idle
<1>7. CASE InitChecksConfig(p)
  BY <1>0, <1>3, <1>7 DEF InitChecksConfig, Exit, Running, At, Terminal
<1>8. CASE LoadIdentity(p)
  BY <1>0, <1>8 DEF LoadIdentity, Running, At, Terminal
<1>9. CASE LoadConfig(p)
  <2>1. CASE Exit(p)
    BY <1>3, <2>1 DEF Exit
  <2>2. CASE ~Exit(p)
    <3>1. Goto(p, "server") /\ proc[p].at = "config" /\ ~(Running(p, "accept") /\ proc[p].code = NotACode)
      BY <1>9, <2>2 DEF LoadConfig, At
    <3>2. Running(p, "accept") => proc[p].code \in Codes
      BY <1>0, <3>1 DEF Terminal
    <3> QED
      BY <1>0, <3>1, <3>2, AfterGoto DEF Running, At
  <2> QED
    BY <2>1, <2>2
<1>10. ASSUME NEW answered \in BOOLEAN, InviteRedeem(p, answered) PROVE PhaseOf(p)'
  <2>1. CASE Exit(p)
    BY <1>3, <2>1 DEF Exit
  <2>2. CASE Goto(p, "confirm")
    BY <1>0, <1>10, <2>2, AfterGoto DEF InviteRedeem, Running, At
  <2> QED
    BY <1>10, <2>1, <2>2 DEF InviteRedeem
<1>11. CASE Confirm(p)
  BY <1>0, <1>11, AfterGoto DEF Confirm, Running, At
<1>13. CASE OpenKnownPeers(p)
  BY <1>0, <1>13 DEF OpenKnownPeers, Running, At, Terminal
<1>12. CASE LoadKnownPeers(p)
  BY <1>0, <1>12, AfterLoad DEF LoadKnownPeers, Running, At, Idle
<1> QED
  BY <1>2, <1>4, <1>5, <1>6, <1>7, <1>8, <1>9, <1>10, <1>11, <1>12, <1>13 DEF Step

\* The steps that open, rename or write a file.
Touches(p) ==
  OpenTmp(p) \/ WriteTmp(p) \/ RenameTmp(p) \/ OpenKnownPeers(p) \/ WriteKnownPeers(p) \/ WriteFails(p)

\* After any other step the directory is as it was, and the terminal has no file open.
LEMMA TouchesNothing ==
  ASSUME TypeOK, Phases, NEW p \in Process, Step(p), ~Touches(p)
  PROVE  UNCHANGED files /\ proc'[p].at \notin {"write", "rename", "save"}
<1>0. proc \in [Process -> Terminal] /\ proc[p] \in Terminal
  BY DEF TypeOK
<1>1. ASSUME NEW c \in Command, Start(p, c) PROVE UNCHANGED files /\ proc'[p].at \notin {"write", "rename", "save"}
  BY <1>0, <1>1 DEF Start, Idle
<1>2. CASE Stop(p) \/ InitRefuses(p) \/ NoIdentity(p) \/ InviteCreate(p) \/ Decline(p)
  BY <1>0, <1>2 DEF Stop, InitRefuses, NoIdentity, InviteCreate, Decline, Exit, Idle
<1>3. CASE InitGenerates(p) \/ LoadIdentity(p) \/ Confirm(p)
  BY <1>0, <1>3 DEF InitGenerates, LoadIdentity, Confirm, Goto, Terminal
<1>4. CASE InitChecksConfig(p) \/ LoadConfig(p) \/ LoadKnownPeers(p)
  BY <1>0, <1>4 DEF InitChecksConfig, LoadConfig, LoadKnownPeers, Goto, Exit, Idle, Terminal
<1>5. ASSUME NEW answered \in BOOLEAN, InviteRedeem(p, answered)
      PROVE  UNCHANGED files /\ proc'[p].at \notin {"write", "rename", "save"}
  BY <1>0, <1>5 DEF InviteRedeem, Goto, Exit, Idle, Terminal
<1> QED
  BY <1>1, <1>2, <1>3, <1>4, <1>5 DEF Step, Touches

LEMMA NoAliasInit == Init => NoAlias
<1> SUFFICES ASSUME Init PROVE NoAlias
  OBVIOUS
<1>1. \A q \in Process : proc[q].at = "idle"
  BY DEF Init, Idle
<1>2. \A f \in Saved : tmp[f] = NoFile
  BY DEF Init
<1>3. \A f, g \in File : f # g /\ Exists(f) => final[f] # final[g]
  <2>1. PICK setUp \in BOOLEAN, typed \in {Empty} \cup {<<e>> : e \in [peer_id : Peers, trust : {"tofu"}]} :
          final = [f \in File |-> IF setUp /\ (f = "known" => typed # Empty)
                                    THEN [key |-> 1, pub |-> 2, config |-> 3, known |-> 4][f] ELSE NoFile]
    BY DEF Init
  <2> QED
    BY <2>1 DEF File, Saved, Exists, NoFile
<1> QED
  BY <1>1, <1>2, <1>3 DEF NoAlias, At

\* Only the four file operations give a name to an inode or take one away.
LEMMA NoAliasStep ==
  ASSUME TypeOK, Phases, NoAlias, NEW p \in Process, Step(p)
  PROVE  NoAlias'
<1>0. proc \in [Process -> Terminal] /\ proc[p] \in Terminal /\ proc[p].file \in Saved
  BY DEF TypeOK, Terminal
<1>1. \A q \in Process : q # p => proc'[q] = proc[q]
  BY OthersStand
<1>00. final \in [File -> Inode \cup {NoFile}] /\ tmp \in [Saved -> Inode \cup {NoFile}]
  BY DEF TypeOK
<1>2. CASE ~Touches(p)
  BY <1>1, <1>2, TouchesNothing DEF NoAlias, At, Exists, files
<1>3. CASE OpenTmp(p)
  <2> DEFINE f == proc[p].file
  <2> DEFINE i == IF tmp[f] = NoFile THEN NewInode ELSE tmp[f]
  <2>1. /\ f \in Saved /\ i \in Inode /\ i # NoFile
        /\ \A g \in File : i # final[g]
        /\ \A g \in Saved \ {f} : i # tmp[g]
        /\ \A q \in Process : At(q, "write") /\ proc[q].file # f => i # proc[q].fd
        /\ \A q \in Process : At(q, "save") => i # proc[q].fd
    BY <1>3, OpenTmpInode
  <2>2. /\ tmp' = [tmp EXCEPT ![f] = i] /\ final' = final
        /\ proc' = [proc EXCEPT ![p].at = "write", ![p].fd = i]
    BY <1>3 DEF OpenTmp
  <2>3. proc'[p].at = "write" /\ proc'[p].fd = i /\ proc'[p].file = f
    BY <1>0, <2>2 DEF Terminal
  <2>4. tmp'[f] = i /\ \A g \in Saved : g # f => tmp'[g] = tmp[g]
    BY <2>1, <2>2, <1>00
  <2> HIDE DEF i, f
  <2>5. \A g, h \in File : g # h /\ Exists(g)' => final'[g] # final'[h]
    BY <2>2 DEF NoAlias, Exists
  <2>6. \A g \in Saved, h \in File : tmp'[g] # NoFile => tmp'[g] # final'[h]
    BY <2>1, <2>2, <2>4 DEF NoAlias
  <2>7. \A g, h \in Saved : g # h /\ tmp'[g] # NoFile => tmp'[g] # tmp'[h]
    BY <2>1, <2>4 DEF NoAlias
  <2>8. ASSUME NEW q \in Process, At(q, "write")'
        PROVE  /\ proc'[q].fd # NoFile
               /\ \A g \in File \ {proc'[q].file} : proc'[q].fd # final'[g]
               /\ \A g \in Saved \ {proc'[q].file} : proc'[q].fd # tmp'[g]
    <3>1. CASE q = p
      <4>1. proc'[q].fd = i /\ proc'[q].file = f
        BY <2>3, <3>1
      <4>2. final' = final
        BY <2>2
      <4>3. \A g \in Saved \ {f} : i # tmp'[g]
        BY <2>1, <2>4
      <4> QED
        BY <2>1, <4>1, <4>2, <4>3
    <3>2. CASE q # p
      <4>1. proc'[q] = proc[q] /\ At(q, "write")
        BY <1>1, <2>8, <3>2 DEF At
      <4>2. /\ proc[q].fd # NoFile
            /\ \A g \in File \ {proc[q].file} : proc[q].fd # final[g]
            /\ \A g \in Saved \ {proc[q].file} : proc[q].fd # tmp[g]
        BY <4>1 DEF NoAlias
      <4> QED
        BY <2>1, <2>2, <2>4, <4>1, <4>2
    <3> QED
      BY <3>1, <3>2
  <2>9. \A q \in Process : At(q, "save")' => Exists("known")' /\ proc'[q].fd = final'["known"]
    BY <1>1, <2>2, <2>3 DEF NoAlias, At, Exists
  <2> QED
    BY <2>5, <2>6, <2>7, <2>8, <2>9 DEF NoAlias
<1>4. CASE WriteTmp(p)
  <2>1. proc'[p].at = "rename" /\ UNCHANGED <<final, tmp>>
    BY <1>0, <1>4 DEF WriteTmp, Terminal
  <2> QED
    BY <1>1, <2>1 DEF NoAlias, At, Exists
<1>5. CASE RenameTmp(p)
  <2> DEFINE f == proc[p].file
  <2>1. /\ final' = [final EXCEPT ![f] = tmp[f]] /\ tmp' = [tmp EXCEPT ![f] = NoFile]
        /\ tmp[f] # NoFile
    BY <1>5 DEF RenameTmp
  <2>2. proc'[p].at \notin {"write", "save"}
    BY <1>5, AfterRename DEF Idle
  <2>3. /\ final'[f] = tmp[f] /\ \A g \in File : g # f => final'[g] = final[g]
        /\ tmp'[f] = NoFile /\ \A g \in Saved : g # f => tmp'[g] = tmp[g]
    BY <1>0, <2>1, <1>00 DEF File
  <2>4. f \in Saved /\ f \in File /\ f # "known" /\ "known" \in File /\ Saved \subseteq File
    BY <1>0 DEF File, Saved
  <2> HIDE DEF f
  <2>5. \A g, h \in File : g # h /\ Exists(g)' => final'[g] # final'[h]
    BY <2>1, <2>3, <2>4 DEF NoAlias, Exists
  <2>6. \A g \in Saved, h \in File : tmp'[g] # NoFile => tmp'[g] # final'[h]
    BY <2>1, <2>3, <2>4 DEF NoAlias
  <2>7. \A g, h \in Saved : g # h /\ tmp'[g] # NoFile => tmp'[g] # tmp'[h]
    BY <2>1, <2>3, <2>4 DEF NoAlias
  <2>8. ASSUME NEW q \in Process, At(q, "write")'
        PROVE  /\ proc'[q].fd # NoFile
               /\ \A g \in File \ {proc'[q].file} : proc'[q].fd # final'[g]
               /\ \A g \in Saved \ {proc'[q].file} : proc'[q].fd # tmp'[g]
    <3>1. proc'[q] = proc[q] /\ At(q, "write")
      BY <1>1, <2>2, <2>8 DEF At
    <3>2. /\ proc[q].fd # NoFile
          /\ \A g \in File \ {proc[q].file} : proc[q].fd # final[g]
          /\ \A g \in Saved \ {proc[q].file} : proc[q].fd # tmp[g]
      BY <3>1 DEF NoAlias
    <3> QED
      BY <2>3, <2>4, <3>1, <3>2
  <2>9. \A q \in Process : At(q, "save")' => Exists("known")' /\ proc'[q].fd = final'["known"]
    BY <1>1, <2>2, <2>3, <2>4 DEF NoAlias, At, Exists
  <2> QED
    BY <2>5, <2>6, <2>7, <2>8, <2>9 DEF NoAlias
<1>6. CASE OpenKnownPeers(p)
  <2> DEFINE i == IF Exists("known") THEN final["known"] ELSE NewInode
  <2>1. /\ i \in Inode /\ i # NoFile
        /\ \A g \in File \ {"known"} : i # final[g]
        /\ \A g \in Saved : i # tmp[g]
        /\ \A q \in Process : At(q, "write") => i # proc[q].fd
        /\ \A q \in Process : At(q, "save") => i = proc[q].fd
    BY <1>6, OpenKnownInode
  <2>2. /\ final' = [final EXCEPT !["known"] = i] /\ tmp' = tmp
        /\ proc' = [proc EXCEPT ![p].at = "save", ![p].fd = i]
    BY <1>6 DEF OpenKnownPeers
  <2>3. proc'[p].at = "save" /\ proc'[p].fd = i
    BY <1>0, <2>2 DEF Terminal
  <2>4. "known" \in File /\ "known" \notin Saved
    BY DEF File, Saved
  <2>5. final'["known"] = i /\ \A g \in File : g # "known" => final'[g] = final[g]
    BY <2>2, <2>4, <1>00
  <2> HIDE DEF i
  <2>6. \A g, h \in File : g # h /\ Exists(g)' => final'[g] # final'[h]
    BY <2>1, <2>4, <2>5 DEF NoAlias, Exists
  <2>7. \A g \in Saved, h \in File : tmp'[g] # NoFile => tmp'[g] # final'[h]
    BY <2>1, <2>2, <2>5 DEF NoAlias
  <2>8. \A g, h \in Saved : g # h /\ tmp'[g] # NoFile => tmp'[g] # tmp'[h]
    BY <2>2 DEF NoAlias
  <2>9. ASSUME NEW q \in Process, At(q, "write")'
        PROVE  /\ proc'[q].fd # NoFile
               /\ \A g \in File \ {proc'[q].file} : proc'[q].fd # final'[g]
               /\ \A g \in Saved \ {proc'[q].file} : proc'[q].fd # tmp'[g]
    <3>1. proc'[q] = proc[q] /\ At(q, "write")
      BY <1>1, <2>3, <2>9 DEF At
    <3>2. /\ proc[q].fd # NoFile
          /\ \A g \in File \ {proc[q].file} : proc[q].fd # final[g]
          /\ \A g \in Saved \ {proc[q].file} : proc[q].fd # tmp[g]
      BY <3>1 DEF NoAlias
    <3> QED
      BY <2>1, <2>2, <2>5, <3>1, <3>2
  <2>10. \A q \in Process : At(q, "save")' => Exists("known")' /\ proc'[q].fd = final'["known"]
    BY <1>1, <2>1, <2>3, <2>5 DEF NoAlias, At, Exists
  <2> QED
    BY <2>6, <2>7, <2>8, <2>9, <2>10 DEF NoAlias
<1>7. CASE WriteKnownPeers(p) \/ WriteFails(p)
  <2>1. proc'[p].at = "idle" /\ UNCHANGED <<final, tmp>>
    BY <1>0, <1>7 DEF WriteKnownPeers, WriteFails, Exit, Idle
  <2> QED
    BY <1>1, <2>1 DEF NoAlias, At, Exists
<1> QED
  BY <1>2, <1>3, <1>4, <1>5, <1>6, <1>7 DEF Touches

LEMMA NoAliasEdit ==
  ASSUME TypeOK, Phases, NoAlias, EditConfig
  PROVE  NoAlias'
<1> DEFINE i == IF Exists("config") THEN final["config"] ELSE NewInode
<1>1. /\ i \in Inode /\ i # NoFile
      /\ \A g \in File \ {"config"} : i # final[g]
      /\ \A g \in Saved : i # tmp[g]
      /\ \A q \in Process : ~At(q, "write")
      /\ \A q \in Process : At(q, "save") => i # proc[q].fd
  BY EditConfigInode
<1>2. final' = [final EXCEPT !["config"] = i] /\ tmp' = tmp /\ proc' = proc
  BY DEF EditConfig
<1>3. "config" \in File /\ "known" \in File
  BY DEF File, Saved
<1>4. final'["config"] = i /\ \A g \in File : g # "config" => final'[g] = final[g]
  BY <1>2, <1>3 DEF TypeOK
<1> HIDE DEF i
<1>5. \A g, h \in File : g # h /\ Exists(g)' => final'[g] # final'[h]
  BY <1>1, <1>4 DEF NoAlias, Exists
<1>6. \A g \in Saved, h \in File : tmp'[g] # NoFile => tmp'[g] # final'[h]
  BY <1>1, <1>2, <1>4 DEF NoAlias
<1>7. \A g, h \in Saved : g # h /\ tmp'[g] # NoFile => tmp'[g] # tmp'[h]
  BY <1>2 DEF NoAlias
<1>8. \A q \in Process : At(q, "save")' => Exists("known")' /\ proc'[q].fd = final'["known"]
  BY <1>2, <1>3, <1>4 DEF NoAlias, At, Exists
<1>9. \A q \in Process : ~At(q, "write")'
  BY <1>1, <1>2 DEF At
<1> QED
  BY <1>5, <1>6, <1>7, <1>8, <1>9 DEF NoAlias

-----------------------------------------------------------------------------
(* What a step does to the contents of the files.                          *)

\* A step leaves a file, or its .tmp, as it is.
Same(f) == final'[f] = final[f] /\ (Exists(f) => Content(f)' = Content(f))
SameTmp(f) == tmp'[f] = tmp[f] /\ (tmp[f] # NoFile => disk'[tmp[f]] = disk[tmp[f]])

\* What the file operations do to the names and what they hold.
LEMMA UntouchedContents ==
  ASSUME UNCHANGED files
  PROVE  (\A g \in File : Same(g)) /\ (\A g \in Saved : SameTmp(g))
BY DEF files, Same, SameTmp, Exists, Content

LEMMA OpenTmpContents ==
  ASSUME TypeOK, NoAlias, NEW p \in Process, OpenTmp(p)
  PROVE  LET f == proc[p].file IN
           /\ \A g \in File : Same(g)
           /\ \A g \in Saved \ {f} : SameTmp(g)
           /\ f \in Saved /\ tmp'[f] # NoFile /\ disk'[tmp'[f]] = Empty
           /\ proc'[p].at = "write" /\ proc'[p].fd = tmp'[f] /\ proc'[p].file = f
           /\ proc'[p].name = proc[p].name /\ proc'[p].self = proc[p].self
           /\ proc'[p].force = proc[p].force
<1> DEFINE f == proc[p].file
<1> DEFINE i == IF tmp[f] = NoFile THEN NewInode ELSE tmp[f]
<1>1. /\ f \in Saved /\ i \in Inode /\ i # NoFile
      /\ \A g \in File : i # final[g]
      /\ \A g \in Saved \ {f} : i # tmp[g]
  BY OpenTmpInode
<1>2. /\ tmp' = [tmp EXCEPT ![f] = i] /\ final' = final
      /\ disk' = [disk EXCEPT ![i] = Empty]
      /\ proc' = [proc EXCEPT ![p].at = "write", ![p].fd = i]
  BY DEF OpenTmp
<1> HIDE DEF i
<1>3. /\ final \in [File -> Inode \cup {NoFile}] /\ tmp \in [Saved -> Inode \cup {NoFile}]
      /\ disk = [j \in Inode |-> disk[j]] /\ proc[p] \in Terminal
  BY DEF TypeOK
<1>4. tmp'[f] = i /\ \A g \in Saved : g # f => tmp'[g] = tmp[g]
  BY <1>1, <1>2, <1>3
<1>5. disk'[i] = Empty /\ \A j \in Inode : j # i => disk'[j] = disk[j]
  BY <1>1, <1>2, <1>3
<1>6. proc'[p] = [proc[p] EXCEPT !.at = "write", !.fd = i]
  BY <1>2 DEF TypeOK
<1>7. /\ proc'[p].at = "write" /\ proc'[p].fd = i /\ proc'[p].file = f
      /\ proc'[p].name = proc[p].name /\ proc'[p].self = proc[p].self /\ proc'[p].force = proc[p].force
  BY <1>3, <1>6 DEF Terminal
<1>8. \A g \in File : Same(g)
  BY <1>1, <1>2, <1>3, <1>5 DEF Same, Exists, Content
<1>9. \A g \in Saved \ {f} : SameTmp(g)
  BY <1>1, <1>3, <1>4, <1>5 DEF SameTmp
<1> QED
  BY <1>1, <1>4, <1>5, <1>7, <1>8, <1>9

LEMMA WriteTmpContents ==
  ASSUME TypeOK, NoAlias, NEW p \in Process, WriteTmp(p)
  PROVE  LET f == proc[p].file IN
           /\ \A g \in File \ {f} : Same(g)
           /\ \A g \in Saved \ {f} : SameTmp(g)
           /\ f \in Saved /\ final' = final /\ tmp' = tmp
           /\ \A i \in Inode : disk'[i] = IF i = proc[p].fd THEN Text(p) ELSE disk[i]
           /\ proc'[p].at = "rename" /\ proc'[p].file = f
           /\ proc'[p].name = proc[p].name /\ proc'[p].self = proc[p].self
           /\ proc'[p].force = proc[p].force
<1> DEFINE f == proc[p].file
<1>1. /\ final' = final /\ tmp' = tmp
      /\ disk' = [disk EXCEPT ![proc[p].fd] = Text(p)]
      /\ proc' = [proc EXCEPT ![p].at = "rename", ![p].fd = NoFile]
  BY DEF WriteTmp, Text
<1>2. /\ final \in [File -> Inode \cup {NoFile}] /\ tmp \in [Saved -> Inode \cup {NoFile}]
      /\ disk = [j \in Inode |-> disk[j]] /\ proc[p] \in Terminal
  BY DEF TypeOK
<1>3. f \in Saved
  BY <1>2 DEF Terminal
<1>4. \A i \in Inode : disk'[i] = IF i = proc[p].fd THEN Text(p) ELSE disk[i]
  BY <1>1, <1>2
<1>5. /\ \A g \in File \ {f} : proc[p].fd # final[g]
      /\ \A g \in Saved \ {f} : proc[p].fd # tmp[g]
  BY DEF WriteTmp, NoAlias
<1>6. proc'[p] = [proc[p] EXCEPT !.at = "rename", !.fd = NoFile]
  BY <1>1 DEF TypeOK
<1>7. /\ proc'[p].at = "rename" /\ proc'[p].file = f
      /\ proc'[p].name = proc[p].name /\ proc'[p].self = proc[p].self /\ proc'[p].force = proc[p].force
  BY <1>2, <1>6 DEF Terminal
<1>8. \A g \in File \ {f} : Same(g)
  BY <1>1, <1>2, <1>4, <1>5 DEF Same, Exists, Content
<1>9. \A g \in Saved \ {f} : SameTmp(g)
  BY <1>1, <1>2, <1>4, <1>5 DEF SameTmp
<1> QED
  BY <1>1, <1>3, <1>4, <1>7, <1>8, <1>9

LEMMA RenameTmpContents ==
  ASSUME TypeOK, NEW p \in Process, RenameTmp(p)
  PROVE  LET f == proc[p].file IN
           /\ \A g \in File \ {f} : Same(g)
           /\ \A g \in Saved \ {f} : SameTmp(g)
           /\ f \in Saved /\ tmp[f] # NoFile /\ final'[f] = tmp[f] /\ tmp'[f] = NoFile
           /\ disk' = disk
<1> DEFINE f == proc[p].file
<1>1. /\ final' = [final EXCEPT ![f] = tmp[f]] /\ tmp' = [tmp EXCEPT ![f] = NoFile]
      /\ tmp[f] # NoFile /\ disk' = disk
  BY DEF RenameTmp
<1>2. final \in [File -> Inode \cup {NoFile}] /\ tmp \in [Saved -> Inode \cup {NoFile}] /\ f \in Saved
  BY DEF TypeOK, Terminal
<1>3. /\ final'[f] = tmp[f] /\ \A g \in File : g # f => final'[g] = final[g]
      /\ tmp'[f] = NoFile /\ \A g \in Saved : g # f => tmp'[g] = tmp[g]
  BY <1>1, <1>2 DEF File
<1> QED
  BY <1>1, <1>2, <1>3 DEF Same, SameTmp, Exists, Content

\* A write to known_peers.toml reaches no other file.
LEMMA KnownContents ==
  ASSUME TypeOK, NoAlias, NEW p \in Process,
         OpenKnownPeers(p) \/ WriteKnownPeers(p) \/ WriteFails(p)
  PROVE  (\A g \in Saved : Same(g)) /\ (\A g \in Saved : SameTmp(g))
<1>1. /\ final \in [File -> Inode \cup {NoFile}] /\ tmp \in [Saved -> Inode \cup {NoFile}]
      /\ disk = [j \in Inode |-> disk[j]] /\ Saved \subseteq File /\ "known" \in File /\ "known" \notin Saved
  BY DEF TypeOK, File, Saved
<1>2. CASE OpenKnownPeers(p)
  <2> DEFINE i == IF Exists("known") THEN final["known"] ELSE NewInode
  <2>1. /\ i \in Inode /\ i # NoFile
        /\ \A g \in File \ {"known"} : i # final[g]
        /\ \A g \in Saved : i # tmp[g]
    BY <1>2, OpenKnownInode
  <2>2. final' = [final EXCEPT !["known"] = i] /\ tmp' = tmp /\ disk' = [disk EXCEPT ![i] = Empty]
    BY <1>2 DEF OpenKnownPeers
  <2> HIDE DEF i
  <2>3. \A g \in Saved : final'[g] = final[g]
    BY <1>1, <2>2
  <2>4. \A j \in Inode : j # i => disk'[j] = disk[j]
    BY <1>1, <2>1, <2>2
  <2> QED
    BY <1>1, <2>1, <2>2, <2>3, <2>4 DEF Same, SameTmp, Exists, Content
<1>3. CASE WriteKnownPeers(p) \/ WriteFails(p)
  <2>1. Exists("known") /\ proc[p].fd = final["known"]
    BY <1>3 DEF WriteKnownPeers, WriteFails, NoAlias
  <2>2. final' = final /\ tmp' = tmp
    BY <1>3 DEF WriteKnownPeers, WriteFails
  <2>3. \A j \in Inode : j # proc[p].fd => disk'[j] = disk[j]
    BY <1>1, <1>3 DEF WriteKnownPeers, WriteFails
  <2>4. /\ \A g \in Saved : final[g] # proc[p].fd
        /\ \A g \in Saved : tmp[g] # NoFile => tmp[g] # proc[p].fd
    BY <1>1, <2>1 DEF NoAlias
  <2> QED
    BY <1>1, <2>2, <2>3, <2>4 DEF Same, SameTmp, Exists, Content
<1> QED
  BY <1>2, <1>3

LEMMA EditContents ==
  ASSUME TypeOK, Phases, NoAlias, EditConfig
  PROVE  /\ \A g \in File \ {"config"} : Same(g)
         /\ \A g \in Saved : SameTmp(g)
         /\ Exists("config")' /\ Content("config")' = Edited
<1> DEFINE i == IF Exists("config") THEN final["config"] ELSE NewInode
<1>1. /\ i \in Inode /\ i # NoFile
      /\ \A g \in File \ {"config"} : i # final[g]
      /\ \A g \in Saved : i # tmp[g]
  BY EditConfigInode
<1>2. final' = [final EXCEPT !["config"] = i] /\ tmp' = tmp /\ disk' = [disk EXCEPT ![i] = Edited]
  BY DEF EditConfig
<1> HIDE DEF i
<1>3. /\ final \in [File -> Inode \cup {NoFile}] /\ tmp \in [Saved -> Inode \cup {NoFile}]
      /\ disk = [j \in Inode |-> disk[j]] /\ "config" \in File
  BY DEF TypeOK, File, Saved
<1>4. final'["config"] = i /\ \A g \in File \ {"config"} : final'[g] = final[g]
  BY <1>2, <1>3
<1>5. disk'[i] = Edited /\ \A j \in Inode : j # i => disk'[j] = disk[j]
  BY <1>1, <1>2, <1>3
<1> QED
  BY <1>1, <1>2, <1>3, <1>4, <1>5 DEF Same, SameTmp, Exists, Content

-----------------------------------------------------------------------------
(* The key file.                                                           *)

LEMMA KeyTextsInit == Init => KeyTexts
<1> SUFFICES ASSUME Init PROVE KeyTexts
  OBVIOUS
<1>1. tmp["key"] = NoFile
  BY DEF Init, Saved
<1>2. Exists("key") => Content("key") \in Seq(Nat)
  <2>1. PICK setUp \in BOOLEAN, typed \in {Empty} \cup {<<e>> : e \in [peer_id : Peers, trust : {"tofu"}]} :
          /\ final = [f \in File |-> IF setUp /\ (f = "known" => typed # Empty)
                                       THEN [key |-> 1, pub |-> 2, config |-> 3, known |-> 4][f] ELSE NoFile]
          /\ disk = [i \in Inode |-> CASE setUp /\ i \in {1, 2} -> <<1>>
                                       [] setUp /\ i = 3 -> Edited
                                       [] i = 4 -> SerializeKnownPeers(typed)
                                       [] OTHER -> Empty]
    BY DEF Init
  <2>2. CASE setUp
    <3>1. final["key"] = 1
      BY <2>1, <2>2 DEF File, Saved
    <3>2. 1 \in Inode
      <4>1. final["key"] \in Inode \cup {NoFile}
        BY TypeInit DEF TypeOK, File, Saved
      <4> QED
        BY <3>1, <4>1 DEF NoFile
    <3> QED
      BY <2>1, <2>2, <3>1, <3>2 DEF Content
  <2>3. CASE ~setUp
    BY <2>1, <2>3 DEF Exists, File, Saved
  <2> QED
    BY <2>2, <2>3
<1> QED
  BY <1>1, <1>2 DEF KeyTexts

\* Whoever writes identity.key or its .tmp empties it or writes a key.
LEMMA KeyTextsStep ==
  ASSUME TypeOK, KeyTexts, Phases, NoAlias, NEW p \in Process, Step(p)
  PROVE  KeyTexts'
<1>0. "key" \in Saved /\ "key" \in File
  BY DEF Saved, File
<1>1. CASE Same("key") /\ SameTmp("key")
  BY <1>1 DEF Same, SameTmp, KeyTexts, Exists
<1>2. CASE ~Touches(p)
  BY <1>0, <1>1, <1>2, TouchesNothing, UntouchedContents
<1>3. CASE OpenTmp(p)
  <2>1. CASE proc[p].file = "key"
    <3>1. Same("key") /\ disk'[tmp'["key"]] = Empty
      BY <1>0, <1>3, <2>1, OpenTmpContents
    <3> QED
      BY <3>1 DEF Same, KeyTexts, Exists, Empty
  <2>2. CASE proc[p].file # "key"
    BY <1>0, <1>1, <1>3, <2>2, OpenTmpContents
  <2> QED
    BY <2>1, <2>2
<1>4. CASE WriteTmp(p)
  <2>1. CASE proc[p].file = "key"
    <3>1. Text(p) \in Seq(Nat)
      BY <2>1 DEF Text, TypeOK, Terminal
    <3>2. /\ final' = final /\ tmp' = tmp
          /\ \A i \in Inode : disk'[i] = IF i = proc[p].fd THEN Text(p) ELSE disk[i]
      BY <1>4, WriteTmpContents
    <3>3. /\ Exists("key") => final["key"] \in Inode
          /\ tmp["key"] # NoFile => tmp["key"] \in Inode
      BY <1>0 DEF TypeOK, Exists
    <3> QED
      BY <3>1, <3>2, <3>3 DEF KeyTexts, Exists, Content
  <2>2. CASE proc[p].file # "key"
    BY <1>0, <1>1, <1>4, <2>2, WriteTmpContents
  <2> QED
    BY <2>1, <2>2
<1>5. CASE RenameTmp(p)
  <2>1. CASE proc[p].file = "key"
    <3>1. tmp["key"] # NoFile /\ final'["key"] = tmp["key"] /\ tmp'["key"] = NoFile /\ disk' = disk
      BY <1>5, <2>1, RenameTmpContents
    <3> QED
      BY <3>1 DEF KeyTexts, Exists, Content
  <2>2. CASE proc[p].file # "key"
    BY <1>0, <1>1, <1>5, <2>2, RenameTmpContents
  <2> QED
    BY <2>1, <2>2
<1>6. CASE OpenKnownPeers(p) \/ WriteKnownPeers(p) \/ WriteFails(p)
  BY <1>0, <1>1, <1>6, KnownContents
<1> QED
  BY <1>2, <1>3, <1>4, <1>5, <1>6 DEF Touches

LEMMA KeyTextsEdit ==
  ASSUME TypeOK, KeyTexts, Phases, NoAlias, EditConfig
  PROVE  KeyTexts'
<1>1. Same("key") /\ SameTmp("key")
  BY EditContents DEF Saved, File
<1> QED
  BY <1>1 DEF Same, SameTmp, KeyTexts, Exists

-----------------------------------------------------------------------------
(* known_peers.toml.                                                       *)

\* The steps that have to do with it.
Accepts(p) ==
  Confirm(p) \/ LoadKnownPeers(p) \/ OpenKnownPeers(p) \/ WriteKnownPeers(p) \/ WriteFails(p)

\* Any other step leaves known_peers.toml alone; one that ends a save is
\* recorded in cut.
LEMMA AcceptsNothing ==
  ASSUME TypeOK, Phases, NoAlias, NEW p \in Process, Step(p), ~Accepts(p)
  PROVE  /\ Same("known")
         /\ UNCHANGED <<confirmed, enrolled>>
         /\ proc'[p].at \notin {"alias", "truncate", "save"}
         /\ raced \subseteq raced' /\ ("known" \in cut => "known" \in cut')
         /\ At(p, "save") => "known" \in cut'
<1>0. "known" \in File /\ "known" \notin Saved /\ proc[p] \in Terminal /\ proc \in [Process -> Terminal]
  BY DEF File, Saved, TypeOK
<1> DEFINE Rest == /\ UNCHANGED <<confirmed, enrolled>>
                   /\ proc'[p].at \notin {"alias", "truncate", "save"}
                   /\ raced \subseteq raced' /\ ("known" \in cut => "known" \in cut')
                   /\ At(p, "save") => "known" \in cut'
<1>1. CASE ~Touches(p)
  <2>1. Same("known")
    BY <1>0, <1>1, TouchesNothing, UntouchedContents
  <2>2. ASSUME NEW c \in Command, Start(p, c) PROVE Rest
    BY <2>2, AfterStart DEF Start, history, At
  <2>3. CASE Stop(p)
    <3>1. proc'[p].at = "idle"
      BY <2>3, AfterExit DEF Stop, Idle
    <3> QED
      BY <2>1, <2>3, <3>1 DEF Stop
  <2>4. CASE InitRefuses(p) \/ NoIdentity(p) \/ InviteCreate(p) \/ Decline(p)
    <3>1. Exit(p) /\ ~At(p, "save") /\ UNCHANGED <<confirmed, enrolled, raced, cut>>
      BY <2>4 DEF InitRefuses, NoIdentity, InviteCreate, Decline, history, At
    <3>2. proc'[p].at = "idle"
      BY <3>1, AfterExit DEF Idle
    <3> QED
      BY <2>1, <3>1, <3>2
  <2>5. CASE InitGenerates(p) \/ LoadIdentity(p)
    <3>1. proc'[p].at \in {"open", "config"}
      BY <1>0, <2>5 DEF InitGenerates, LoadIdentity, Terminal
    <3> QED
      BY <2>1, <2>5, <3>1 DEF InitGenerates, LoadIdentity, At, history
  <2>6. CASE InitChecksConfig(p)
    <3>1. Exit(p) \/ proc' = [proc EXCEPT ![p].at = "open", ![p].file = "config"]
      BY <2>6 DEF InitChecksConfig
    <3>2. proc'[p].at \in {"idle", "open"}
      BY <1>0, <3>1, AfterExit DEF Idle, Terminal
    <3> QED
      BY <2>1, <2>6, <3>2 DEF InitChecksConfig, At
  <2>7. CASE LoadConfig(p)
    <3>1. Exit(p) \/ Goto(p, "server")
      BY <2>7 DEF LoadConfig
    <3>2. proc'[p].at \in {"idle", "server"}
      BY <3>1, AfterExit, AfterGoto DEF Idle
    <3> QED
      BY <2>1, <2>7, <3>2 DEF LoadConfig, At, history
  <2>8. ASSUME NEW answered \in BOOLEAN, InviteRedeem(p, answered) PROVE Rest
    <3>1. Exit(p) \/ Goto(p, "confirm")
      BY <2>8 DEF InviteRedeem
    <3>2. proc'[p].at \in {"idle", "confirm"}
      BY <3>1, AfterExit, AfterGoto DEF Idle
    <3> QED
      BY <2>8, <3>2 DEF InviteRedeem, At
  <2> QED
    BY <1>1, <2>1, <2>2, <2>3, <2>4, <2>5, <2>6, <2>7, <2>8 DEF Step, Touches, Accepts
<1>2. CASE OpenTmp(p)
  <2>1. Same("known") /\ proc'[p].at = "write"
    BY <1>0, <1>2, OpenTmpContents
  <2> QED
    BY <1>2, <2>1 DEF OpenTmp, history, At
<1>3. CASE WriteTmp(p)
  <2>1. Same("known") /\ proc'[p].at = "rename"
    BY <1>0, <1>3, WriteTmpContents
  <2> QED
    BY <1>3, <2>1 DEF WriteTmp, history, At
<1>4. CASE RenameTmp(p)
  <2>1. Same("known")
    BY <1>0, <1>4, RenameTmpContents
  <2>2. proc'[p].at \in {"open", "access", "idle"}
    BY <1>4, AfterRename DEF Idle
  <2>3. "known" \in cut => "known" \in cut'
    BY <1>4 DEF RenameTmp
  <2> QED
    BY <1>4, <2>1, <2>2, <2>3 DEF RenameTmp, At
<1> QED
  BY <1>1, <1>2, <1>3, <1>4 DEF Touches, Accepts

\* As long as known_peers.toml is the same, so are the known peers.
LEMMA SameKnownPeers ==
  ASSUME Same("known") \/ UNCHANGED files
  PROVE  KnownText' = KnownText /\ KnownPeers' = KnownPeers
<1>1. KnownText' = KnownText
  BY DEF Same, KnownText, Exists, Content, files
<1> QED
  BY <1>1 DEF KnownPeers

\* What a save does to the file.
LEMMA SaveContents ==
  ASSUME TypeOK, NoAlias, NEW p \in Process, WriteKnownPeers(p) \/ WriteFails(p)
  PROVE  /\ Exists("known") /\ final' = final
         /\ disk[proc[p].fd] = KnownText
         /\ WriteKnownPeers(p) =>
              KnownText' \in Overlaid(SerializeKnownPeers(proc[p].draft), KnownText)
         /\ WriteFails(p) =>
              \E part \in Cuts(SerializeKnownPeers(proc[p].draft)) : KnownText' \in Overlaid(part, KnownText)
<1> DEFINE new == SerializeKnownPeers(proc[p].draft)
<1>1. Exists("known") /\ proc[p].fd = final["known"] /\ final["known"] \in Inode
  BY DEF WriteKnownPeers, WriteFails, NoAlias, TypeOK, File, Exists
<1>2. final' = final
  BY DEF WriteKnownPeers, WriteFails
<1>3. ASSUME NEW text, disk' = [disk EXCEPT ![proc[p].fd] = text]
      PROVE  KnownText' = text
  BY <1>1, <1>2, <1>3 DEF KnownText, Exists, Content, TypeOK
<1>4. disk[proc[p].fd] = KnownText
  BY <1>1 DEF KnownText, Content
<1> HIDE DEF new
<1>5. ASSUME WriteKnownPeers(p) PROVE KnownText' \in Overlaid(new, KnownText)
  <2>1. PICK text \in Overlaid(new, disk[proc[p].fd]) : disk' = [disk EXCEPT ![proc[p].fd] = text]
    BY <1>5 DEF WriteKnownPeers, new
  <2> QED
    BY <1>3, <1>4, <2>1
<1>6. ASSUME WriteFails(p)
      PROVE  \E part \in Cuts(new) : KnownText' \in Overlaid(part, KnownText)
  <2>1. PICK part \in Cuts(new) :
          \E text \in Overlaid(part, disk[proc[p].fd]) : disk' = [disk EXCEPT ![proc[p].fd] = text]
    BY <1>6 DEF WriteFails, new
  <2>2. PICK text \in Overlaid(part, disk[proc[p].fd]) : disk' = [disk EXCEPT ![proc[p].fd] = text]
    BY <2>1
  <2> QED
    BY <1>3, <1>4, <2>1, <2>2
<1> QED
  BY <1>1, <1>2, <1>4, <1>5, <1>6 DEF new

\* The effect of truncating known_peers.toml, the first half of writeFileSync.
LEMMA OpenKnownContents ==
  ASSUME TypeOK, NoAlias, NEW p \in Process, OpenKnownPeers(p)
  PROVE  /\ Exists("known")' /\ KnownText' = Empty
         /\ proc'[p].at = "save" /\ proc'[p].fd = final'["known"] /\ proc'[p].code = proc[p].code
         /\ proc'[p].draft = proc[p].draft
<1> DEFINE i == IF Exists("known") THEN final["known"] ELSE NewInode
<1>1. i \in Inode /\ i # NoFile
  BY OpenKnownInode
<1>2. /\ final' = [final EXCEPT !["known"] = i] /\ disk' = [disk EXCEPT ![i] = Empty]
      /\ proc' = [proc EXCEPT ![p].at = "save", ![p].fd = i]
  BY DEF OpenKnownPeers
<1> HIDE DEF i
<1>3. final'["known"] = i /\ disk'[i] = Empty
  BY <1>1, <1>2 DEF TypeOK, File
<1>4. proc[p] \in Terminal /\ proc'[p] = [proc[p] EXCEPT !.at = "save", !.fd = i]
  BY <1>2 DEF TypeOK
<1>5. /\ proc'[p].at = "save" /\ proc'[p].fd = i /\ proc'[p].code = proc[p].code
      /\ proc'[p].draft = proc[p].draft
  BY <1>4 DEF Terminal
<1> QED
  BY <1>1, <1>3, <1>5 DEF Exists, KnownText, Content

\* At the start the file has what the user has typed in.
LEMMA TypedText ==
  ASSUME Init
  PROVE  \E typed \in Seq(Entry) :
           /\ KnownText = SerializeKnownPeers(typed) /\ enrolled = Range(typed)
           /\ \A n \in DOMAIN typed : typed[n].trust = "tofu"
<1>1. PICK setUp \in BOOLEAN, typed \in {Empty} \cup {<<e>> : e \in [peer_id : Peers, trust : {"tofu"}]} :
        /\ setUp \/ typed = Empty
        /\ final = [f \in File |-> IF setUp /\ (f = "known" => typed # Empty)
                                     THEN [key |-> 1, pub |-> 2, config |-> 3, known |-> 4][f] ELSE NoFile]
        /\ disk = [i \in Inode |-> CASE setUp /\ i \in {1, 2} -> <<1>>
                                     [] setUp /\ i = 3 -> Edited
                                     [] i = 4 -> SerializeKnownPeers(typed)
                                     [] OTHER -> Empty]
        /\ enrolled = Range(typed)
  BY DEF Init
<1>2. CASE typed = Empty
  <2>1. typed \in Seq(Entry) /\ DOMAIN typed = {}
    BY <1>2 DEF Empty
  <2>2. ~Exists("known")
    BY <1>1, <1>2 DEF Exists, File
  <2>3. SerializeKnownPeers(typed) = Empty
    BY <2>1 DEF SerializeKnownPeers, Empty
  <2> QED
    BY <1>1, <2>1, <2>2, <2>3 DEF KnownText
<1>3. CASE typed # Empty
  <2>1. PICK e \in [peer_id : Peers, trust : {"tofu"}] : typed = <<e>>
    BY <1>1, <1>3
  <2>2. e \in Entry /\ e.trust = "tofu"
    BY DEF Entry, Trust
  <2>3. typed \in Seq(Entry) /\ \A n \in DOMAIN typed : typed[n].trust = "tofu"
    BY <2>1, <2>2
  <2>4. final["known"] = 4
    BY <1>1, <1>3 DEF File, Saved
  <2>5. 4 \in Inode
    <3>1. final["known"] \in Inode \cup {NoFile}
      BY TypeInit DEF TypeOK, File
    <3> QED
      BY <2>4, <3>1 DEF NoFile
  <2>6. KnownText = SerializeKnownPeers(typed)
    BY <1>1, <2>4, <2>5 DEF KnownText, Exists, Content, NoFile
  <2> QED
    BY <1>1, <2>3, <2>6
<1> QED
  BY <1>2, <1>3

LEMMA TrustInit == Init => TrustInv
<1> SUFFICES ASSUME Init PROVE TrustInv
  OBVIOUS
<1>1. \A q \in Process : proc[q].at = "idle"
  BY DEF Init, Idle
<1>2. KnownText \in Texts /\ AllSound(KnownText, confirmed)
  <2>1. PICK typed \in Seq(Entry) :
          /\ KnownText = SerializeKnownPeers(typed)
          /\ \A n \in DOMAIN typed : typed[n].trust = "tofu"
    BY TypedText
  <2>2. Earned(typed, confirmed)
    BY <2>1 DEF Earned
  <2> QED
    BY <2>1, <2>2, SerializedReads
<1> QED
  BY <1>1, <1>2 DEF TrustInv, Saving

\* The list read, the entry appended and the list written are earned, unless an
\* overlap met a list that was cut short.
LEMMA TrustStep ==
  ASSUME TypeOK, Phases, NoAlias, TrustInv, NEW p \in Process, Step(p)
  PROVE  TrustInv'
<1> DEFINE FileOK ==
       KnownText \in Texts /\ ("torn" \notin raced /\ Parses(KnownText) => AllSound(KnownText, confirmed))
<1> DEFINE ProcOK(q) ==
       /\ proc[q].at \in {"alias", "truncate", "save"} => Peer(q) \in confirmed
       /\ Saving(q) =>
            /\ proc[q].draft \in Seq(Entry) /\ proc[q].draft # Empty
            /\ "torn" \notin raced => Earned(proc[q].draft, confirmed)
            /\ Last(proc[q].draft).peer_id = Peer(q)
<1>0. /\ FileOK /\ \A q \in Process : ProcOK(q)
      /\ \A q \in Process : q # p => proc'[q] = proc[q]
  BY OthersStand DEF TrustInv
<1>1. SUFFICES confirmed \subseteq confirmed' /\ raced \subseteq raced' /\ FileOK' /\ ProcOK(p)'
  <2>1. ASSUME confirmed \subseteq confirmed', raced \subseteq raced', NEW q \in Process, q # p PROVE ProcOK(q)'
    <3>1. Peer(q)' = Peer(q) /\ (Saving(q)' <=> Saving(q)) /\ proc'[q] = proc[q]
      BY <1>0, <2>1 DEF Peer, Saving
    <3>2. Saving(q) /\ "torn" \notin raced' => Earned(proc[q].draft, confirmed')
      BY <1>0, <2>1, EarnedOfMore
    <3> QED
      BY <1>0, <2>1, <3>1, <3>2
  <2> QED
    BY <2>1 DEF TrustInv
<1>2. CASE ~Accepts(p)
  <2>1. /\ Same("known") /\ confirmed' = confirmed /\ raced \subseteq raced'
        /\ proc'[p].at \notin {"alias", "truncate", "save"}
    BY <1>2, AcceptsNothing
  <2>2. FileOK'
    BY <1>0, <2>1, SameKnownPeers
  <2> QED
    BY <2>1, <2>2 DEF Saving
<1>3. CASE Confirm(p)
  <2>1. confirmed' = confirmed \cup {Peer(p)} /\ raced' = raced /\ Goto(p, "alias") /\ UNCHANGED files
    BY <1>3 DEF Confirm
  <2>2. proc'[p].at = "alias" /\ Peer(p)' = Peer(p)
    BY <2>1, AfterGoto DEF Peer
  <2>3. FileOK'
    <3>1. KnownText' = KnownText /\ confirmed \subseteq confirmed'
      BY <2>1, SameKnownPeers
    <3> QED
      BY <1>0, <2>1, <3>1, SoundOfMore
  <2> QED
    BY <2>1, <2>2, <2>3 DEF Saving
<1>4. CASE LoadKnownPeers(p)
  <2>1. confirmed' = confirmed /\ UNCHANGED files
    BY <1>4 DEF LoadKnownPeers
  <2>0. raced \subseteq raced' /\ ("torn" \in raced' <=> "torn" \in raced)
    BY <1>4 DEF LoadKnownPeers
  <2>2. FileOK'
    BY <1>0, <2>0, <2>1, SameKnownPeers
  <2>3. ProcOK(p)'
    <3>1. CASE proc'[p] = Idle
      BY <3>1 DEF Saving, Idle
    <3>2. CASE proc'[p] # Idle
      <4>1. /\ Parses(KnownText) /\ Find(KnownPeers, Peer(p)) = {}
            /\ proc'[p].at = "truncate" /\ proc'[p].code = proc[p].code
            /\ proc'[p].draft = VerifyPeerTrust(AddPeerFromInvite(KnownPeers, Peer(p)), Peer(p))
        BY <1>4, <3>2, AfterLoad
      <4>2. Peer(p) \in Peers /\ Peer(p) \in confirmed /\ Peer(p)' = Peer(p)
        BY <1>0, <1>4, <4>1, PeerOfCommand DEF LoadKnownPeers, At, Peer
      <4>3. /\ proc'[p].draft \in Seq(Entry) /\ proc'[p].draft # Empty
            /\ "torn" \notin raced => Earned(proc'[p].draft, confirmed)
            /\ Last(proc'[p].draft).peer_id = Peer(p)
        BY <4>1, <4>2, KnownPeersEarned, DraftOfPeer
      <4> QED
        BY <2>0, <2>1, <4>2, <4>3
    <3> QED
      BY <3>1, <3>2
  <2> QED
    BY <2>0, <2>1, <2>2, <2>3
<1>5. CASE OpenKnownPeers(p)
  <2>1. confirmed' = confirmed /\ raced' = raced /\ At(p, "truncate")
    BY <1>5 DEF OpenKnownPeers, history
  <2>2. /\ KnownText' = Empty
        /\ proc'[p].at = "save" /\ proc'[p].code = proc[p].code /\ proc'[p].draft = proc[p].draft
    BY <1>5, OpenKnownContents
  <2>3. FileOK'
    BY <2>2 DEF Texts, AllSound, Empty
  <2>4. Peer(p)' = Peer(p) /\ Saving(p) /\ Peer(p) \in confirmed
    BY <1>0, <2>1, <2>2 DEF Peer, Saving, At
  <2> QED
    BY <1>0, <2>1, <2>2, <2>3, <2>4
<1>6. CASE WriteKnownPeers(p) \/ WriteFails(p)
  <2> DEFINE new == SerializeKnownPeers(proc[p].draft)
  <2>1. confirmed' = confirmed /\ raced \subseteq raced' /\ At(p, "save") /\ proc'[p] = Idle
    BY <1>6, AfterExit DEF WriteKnownPeers, WriteFails
  <2>2. ProcOK(p)'
    BY <2>1 DEF Saving, Idle
  <2>3. /\ proc[p].draft \in Seq(Entry) /\ proc[p].draft # Empty
        /\ "torn" \notin raced => Earned(proc[p].draft, confirmed)
        /\ Last(proc[p].draft).peer_id \in confirmed
    BY <1>0, <2>1 DEF Saving, At
  <2>4. new \in Texts
    BY <2>3, SerializedReads
  <2>5. CASE WriteKnownPeers(p)
    <3>1. KnownText' \in Overlaid(new, KnownText)
      BY <2>5, SaveContents
    <3>2. KnownText' \in Texts
      BY <1>0, <2>4, <3>1, OverlaidIsText
    <3>3. ASSUME "torn" \notin raced' PROVE AllSound(KnownText', confirmed')
      <4>1. "torn" \notin raced /\ Parses(KnownText)
        BY <2>1, <2>5, <3>3, SaveContents DEF WriteKnownPeers
      <4> QED
        BY <1>0, <2>1, <2>3, <3>1, <4>1, OverlaidIsSound
    <3> QED
      BY <2>1, <2>2, <3>2, <3>3
  <2>6. CASE WriteFails(p)
    <3>1. PICK part \in Cuts(new) : KnownText' \in Overlaid(part, KnownText)
      BY <2>6, SaveContents
    <3>2. part \in Texts
      BY <2>4, CutsAreTexts
    <3>3. KnownText' \in Texts
      BY <1>0, <3>1, <3>2, OverlaidIsText
    <3>4. ASSUME "torn" \notin raced', Parses(KnownText') PROVE AllSound(KnownText', confirmed')
      <4>1. "torn" \notin raced /\ KnownText = Empty
        <5>1. disk[proc[p].fd] = KnownText
          BY <2>6, SaveContents
        <5>2. raced' = raced \cup (IF disk[proc[p].fd] = Empty THEN {} ELSE {"torn"})
          BY <2>6 DEF WriteFails
        <5> QED
          BY <3>4, <5>1, <5>2
      <4>2. KnownText' = part
        BY <3>1, <4>1, OverlaidOfEmpty
      <4> QED
        BY <2>1, <2>3, <3>4, <4>1, <4>2, CutsAreSound
    <3> QED
      BY <2>1, <2>2, <3>3, <3>4
  <2> QED
    BY <1>6, <2>5, <2>6
<1> QED
  BY <1>2, <1>3, <1>4, <1>5, <1>6 DEF Accepts

LEMMA StayInit == Init => StayInv
<1> SUFFICES ASSUME Init PROVE StayInv
  OBVIOUS
<1>1. \A q \in Process : proc[q].at = "idle"
  BY DEF Init, Idle
<1>2. Parses(KnownText) /\ enrolled \subseteq Range(KnownPeers)
  BY TypedText, SerializedReads DEF KnownPeers
<1> QED
  BY <1>1, <1>2 DEF StayInv, Saving, At

\* One accept saves at a time, unless two have raced.
LEMMA StayStep ==
  ASSUME TypeOK, Phases, NoAlias, TrustInv, StayInv, NEW p \in Process, Step(p)
  PROVE  StayInv'
<1> DEFINE New(q) == [peer_id |-> Peer(q), trust |-> "verified"]
<1> DEFINE ListOK == Parses(KnownText) /\ enrolled \subseteq Range(KnownPeers)
<1> DEFINE DraftOK(q) == Saving(q) => enrolled \cup {New(q)} \subseteq Range(proc[q].draft)
<1> DEFINE FileOK(q) == At(q, "save") => KnownText = Empty
<1>0. /\ \A q \in Process : q # p => proc'[q] = proc[q]
      /\ \A q \in Process : q # p => (Saving(q)' <=> Saving(q)) /\ (At(q, "save")' <=> At(q, "save"))
      /\ \A q \in Process : q # p => New(q)' = New(q)
  BY OthersStand DEF Saving, At, Peer
<1>1. SUFFICES /\ raced \subseteq raced' /\ ("known" \in cut => "known" \in cut')
               /\ "known" \notin raced' /\ Saving(p)' =>
                    Saving(p) \/ \A q \in Process : q # p => ~Saving(q)
               /\ "known" \notin raced' \cup cut' =>
                    /\ (\A q \in Process : ~At(q, "save")') => ListOK'
                    /\ \A q \in Process : DraftOK(q)' /\ FileOK(q)'
  <2>1. ASSUME "known" \notin raced', raced \subseteq raced',
               Saving(p)' => Saving(p) \/ \A q \in Process : q # p => ~Saving(q),
               NEW q \in Process, NEW r \in Process, Saving(q)', Saving(r)'
        PROVE  q = r
    BY <1>0, <2>1 DEF StayInv
  <2> QED
    BY <2>1 DEF StayInv
<1>2. ASSUME "known" \notin raced \cup cut
      PROVE  /\ (\A q \in Process : ~At(q, "save")) => ListOK
             /\ \A q \in Process : DraftOK(q) /\ FileOK(q)
             /\ \A q, r \in Process : Saving(q) /\ Saving(r) => q = r
  BY <1>2 DEF StayInv
<1>3. CASE ~Accepts(p)
  <2>1. /\ Same("known")
        /\ UNCHANGED <<confirmed, enrolled>>
        /\ proc'[p].at \notin {"alias", "truncate", "save"}
        /\ raced \subseteq raced' /\ ("known" \in cut => "known" \in cut')
        /\ At(p, "save") => "known" \in cut'
    BY <1>3, AcceptsNothing
  <2>2. KnownText' = KnownText /\ KnownPeers' = KnownPeers
    BY <2>1, SameKnownPeers
  <2>3. ~Saving(p)' /\ ~At(p, "save")'
    BY <2>1 DEF Saving, At
  <2>4. ASSUME "known" \notin raced' \cup cut'
        PROVE  /\ (\A q \in Process : ~At(q, "save")') => ListOK'
               /\ \A q \in Process : DraftOK(q)' /\ FileOK(q)'
    <3>1. "known" \notin raced \cup cut /\ ~At(p, "save")
      BY <2>1, <2>4
    <3>2. (\A q \in Process : ~At(q, "save")') => \A q \in Process : ~At(q, "save")
      BY <1>0, <3>1
    <3>3. (\A q \in Process : ~At(q, "save")') => ListOK'
      BY <1>2, <2>1, <2>2, <3>1, <3>2
    <3>4. ASSUME NEW q \in Process PROVE DraftOK(q)' /\ FileOK(q)'
      <4>1. CASE q = p
        BY <2>3, <4>1
      <4>2. CASE q # p
        BY <1>0, <1>2, <2>1, <2>2, <3>1, <4>2
      <4> QED
        BY <4>1, <4>2
    <3> QED
      BY <3>3, <3>4
  <2> QED
    BY <2>1, <2>3, <2>4
<1>4. CASE Confirm(p)
  <2>1. Goto(p, "alias") /\ UNCHANGED <<files, enrolled, raced, cut>> /\ ~Saving(p) /\ ~At(p, "save")
    BY <1>4 DEF Confirm, At, Saving
  <2>2. proc'[p].at = "alias"
    BY <2>1, AfterGoto
  <2>3. ~Saving(p)' /\ ~At(p, "save")'
    BY <2>2 DEF Saving, At
  <2>4. KnownText' = KnownText /\ KnownPeers' = KnownPeers
    BY <2>1, SameKnownPeers
  <2>5. ASSUME "known" \notin raced \cup cut, NEW q \in Process PROVE DraftOK(q)' /\ FileOK(q)'
    <3>1. CASE q = p
      BY <2>3, <3>1
    <3>2. CASE q # p
      BY <1>0, <1>2, <2>1, <2>4, <2>5, <3>2
    <3> QED
      BY <3>1, <3>2
  <2>6. (\A q \in Process : ~At(q, "save")') => \A q \in Process : ~At(q, "save")
    BY <1>0, <2>1
  <2> QED
    BY <1>2, <2>1, <2>3, <2>4, <2>5, <2>6
<1>5. CASE LoadKnownPeers(p)
  <2>1. UNCHANGED <<files, enrolled, cut>> /\ ~Saving(p) /\ ~At(p, "save") /\ At(p, "alias")
    BY <1>5 DEF LoadKnownPeers, At, Saving
  <2>2. KnownText' = KnownText /\ KnownPeers' = KnownPeers
    BY <2>1, SameKnownPeers
  <2>3. CASE proc'[p] = Idle /\ raced' = raced
    <3>1. ~Saving(p)' /\ ~At(p, "save")'
      BY <2>3 DEF Saving, At, Idle
    <3>2. ASSUME "known" \notin raced \cup cut, NEW q \in Process PROVE DraftOK(q)' /\ FileOK(q)'
      <4>1. CASE q = p
        BY <3>1, <4>1
      <4>2. CASE q # p
        BY <1>0, <1>2, <2>1, <2>2, <3>2, <4>2
      <4> QED
        BY <4>1, <4>2
    <3>3. (\A q \in Process : ~At(q, "save")') => \A q \in Process : ~At(q, "save")
      BY <1>0, <2>1
    <3> QED
      BY <1>2, <2>1, <2>2, <2>3, <3>1, <3>2, <3>3
  <2>4. CASE ~(proc'[p] = Idle /\ raced' = raced)
    <3>1. /\ Parses(KnownText) /\ Find(KnownPeers, Peer(p)) = {}
          /\ proc'[p].at = "truncate" /\ proc'[p].code = proc[p].code
          /\ proc'[p].draft = VerifyPeerTrust(AddPeerFromInvite(KnownPeers, Peer(p)), Peer(p))
          /\ raced' = raced \cup (IF \E o \in Others(p) : Saving(o) THEN {"known"} ELSE {})
      BY <1>5, <2>4, AfterLoad
    <3>2. Peer(p) \in Peers /\ Peer(p) \in confirmed /\ Peer(p)' = Peer(p)
      BY <2>1, <3>1, PeerOfCommand DEF At, Peer, TrustInv
    <3>3. Range(KnownPeers) \subseteq Range(proc'[p].draft) /\ New(p) \in Range(proc'[p].draft)
      BY <3>1, <3>2, KnownPeersEarned, DraftOfPeer
    <3>4. "known" \notin raced' => \A q \in Process : q # p => ~Saving(q)
      BY <3>1 DEF Others
    <3>5. raced \subseteq raced'
      BY <3>1
    <3>6. ~At(p, "save")'
      BY <3>1 DEF At
    <3>7. ASSUME "known" \notin raced' \cup cut'
          PROVE  /\ (\A q \in Process : ~At(q, "save")') => ListOK'
                 /\ \A q \in Process : DraftOK(q)' /\ FileOK(q)'
      <4>1. "known" \notin raced \cup cut
        BY <2>1, <3>5, <3>7
      <4>2. \A q \in Process : ~At(q, "save")
        BY <2>1, <3>4, <3>7 DEF Saving, At
      <4>3. ListOK
        BY <1>2, <4>1, <4>2
      <4>4. ListOK'
        BY <2>1, <2>2, <4>3
      <4>5. DraftOK(p)'
        BY <2>1, <3>2, <3>3, <4>3
      <4>6. ASSUME NEW q \in Process, q # p PROVE ~Saving(q)' /\ ~At(q, "save")'
        BY <1>0, <3>4, <3>7, <4>2, <4>6
      <4> QED
        BY <3>6, <4>4, <4>5, <4>6
    <3> QED
      BY <2>1, <3>4, <3>5, <3>7
  <2> QED
    BY <2>3, <2>4
<1>6. CASE OpenKnownPeers(p)
  <2>1. UNCHANGED <<enrolled, raced, cut>> /\ Saving(p)
    BY <1>6 DEF OpenKnownPeers, history, At, Saving
  <2>2. /\ KnownText' = Empty
        /\ proc'[p].at = "save" /\ proc'[p].code = proc[p].code /\ proc'[p].draft = proc[p].draft
    BY <1>6, OpenKnownContents
  <2>3. At(p, "save")' /\ New(p)' = New(p)
    BY <2>2 DEF At, Peer
  <2>4. ASSUME "known" \notin raced \cup cut, NEW q \in Process PROVE DraftOK(q)' /\ FileOK(q)'
    <3>1. CASE q = p
      BY <1>2, <2>1, <2>2, <2>3, <2>4, <3>1
    <3>2. CASE q # p
      <4>1. ~Saving(q)' /\ ~At(q, "save")'
        BY <1>0, <1>2, <2>1, <2>4, <3>2 DEF Saving, At
      <4> QED
        BY <4>1
    <3> QED
      BY <3>1, <3>2
  <2> QED
    BY <2>1, <2>3, <2>4
<1>7. CASE WriteKnownPeers(p)
  <2>1. /\ At(p, "save") /\ Saving(p) /\ Exit(p) /\ raced \subseteq raced' /\ cut' = cut
        /\ ("known" \in raced' <=> "known" \in raced)
        /\ enrolled' = enrolled \cup {New(p)}
    BY <1>7 DEF WriteKnownPeers, Saving, At
  <2>2. ~Saving(p)' /\ ~At(p, "save")'
    BY <2>1, AfterExit DEF Saving, At, Idle
  <2>3. ASSUME "known" \notin raced \cup cut
        PROVE  ListOK' /\ \A q \in Process : DraftOK(q)' /\ FileOK(q)'
    <3>1. KnownText = Empty /\ enrolled \cup {New(p)} \subseteq Range(proc[p].draft)
      BY <1>2, <2>1, <2>3
    <3>2. KnownText' \in Overlaid(SerializeKnownPeers(proc[p].draft), KnownText)
      BY <1>7, SaveContents
    <3>3. KnownText' = SerializeKnownPeers(proc[p].draft)
      BY <3>1, <3>2, OverlaidOfEmpty
    <3>4. proc[p].draft \in Seq(Entry)
      BY <2>1 DEF TrustInv
    <3>5. Parses(KnownText') /\ KnownPeers' = proc[p].draft
      BY <3>3, <3>4, SerializedReads DEF KnownPeers
    <3>6. ListOK'
      BY <2>1, <3>1, <3>5
    <3>7. \A q \in Process : ~Saving(q)' /\ ~At(q, "save")'
      BY <1>0, <1>2, <2>1, <2>2, <2>3 DEF Saving, At
    <3> QED
      BY <3>6, <3>7
  <2> QED
    BY <2>1, <2>2, <2>3
<1>8. CASE WriteFails(p)
  <2>1. Exit(p) /\ raced \subseteq raced' /\ cut' = cut \cup {"known"}
    BY <1>8 DEF WriteFails
  <2>2. ~Saving(p)'
    BY <2>1, AfterExit DEF Saving, Idle
  <2> QED
    BY <2>1, <2>2
<1> QED
  BY <1>3, <1>4, <1>5, <1>6, <1>7, <1>8 DEF Accepts

\* An edit of config.toml does not reach known_peers.toml.
LEMMA KnownEdit ==
  ASSUME TypeOK, Phases, NoAlias, TrustInv, StayInv, EditConfig
  PROVE  TrustInv' /\ StayInv'
<1>1. Same("known") /\ UNCHANGED <<proc, confirmed, enrolled, raced, cut>>
  BY EditContents DEF EditConfig, File, Saved
<1>2. KnownText' = KnownText /\ KnownPeers' = KnownPeers
  BY <1>1, SameKnownPeers
<1>5. TrustInv'
  BY <1>1, <1>2 DEF TrustInv, Peer, Saving
<1>6. StayInv'
  BY <1>1, <1>2 DEF StayInv, Peer, Saving, At
<1> QED
  BY <1>5, <1>6

-----------------------------------------------------------------------------
(* The identity and config.toml.                                           *)

\* The steps of an init past its check, and the end of any command.
Inits(p) ==
  Stop(p) \/ InitGenerates(p) \/ OpenTmp(p) \/ WriteTmp(p) \/ RenameTmp(p) \/ InitChecksConfig(p)

\* A step outside init leaves the files of init alone.
LEMMA InitsNothing ==
  ASSUME TypeOK, Phases, NoAlias, NEW p \in Process, Step(p), ~Inits(p)
  PROVE  /\ \A g \in Saved : Same(g) /\ SameTmp(g)
         /\ ~Initialising(p) /\ ~Initialising(p)'
         /\ proc'[p].at \notin {"open", "write", "rename"}
         /\ edited' = edited /\ (forced' <=> forced)
         /\ "identity" \in raced' <=> "identity" \in raced
         /\ "identity" \in cut' <=> "identity" \in cut
         /\ \/ registered' = registered
            \/ registered' = registered \cup {proc[p].self} /\ At(p, "server")
         /\ proc'[p].at \in {"config", "server"} =>
              \/ proc[p].at \in {"config", "server"} /\ proc'[p].self = proc[p].self
              \/ Whole("key") /\ proc'[p].self = Content("key")[1]
<1>0. proc \in [Process -> Terminal] /\ proc[p] \in Terminal /\ Saved \subseteq File
  BY DEF TypeOK, File
<1> DEFINE Goal ==
         /\ ~Initialising(p) /\ ~Initialising(p)'
         /\ proc'[p].at \notin {"open", "write", "rename"}
         /\ edited' = edited /\ (forced' <=> forced)
         /\ "identity" \in raced' <=> "identity" \in raced
         /\ "identity" \in cut' <=> "identity" \in cut
         /\ \/ registered' = registered
            \/ registered' = registered \cup {proc[p].self} /\ At(p, "server")
         /\ proc'[p].at \in {"config", "server"} =>
              \/ proc[p].at \in {"config", "server"} /\ proc'[p].self = proc[p].self
              \/ Whole("key") /\ proc'[p].self = Content("key")[1]
<1>1. \A g \in Saved : Same(g) /\ SameTmp(g)
  <2>1. CASE OpenKnownPeers(p) \/ WriteKnownPeers(p) \/ WriteFails(p)
    BY <2>1, KnownContents
  <2>2. CASE ~Touches(p)
    BY <1>0, <2>2, TouchesNothing, UntouchedContents
  <2> QED
    BY <2>1, <2>2 DEF Touches, Inits
<1>14. SUFFICES Goal
  BY <1>1
<1>2. ASSUME NEW c \in Command, Start(p, c) PROVE Goal
  <2>1. proc'[p].at = "identity" /\ Running(p, "none")
    BY <1>2, AfterStart DEF Start, Phases
  <2> QED
    BY <1>2, <2>1 DEF Start, history, Initialising, Running, At
<1>3. ASSUME Exit(p), ~Initialising(p), UNCHANGED <<edited, forced, cut>>,
             "identity" \in raced' <=> "identity" \in raced,
             \/ registered' = registered
             \/ registered' = registered \cup {proc[p].self} /\ At(p, "server")
      PROVE  Goal
  <2>1. proc'[p].at = "idle" /\ proc'[p].name = "none"
    BY <1>3, AfterExit DEF Idle
  <2> QED
    BY <1>3, <2>1 DEF Initialising, Running
<1>4. CASE InitRefuses(p) \/ NoIdentity(p) \/ Decline(p)
  <2>1. Exit(p) /\ UNCHANGED <<edited, forced, cut, raced, registered>>
    BY <1>4 DEF InitRefuses, NoIdentity, Decline, history
  <2>2. ~Initialising(p)
    BY <1>4 DEF InitRefuses, NoIdentity, Decline, Initialising, Phases, At, Running
  <2> QED
    BY <1>3, <2>1, <2>2
<1>5. CASE LoadIdentity(p)
  <2>1. proc'[p].at = "config" /\ proc'[p].self = Content("key")[1] /\ proc'[p].name = proc[p].name
    BY <1>0, <1>5 DEF LoadIdentity, Terminal
  <2> QED
    BY <1>5, <2>1 DEF LoadIdentity, history, Initialising, Running
<1>6. CASE LoadConfig(p)
  <2>1. ~Initialising(p) /\ UNCHANGED <<edited, forced, cut, raced, registered>>
    BY <1>6 DEF LoadConfig, Initialising, Running, Phases, At, history
  <2>2. CASE Exit(p)
    BY <1>3, <2>1, <2>2
  <2>3. CASE Goto(p, "server")
    <3>1. proc'[p].at = "server" /\ proc'[p].self = proc[p].self /\ proc'[p].name = proc[p].name
      BY <2>3, AfterGoto
    <3>2. At(p, "config")
      BY <1>6 DEF LoadConfig
    <3> QED
      BY <2>1, <3>1, <3>2 DEF Initialising, Running, At
  <2> QED
    BY <1>6, <2>2, <2>3 DEF LoadConfig
<1>7. CASE InviteCreate(p)
  <2>1. /\ Exit(p) /\ ~Initialising(p) /\ UNCHANGED <<edited, forced, cut, raced>>
        /\ registered' = registered \cup {proc[p].self} /\ At(p, "server")
    BY <1>7 DEF InviteCreate, Initialising, Running
  <2> QED
    BY <1>3, <2>1
<1>8. ASSUME NEW answered \in BOOLEAN, InviteRedeem(p, answered) PROVE Goal
  <2>1. /\ ~Initialising(p) /\ UNCHANGED <<edited, forced, cut, raced>>
        /\ registered' = registered \cup {proc[p].self} /\ At(p, "server") /\ Running(p, "accept")
    BY <1>8 DEF InviteRedeem, Initialising, Running
  <2>2. CASE Exit(p)
    BY <1>3, <2>1, <2>2
  <2>3. CASE Goto(p, "confirm")
    <3>1. proc'[p].at = "confirm" /\ proc'[p].name = "accept"
      BY <2>1, <2>3, AfterGoto DEF Running
    <3> QED
      BY <2>1, <3>1 DEF Initialising, Running
  <2> QED
    BY <1>8, <2>2, <2>3 DEF InviteRedeem
<1>9. CASE Confirm(p)
  <2>1. /\ Goto(p, "alias") /\ UNCHANGED <<edited, forced, cut, raced, registered>>
        /\ Running(p, "accept")
    BY <1>9 DEF Confirm, Phases, At
  <2>2. proc'[p].at = "alias" /\ proc'[p].name = "accept"
    BY <2>1, AfterGoto DEF Running
  <2> QED
    BY <2>1, <2>2 DEF Initialising, Running
<1>10. CASE LoadKnownPeers(p)
  <2>1. /\ UNCHANGED <<edited, forced, cut, registered>> /\ Running(p, "accept")
    BY <1>10 DEF LoadKnownPeers, Phases, At
  <2>2. \/ proc'[p] = Idle
        \/ proc'[p].at = "truncate" /\ proc'[p].name = proc[p].name
    BY <1>10, AfterLoad
  <2>3. proc'[p].at \in {"idle", "truncate"} /\ proc'[p].name # "init"
    BY <2>1, <2>2 DEF Idle, Running
  <2>4. "identity" \in raced' <=> "identity" \in raced
    <3>1. \/ raced' = raced
          \/ raced' = raced \cup (IF \E o \in Others(p) : Saving(o) THEN {"known"} ELSE {})
      BY <1>10, AfterLoad
    <3> QED
      BY <3>1
  <2> QED
    BY <2>1, <2>3, <2>4 DEF Initialising, Running
<1>11. CASE OpenKnownPeers(p)
  <2>1. UNCHANGED <<edited, forced, cut, raced, registered>> /\ Running(p, "accept")
    BY <1>11 DEF OpenKnownPeers, Phases, At, history
  <2>2. proc'[p].at = "save" /\ proc'[p].name = proc[p].name
    BY <1>0, <1>11 DEF OpenKnownPeers, Terminal
  <2> QED
    BY <2>1, <2>2 DEF Initialising, Running
<1>12. CASE WriteKnownPeers(p)
  <2>1. /\ Exit(p) /\ UNCHANGED <<edited, forced, cut, registered>>
        /\ "identity" \in raced' <=> "identity" \in raced
    BY <1>12 DEF WriteKnownPeers
  <2>2. ~Initialising(p)
    BY <1>12 DEF WriteKnownPeers, Phases, At, Initialising, Running
  <2> QED
    BY <1>3, <2>1, <2>2
<1>13. CASE WriteFails(p)
  <2>1. /\ Exit(p) /\ UNCHANGED <<edited, forced, registered>> /\ cut' = cut \cup {"known"}
        /\ "identity" \in raced' <=> "identity" \in raced
        /\ Running(p, "accept")
    BY <1>13 DEF WriteFails, Phases, At
  <2>2. proc'[p].at = "idle" /\ proc'[p].name = "none"
    BY <2>1, AfterExit DEF Idle
  <2> QED
    BY <2>1, <2>2 DEF Initialising, Running
<1> QED
  BY <1>2, <1>4, <1>5, <1>6, <1>7, <1>8, <1>9, <1>10, <1>11, <1>12, <1>13 DEF Step, Inits

\* As long as identity.key is the same, so is the key.
LEMMA SameKey ==
  ASSUME Same("key")
  PROVE  /\ Exists("key")' <=> Exists("key")
         /\ Exists("key") => Content("key")' = Content("key")
         /\ \A n \in Nat : IsKey(n)' <=> IsKey(n)
BY DEF Same, Exists, IsKey

LEMMA SamePub ==
  ASSUME Same("key"), Same("pub"),
         Exists("key") => Exists("pub") /\ Content("pub") = Content("key")
  PROVE  Exists("key")' => Exists("pub")' /\ Content("pub")' = Content("key")'
BY DEF Same, Exists

\* An init that is past its check has the directory to itself.
LEMMA AloneInit ==
  ASSUME Phases, IdentityInv, "identity" \notin raced, NEW p \in Process, Initialising(p),
         NEW q \in Process, q # p
  PROVE  /\ ~Initialising(q) /\ proc[q].at \notin {"open", "write", "rename", "access"}
         /\ ~SavesKey(q) /\ ~BetweenTheTwo(q)
<1>1. ~Initialising(q)
  BY DEF IdentityInv
<1>2. proc[q].at \notin {"open", "write", "rename", "access"}
  BY <1>1 DEF Phases, Initialising, Running, At
<1> QED
  BY <1>1, <1>2 DEF SavesKey, BetweenTheTwo

\* A terminal at a step that only init has runs init.
LEMMA InitPlaces ==
  ASSUME Phases, NEW p \in Process, proc[p].at \in {"open", "write", "rename", "access"}
  PROVE  Initialising(p)
BY DEF Phases, Initialising, Running, At

\* The conjuncts about one terminal.
InitOK(q) ==
  /\ At(q, "write") => proc[q].fd = tmp[proc[q].file]
  /\ At(q, "rename") => tmp[proc[q].file] # NoFile /\ disk[tmp[proc[q].file]] = Text(q)
  /\ Initialising(q) /\ ~SavesKey(q) => IsKey(proc[q].self)
PubOK ==
  Exists("key") /\ "identity" \notin cut /\ (\A q \in Process : ~BetweenTheTwo(q)) =>
    Exists("pub") /\ Content("pub") = Content("key")
KeyOK == Exists("key") => Content("key")[1] \in Nat /\ IsKey(Content("key")[1])
UnforcedOK(q) ==
  /\ Initialising(q) => ~proc[q].force
  /\ SavesKey(q) => ~Exists("key")
  /\ proc[q].at \in {"config", "server"} => IsKey(proc[q].self)
  /\ Initialising(q) /\ proc[q].file = "config" => ~edited
RegisteredOK == \A k \in registered : IsKey(k)
ConfigOK == edited => Exists("config") /\ Content("config") = Edited

\* A terminal that takes no part in an init keeps them when the files stay.
LEMMA Bystander ==
  ASSUME TypeOK, NEW q \in Process, proc'[q] = proc[q], InitOK(q),
         \A g \in Saved : Same(g) /\ SameTmp(g)
  PROVE  InitOK(q)'
<1>1. proc[q].file \in Saved /\ proc[q].self \in Nat /\ "key" \in Saved
  BY DEF TypeOK, Terminal, Saved
<1>2. SameTmp(proc[q].file) /\ Same("key")
  BY <1>1
<1>3. IsKey(proc[q].self)' <=> IsKey(proc[q].self)
  <2>1. \A n \in Nat : IsKey(n)' <=> IsKey(n)
    BY <1>2, SameKey
  <2> QED
    BY <1>1, <2>1 DEF IsKey
<1>4. Text(q)' = Text(q)
  BY DEF Text
<1>5. (Initialising(q)' <=> Initialising(q)) /\ (SavesKey(q)' <=> SavesKey(q))
  BY DEF Initialising, Running, At, SavesKey
<1>6. (At(q, "write")' <=> At(q, "write")) /\ (At(q, "rename")' <=> At(q, "rename"))
  BY DEF At
<1> QED
  BY <1>2, <1>3, <1>4, <1>5, <1>6 DEF InitOK, SameTmp

\* Nothing is asked of a terminal that is not in init.
LEMMA OutOfInit ==
  ASSUME NEW q, ~Initialising(q), proc[q].at \notin {"write", "rename"}
  PROVE  InitOK(q)
BY DEF InitOK, At

\* IdentityInv from its parts.
LEMMA IdentityParts ==
  /\ IdentityInv <=>
       ("identity" \notin raced =>
          /\ \A p, q \in Process : Initialising(p) /\ Initialising(q) => p = q
          /\ KeyOK /\ PubOK /\ \A q \in Process : InitOK(q))
  /\ UnforcedInv <=>
       (~forced /\ "identity" \notin raced =>
          RegisteredOK /\ ConfigOK /\ \A q \in Process : UnforcedOK(q))
<1>1. IdentityInv <=>
       ("identity" \notin raced =>
          /\ \A p, q \in Process : Initialising(p) /\ Initialising(q) => p = q
          /\ KeyOK /\ PubOK /\ \A q \in Process : InitOK(q))
  BY DEF IdentityInv, KeyOK, PubOK, InitOK
<1>2. UnforcedInv <=>
       (~forced /\ "identity" \notin raced =>
          RegisteredOK /\ ConfigOK /\ \A q \in Process : UnforcedOK(q))
  BY DEF UnforcedInv, RegisteredOK, ConfigOK, UnforcedOK
<1> QED
  BY <1>1, <1>2

LEMMA IdentityInit == Init => IdentityInv /\ UnforcedInv
<1> SUFFICES ASSUME Init PROVE IdentityInv /\ UnforcedInv
  OBVIOUS
<1>1. \A q \in Process : proc[q].at = "idle" /\ proc[q].name = "none"
  BY DEF Init, Idle
<1>2. \A q \in Process : ~Initialising(q) /\ ~SavesKey(q) /\ proc[q].at \notin {"config", "server"}
  BY <1>1 DEF Initialising, Running, SavesKey
<1>3. PICK setUp \in BOOLEAN, typed \in {Empty} \cup {<<e>> : e \in [peer_id : Peers, trust : {"tofu"}]} :
        /\ final = [f \in File |-> IF setUp /\ (f = "known" => typed # Empty)
                                     THEN [key |-> 1, pub |-> 2, config |-> 3, known |-> 4][f] ELSE NoFile]
        /\ disk = [i \in Inode |-> CASE setUp /\ i \in {1, 2} -> <<1>>
                                     [] setUp /\ i = 3 -> Edited
                                     [] i = 4 -> SerializeKnownPeers(typed)
                                     [] OTHER -> Empty]
        /\ keys = IF setUp THEN 1 ELSE 0
        /\ registered = 1 .. keys
        /\ edited = setUp
  BY DEF Init
<1>4. CASE setUp
  <2>1. final["key"] = 1 /\ final["pub"] = 2 /\ final["config"] = 3
    BY <1>3, <1>4 DEF File, Saved
  <2>2. 1 \in Inode /\ 2 \in Inode /\ 3 \in Inode
    <3>1. /\ final["key"] \in Inode \cup {NoFile} /\ final["pub"] \in Inode \cup {NoFile}
          /\ final["config"] \in Inode \cup {NoFile}
      BY TypeInit DEF TypeOK, File, Saved
    <3> QED
      BY <2>1, <3>1 DEF NoFile
  <2>3. /\ Exists("key") /\ Content("key") = <<1>>
        /\ Exists("pub") /\ Content("pub") = <<1>>
        /\ Exists("config") /\ Content("config") = Edited
    BY <1>3, <1>4, <2>1, <2>2 DEF Exists, Content, NoFile
  <2>4. KeyOK /\ PubOK /\ ConfigOK
    BY <2>3 DEF KeyOK, PubOK, ConfigOK, IsKey
  <2>5. RegisteredOK
    BY <1>3, <1>4, <2>3 DEF RegisteredOK, IsKey
  <2> QED
    BY <1>1, <1>2, <2>4, <2>5, IdentityParts, OutOfInit DEF UnforcedOK
<1>5. CASE ~setUp
  <2>1. ~Exists("key") /\ registered = {} /\ ~edited
    BY <1>3, <1>5 DEF Exists, File, Saved
  <2>2. KeyOK /\ PubOK /\ ConfigOK /\ RegisteredOK
    BY <2>1 DEF KeyOK, PubOK, ConfigOK, RegisteredOK
  <2> QED
    BY <1>1, <1>2, <2>2, IdentityParts, OutOfInit DEF UnforcedOK
<1> QED
  BY <1>4, <1>5

\* An init changes nothing of another terminal's, as that one has no file open.
LEMMA OthersOfInit ==
  ASSUME TypeOK, Phases, IdentityInv, "identity" \notin raced,
         NEW p \in Process, Step(p), Initialising(p), NEW q \in Process, q # p
  PROVE  /\ InitOK(q)' /\ ~Initialising(q)' /\ ~SavesKey(q)' /\ ~BetweenTheTwo(q)'
<1>1. proc'[q] = proc[q]
  BY OthersStand
<1>2. /\ ~Initialising(q) /\ proc[q].at \notin {"open", "write", "rename", "access"}
      /\ ~SavesKey(q) /\ ~BetweenTheTwo(q)
  BY AloneInit
<1> QED
  BY <1>1, <1>2 DEF InitOK, At, Initialising, Running, SavesKey, BetweenTheTwo

\* An init runs alone unless two have raced, and saves key, pub, config in order.
LEMMA IdentityStep ==
  ASSUME TypeOK, Phases, NoAlias, IdentityInv, NEW p \in Process, Step(p)
  PROVE  IdentityInv'
<1> DEFINE Alone == \A r, q \in Process : Initialising(r) /\ Initialising(q) => r = q
<1>0. /\ \A q \in Process : q # p => proc'[q] = proc[q]
      /\ proc[p] \in Terminal /\ Saved \subseteq File /\ "key" \in Saved /\ "pub" \in Saved
      /\ proc[p].self \in Nat /\ proc[p].file \in Saved
  BY OthersStand DEF TypeOK, File, Saved, Terminal
<1>1. SUFFICES ASSUME "identity" \notin raced'
               PROVE  Alone' /\ KeyOK' /\ PubOK' /\ \A q \in Process : InitOK(q)'
  <2>1. IdentityInv' <=> ("identity" \notin raced' => Alone' /\ KeyOK' /\ PubOK' /\ \A q \in Process : InitOK(q)')
    BY DEF IdentityInv, KeyOK, PubOK, InitOK
  <2> QED
    BY <2>1
<1>2. \A q \in Process : q # p => (BetweenTheTwo(q)' <=> BetweenTheTwo(q)) /\ (Initialising(q)' <=> Initialising(q))
  BY <1>0 DEF BetweenTheTwo, Initialising, Running, At
<1>3. ASSUME "identity" \notin raced PROVE Alone /\ KeyOK /\ PubOK /\ \A q \in Process : InitOK(q)
  BY <1>3, IdentityParts
<1>4. ASSUME Same("key") PROVE KeyOK => KeyOK'
  <2>1. \A n \in Nat : IsKey(n)' <=> IsKey(n)
    BY <1>4, SameKey
  <2> QED
    BY <1>4, <2>1, SameKey DEF KeyOK, IsKey
<1>5. CASE ~Inits(p)
  <2>1. /\ \A g \in Saved : Same(g) /\ SameTmp(g)
        /\ ~Initialising(p) /\ ~Initialising(p)'
        /\ proc'[p].at \notin {"open", "write", "rename"}
        /\ "identity" \notin raced /\ ("identity" \in cut' <=> "identity" \in cut)
    BY <1>1, <1>5, InitsNothing
  <2>2. ~BetweenTheTwo(p) /\ ~BetweenTheTwo(p)'
    BY <2>1, InitPlaces DEF BetweenTheTwo
  <2>3. Alone'
    BY <1>2, <1>3, <2>1
  <2>4. PubOK'
    BY <1>0, <1>2, <1>3, <2>1, <2>2, SameKey, SamePub DEF PubOK
  <2>5. \A q \in Process : InitOK(q)'
    <3>1. InitOK(p)'
      BY <2>1 DEF InitOK, At
    <3>2. \A q \in Process : q # p => InitOK(q)'
      BY <1>0, <1>3, <2>1, Bystander
    <3> QED
      BY <3>1, <3>2
  <2> QED
    BY <1>0, <1>3, <1>4, <2>1, <2>3, <2>4, <2>5
<1>6. CASE Stop(p)
  <2>1. /\ Exit(p) /\ UNCHANGED files /\ raced' = raced
        /\ cut' = cut \cup (IF BetweenTheTwo(p) THEN {"identity"} ELSE {})
                      \cup (IF At(p, "save") THEN {"known"} ELSE {})
    BY <1>6 DEF Stop
  <2>2. \A g \in Saved : Same(g) /\ SameTmp(g)
    BY <1>0, <2>1, UntouchedContents
  <2>3. proc'[p].at = "idle" /\ proc'[p].name = "none"
    BY <2>1, AfterExit DEF Idle
  <2>4. ~Initialising(p)' /\ InitOK(p)'
    BY <2>3 DEF Initialising, Running, InitOK, At
  <2>5. Alone'
    BY <1>1, <1>2, <1>3, <2>1, <2>4
  <2>6. "identity" \notin cut' => "identity" \notin cut /\ ~BetweenTheTwo(p)
    BY <2>1
  <2>7. PubOK'
    BY <1>0, <1>1, <1>2, <1>3, <2>1, <2>2, <2>6, SameKey, SamePub DEF PubOK
  <2>8. \A q \in Process : q # p => InitOK(q)'
    BY <1>0, <1>1, <1>3, <2>1, <2>2, Bystander
  <2> QED
    BY <1>0, <1>1, <1>3, <1>4, <2>1, <2>2, <2>4, <2>5, <2>7, <2>8
<1>7. CASE InitGenerates(p)
  <2>1. /\ UNCHANGED files /\ cut' = cut /\ At(p, "identity")
        /\ raced' = raced \cup (IF \E o \in Others(p) : Initialising(o) THEN {"identity"} ELSE {})
    BY <1>7 DEF InitGenerates
  <2>2. "identity" \notin raced /\ \A q \in Process : q # p => ~Initialising(q)
    BY <1>1, <2>1 DEF Others
  <2>3. \A g \in Saved : Same(g) /\ SameTmp(g)
    BY <1>0, <2>1, UntouchedContents
  <2>4. proc'[p].at = "open" /\ proc'[p].file = "key"
    BY <1>0, <1>7 DEF InitGenerates, TypeOK, Terminal
  <2>5. InitOK(p)'
    BY <2>4 DEF InitOK, At, SavesKey
  <2>6. Alone'
    BY <1>2, <2>2
  <2>7. ~BetweenTheTwo(p)
    BY <2>1 DEF BetweenTheTwo, At
  <2>8. PubOK'
    BY <1>0, <1>2, <1>3, <2>1, <2>2, <2>3, <2>7, SameKey, SamePub DEF PubOK
  <2>9. \A q \in Process : q # p => InitOK(q)'
    BY <1>0, <1>3, <2>2, <2>3, Bystander
  <2> QED
    BY <1>0, <1>3, <1>4, <2>2, <2>3, <2>5, <2>6, <2>8, <2>9
<1>8. CASE OpenTmp(p)
  <2>1. raced' = raced /\ cut' = cut /\ At(p, "open")
    BY <1>8 DEF OpenTmp, history
  <2>2. Initialising(p)
    BY <2>1, InitPlaces DEF At
  <2>3. \A q \in Process : q # p => InitOK(q)' /\ ~Initialising(q)'
    BY <1>1, <2>1, <2>2, OthersOfInit
  <2>4. /\ \A g \in File : Same(g)
        /\ proc'[p].at = "write" /\ proc'[p].fd = tmp'[proc[p].file] /\ proc'[p].file = proc[p].file
        /\ proc'[p].name = proc[p].name /\ proc'[p].self = proc[p].self
    BY <1>8, OpenTmpContents
  <2>5. (SavesKey(p)' <=> SavesKey(p)) /\ (BetweenTheTwo(p)' <=> BetweenTheTwo(p))
    BY <2>1, <2>4 DEF SavesKey, BetweenTheTwo, At
  <2>6. InitOK(p)'
    <3>1. ~SavesKey(p) => IsKey(proc[p].self)
      BY <1>1, <1>3, <2>1, <2>2 DEF InitOK
    <3>2. IsKey(proc[p].self) => IsKey(proc[p].self)'
      BY <1>0, <2>4, SameKey DEF IsKey
    <3>3. Initialising(p)' /\ ~SavesKey(p)' => IsKey(proc[p].self)'
      BY <2>5, <3>1, <3>2
    <3> QED
      BY <2>4, <3>3 DEF InitOK, At
  <2>7. Alone'
    BY <2>3
  <2>8. PubOK'
    BY <1>0, <1>1, <1>2, <1>3, <2>1, <2>4, <2>5, SameKey, SamePub DEF PubOK
  <2> QED
    BY <1>0, <1>1, <1>3, <1>4, <2>1, <2>3, <2>4, <2>6, <2>7, <2>8
<1>9. CASE WriteTmp(p)
  <2>1. raced' = raced /\ cut' = cut /\ At(p, "write")
    BY <1>9 DEF WriteTmp, history
  <2>2. Initialising(p)
    BY <2>1, InitPlaces DEF At
  <2>3. \A q \in Process : q # p => InitOK(q)' /\ ~Initialising(q)'
    BY <1>1, <2>1, <2>2, OthersOfInit
  <2>4. /\ \A g \in File \ {proc[p].file} : Same(g)
        /\ final' = final /\ tmp' = tmp
        /\ \A i \in Inode : disk'[i] = IF i = proc[p].fd THEN Text(p) ELSE disk[i]
        /\ proc'[p].at = "rename" /\ proc'[p].file = proc[p].file
        /\ proc'[p].name = proc[p].name /\ proc'[p].self = proc[p].self
    BY <1>9, WriteTmpContents
  <2>5. proc[p].fd = tmp[proc[p].file] /\ proc[p].fd \in Inode /\ proc[p].fd # NoFile
    <3>1. proc[p].fd = tmp[proc[p].file]
      BY <1>1, <1>3, <2>1 DEF InitOK
    <3>2. proc[p].fd # NoFile
      BY <2>1 DEF NoAlias
    <3> QED
      BY <1>0, <3>1, <3>2 DEF TypeOK
  <2>6. \A g \in File : Same(g)
    <3>1. \A g \in File : final[g] # proc[p].fd
      BY <1>0, <2>5 DEF NoAlias
    <3>2. \A g \in File : final[g] \in Inode \cup {NoFile}
      BY DEF TypeOK
    <3> QED
      BY <2>4, <3>1, <3>2 DEF Same, Exists, Content
  <2>7. (SavesKey(p)' <=> SavesKey(p)) /\ (BetweenTheTwo(p)' <=> BetweenTheTwo(p))
    BY <2>1, <2>4 DEF SavesKey, BetweenTheTwo, At
  <2>8. InitOK(p)'
    <3>1. ~SavesKey(p) => IsKey(proc[p].self)
      BY <1>1, <1>3, <2>1, <2>2 DEF InitOK
    <3>2. IsKey(proc[p].self) => IsKey(proc[p].self)'
      BY <1>0, <2>4, <2>6, SameKey DEF IsKey
    <3>3. tmp'[proc'[p].file] # NoFile /\ disk'[tmp'[proc'[p].file]] = Text(p)
      BY <2>4, <2>5
    <3>4. Text(p)' = Text(p)
      BY <2>4 DEF Text
    <3>5. Initialising(p)' /\ ~SavesKey(p)' => IsKey(proc[p].self)'
      BY <2>7, <3>1, <3>2
    <3> QED
      BY <2>4, <3>3, <3>4, <3>5 DEF InitOK, At
  <2>9. Alone'
    BY <2>3
  <2>10. PubOK'
    BY <1>0, <1>1, <1>2, <1>3, <2>1, <2>6, <2>7, SameKey, SamePub DEF PubOK
  <2> QED
    BY <1>0, <1>1, <1>3, <1>4, <2>1, <2>3, <2>6, <2>8, <2>9, <2>10
<1>10. CASE RenameTmp(p)
  <2>1. raced' = raced /\ At(p, "rename") /\ cut' = IF proc[p].file = "pub" THEN cut \ {"identity"} ELSE cut
    BY <1>10 DEF RenameTmp
  <2>2. Initialising(p)
    BY <2>1, InitPlaces DEF At
  <2>3. \A q \in Process : q # p => InitOK(q)' /\ ~Initialising(q)'
    BY <1>1, <2>1, <2>2, OthersOfInit
  <2>4. /\ \A g \in File \ {proc[p].file} : Same(g)
        /\ tmp[proc[p].file] # NoFile /\ final'[proc[p].file] = tmp[proc[p].file] /\ disk' = disk
    BY <1>10, RenameTmpContents
  <2>5. disk[tmp[proc[p].file]] = Text(p)
    BY <1>1, <1>3, <2>1 DEF InitOK
  <2>6. CASE proc[p].file = "key"
    <3>1. Text(p) = <<proc[p].self>> /\ final'["key"] # NoFile /\ disk'[final'["key"]] = <<proc[p].self>>
      BY <2>4, <2>5, <2>6 DEF Text
    <3>2. proc'[p].at = "open" /\ proc'[p].file = "pub" /\ proc'[p].self = proc[p].self
      BY <1>10, <2>6, AfterRename
    <3>3. KeyOK'
      BY <1>0, <3>1 DEF KeyOK, IsKey, Exists, Content
    <3>4. InitOK(p)'
      BY <3>1, <3>2 DEF InitOK, At, IsKey, Exists, Content
    <3>5. BetweenTheTwo(p)'
      BY <3>2 DEF BetweenTheTwo
    <3>6. PubOK'
      BY <3>5 DEF PubOK
    <3>7. Alone'
      BY <2>3
    <3> QED
      BY <2>3, <3>3, <3>4, <3>6, <3>7
  <2>7. CASE proc[p].file = "pub"
    <3>1. Text(p) = <<proc[p].self>> /\ final'["pub"] # NoFile /\ disk'[final'["pub"]] = <<proc[p].self>>
      BY <2>4, <2>5, <2>7 DEF Text
    <3>2. proc'[p].at = "access" /\ proc'[p].self = proc[p].self
      BY <1>10, <2>7, AfterRename
    <3>3. Same("key")
      BY <1>0, <2>4, <2>7
    <3>4. IsKey(proc[p].self)
      BY <1>1, <1>3, <2>1, <2>2, <2>7 DEF InitOK, SavesKey
    <3>5. IsKey(proc[p].self)'
      BY <1>0, <3>2, <3>3, <3>4, SameKey DEF IsKey
    <3>6. InitOK(p)'
      BY <3>2, <3>5 DEF InitOK, At
    <3>7. PubOK'
      BY <3>1, <3>2, <3>5 DEF PubOK, IsKey, Exists, Content
    <3>8. Alone'
      BY <2>3
    <3> QED
      BY <1>1, <1>3, <1>4, <2>1, <2>3, <3>3, <3>6, <3>7, <3>8
  <2>8. CASE proc[p].file = "config"
    <3>1. proc'[p].at = "idle" /\ proc'[p].name = "none"
      BY <1>10, <2>8, AfterRename DEF Idle
    <3>2. Same("key") /\ Same("pub")
      BY <1>0, <2>4, <2>8
    <3>3. InitOK(p)'
      BY <3>1 DEF InitOK, At, Initialising, Running
    <3>4. ~BetweenTheTwo(p) /\ cut' = cut
      BY <2>1, <2>8 DEF BetweenTheTwo
    <3>5. PubOK'
      BY <1>1, <1>2, <1>3, <2>1, <3>2, <3>4, SameKey, SamePub DEF PubOK
    <3>6. Alone'
      BY <2>3
    <3> QED
      BY <1>1, <1>3, <1>4, <2>1, <2>3, <3>2, <3>3, <3>5, <3>6
  <2> QED
    BY <1>0, <2>6, <2>7, <2>8 DEF Saved
<1>11. CASE InitChecksConfig(p)
  <2>1. UNCHANGED files /\ raced' = raced /\ cut' = cut /\ At(p, "access")
    BY <1>11 DEF InitChecksConfig
  <2>2. Initialising(p)
    BY <2>1, InitPlaces DEF At
  <2>3. \A q \in Process : q # p => InitOK(q)' /\ ~Initialising(q)'
    BY <1>1, <2>1, <2>2, OthersOfInit
  <2>4. \A g \in Saved : Same(g)
    BY <1>0, <2>1, UntouchedContents
  <2>5. IsKey(proc[p].self) /\ ~BetweenTheTwo(p)
    BY <1>1, <1>3, <2>1, <2>2 DEF InitOK, SavesKey, BetweenTheTwo, At
  <2>6. InitOK(p)'
    <3>1. CASE Exit(p)
      <4>1. proc'[p].at = "idle" /\ proc'[p].name = "none"
        BY <3>1, AfterExit DEF Idle
      <4> QED
        BY <4>1 DEF InitOK, At, Initialising, Running
    <3>2. CASE proc' = [proc EXCEPT ![p].at = "open", ![p].file = "config"]
      <4>1. proc'[p].at = "open" /\ proc'[p].self = proc[p].self
        BY <1>0, <3>2 DEF TypeOK, Terminal
      <4>2. IsKey(proc[p].self)'
        BY <1>0, <2>4, <2>5, <4>1, SameKey DEF IsKey
      <4> QED
        BY <4>1, <4>2 DEF InitOK, At
    <3> QED
      BY <1>11, <3>1, <3>2 DEF InitChecksConfig
  <2>7. PubOK'
    BY <1>0, <1>1, <1>2, <1>3, <2>1, <2>4, <2>5, SameKey, SamePub DEF PubOK
  <2>8. Alone'
    BY <2>3
  <2> QED
    BY <1>0, <1>1, <1>3, <1>4, <2>1, <2>3, <2>4, <2>6, <2>7, <2>8
<1> QED
  BY <1>5, <1>6, <1>7, <1>8, <1>9, <1>10, <1>11 DEF Inits

\* A terminal that does not move keeps its conjuncts when key and config stay.
LEMMA UnforcedBystander ==
  ASSUME TypeOK, NEW q \in Process, proc'[q] = proc[q], UnforcedOK(q), Same("key"), edited' = edited
  PROVE  UnforcedOK(q)'
<1>1. proc[q].self \in Nat
  BY DEF TypeOK, Terminal
<1>2. IsKey(proc[q].self)' <=> IsKey(proc[q].self)
  BY <1>1, SameKey DEF IsKey
<1>3. (Initialising(q)' <=> Initialising(q)) /\ (SavesKey(q)' <=> SavesKey(q))
  BY DEF Initialising, Running, At, SavesKey
<1>4. (SavesKey(q) => ~Exists("key")) => (SavesKey(q)' => ~Exists("key")')
  BY <1>3, SameKey
<1> QED
  BY <1>2, <1>3, <1>4 DEF UnforcedOK

\* The registered keys stay that of identity.key, when none is added or this one.
LEMMA SameRegistered ==
  ASSUME TypeOK, Same("key"), registered' = registered, RegisteredOK
  PROVE  RegisteredOK'
<1>1. registered \subseteq Nat
  BY DEF TypeOK
<1>2. \A n \in Nat : IsKey(n)' <=> IsKey(n)
  BY SameKey
<1> QED
  BY <1>1, <1>2 DEF RegisteredOK

LEMMA MoreRegistered ==
  ASSUME TypeOK, Same("key"), NEW p \in Process, RegisteredOK,
         registered' = registered \cup {proc[p].self}, IsKey(proc[p].self)
  PROVE  RegisteredOK'
<1>1. registered' \subseteq Nat /\ \A k \in registered' : IsKey(k)
  BY DEF TypeOK, Terminal, RegisteredOK
<1>2. \A n \in Nat : IsKey(n)' <=> IsKey(n)
  BY SameKey
<1> QED
  BY <1>1, <1>2 DEF RegisteredOK

\* The edited config.toml is what it was.
LEMMA SameConfig ==
  ASSUME Same("config"), edited' = edited, ConfigOK
  PROVE  ConfigOK'
BY DEF Same, ConfigOK, Exists

\* Without --force an init that finds a key ends before it saves one.
LEMMA UnforcedStep ==
  ASSUME TypeOK, Phases, NoAlias, IdentityInv, UnforcedInv, NEW p \in Process, Step(p)
  PROVE  UnforcedInv'
<1>0. /\ \A q \in Process : q # p => proc'[q] = proc[q]
      /\ proc[p] \in Terminal /\ Saved \subseteq File
      /\ "key" \in Saved /\ "config" \in Saved /\ "pub" \in Saved
      /\ proc[p].self \in Nat /\ proc[p].file \in Saved
  BY OthersStand DEF TypeOK, File, Saved, Terminal
<1>1. SUFFICES ASSUME ~forced', "identity" \notin raced'
               PROVE  RegisteredOK' /\ ConfigOK' /\ \A q \in Process : UnforcedOK(q)'
  <2>1. UnforcedInv' <=> (~forced' /\ "identity" \notin raced' =>
                            RegisteredOK' /\ ConfigOK' /\ \A q \in Process : UnforcedOK(q)')
    BY DEF UnforcedInv, RegisteredOK, ConfigOK, UnforcedOK
  <2> QED
    BY <2>1
<1>2. ASSUME ~forced, "identity" \notin raced
      PROVE  /\ RegisteredOK /\ ConfigOK /\ \A q \in Process : UnforcedOK(q)
             /\ KeyOK /\ \A q \in Process : InitOK(q)
  BY <1>2, IdentityParts
<1>3. CASE ~Inits(p)
  <2>1. /\ \A g \in Saved : Same(g) /\ SameTmp(g)
        /\ ~Initialising(p) /\ ~Initialising(p)'
        /\ proc'[p].at \notin {"open", "write", "rename"}
        /\ edited' = edited /\ ~forced /\ "identity" \notin raced
        /\ \/ registered' = registered
           \/ registered' = registered \cup {proc[p].self} /\ At(p, "server")
        /\ proc'[p].at \in {"config", "server"} =>
             \/ proc[p].at \in {"config", "server"} /\ proc'[p].self = proc[p].self
             \/ Whole("key") /\ proc'[p].self = Content("key")[1]
    BY <1>1, <1>3, InitsNothing
  <2>2. Same("key") /\ Same("config")
    BY <1>0, <2>1
  <2>3. At(p, "server") => IsKey(proc[p].self)
    BY <1>2, <2>1 DEF UnforcedOK, At
  <2>4. RegisteredOK'
    BY <1>2, <2>1, <2>2, <2>3, SameRegistered, MoreRegistered
  <2>5. ConfigOK'
    BY <1>2, <2>1, <2>2, SameConfig
  <2>6. proc'[p].at \in {"config", "server"} => IsKey(proc[p].self)'
    <3>1. CASE proc[p].at \in {"config", "server"} /\ proc'[p].self = proc[p].self
      <4>1. IsKey(proc[p].self)
        BY <1>2, <2>1, <3>1 DEF UnforcedOK
      <4> QED
        BY <1>0, <2>2, <3>1, <4>1, SameKey DEF IsKey
    <3>2. CASE Whole("key") /\ proc'[p].self = Content("key")[1]
      <4>1. IsKey(Content("key")[1]) /\ Exists("key")
        BY <1>2, <2>1, <3>2 DEF KeyOK, Whole
      <4>2. Content("key") = <<proc'[p].self>>
        BY <3>2, <4>1 DEF IsKey
      <4> QED
        BY <2>2, <4>1, <4>2, SameKey DEF IsKey
    <3> QED
      BY <2>1, <3>1, <3>2
  <2>7. UnforcedOK(p)'
    BY <2>1, <2>6 DEF UnforcedOK, SavesKey
  <2>8. \A q \in Process : q # p => UnforcedOK(q)'
    BY <1>0, <1>2, <2>1, <2>2, UnforcedBystander
  <2> QED
    BY <2>4, <2>5, <2>7, <2>8
<1>4. CASE Stop(p)
  <2>1. /\ Exit(p) /\ UNCHANGED files /\ raced' = raced /\ forced' = forced
        /\ registered' = registered /\ edited' = edited
    BY <1>4 DEF Stop
  <2>2. Same("key") /\ Same("config")
    BY <1>0, <2>1, UntouchedContents
  <2>3. proc'[p].at = "idle" /\ proc'[p].name = "none"
    BY <2>1, AfterExit DEF Idle
  <2>4. UnforcedOK(p)'
    BY <2>3 DEF UnforcedOK, SavesKey, Initialising, Running
  <2>5. \A q \in Process : q # p => UnforcedOK(q)'
    BY <1>0, <1>1, <1>2, <2>1, <2>2, UnforcedBystander
  <2> QED
    BY <1>1, <1>2, <2>1, <2>2, <2>4, <2>5, SameRegistered, SameConfig
<1>5. CASE InitGenerates(p)
  <2>1. /\ UNCHANGED files /\ (forced' <=> forced \/ proc[p].force) /\ "identity" \notin raced
        /\ registered' = registered /\ edited' = edited
        /\ Exists("key") => proc[p].force
    BY <1>1, <1>5 DEF InitGenerates
  <2>2. ~forced /\ ~proc[p].force /\ ~Exists("key")
    BY <1>1, <2>1
  <2>3. Same("key") /\ Same("config")
    BY <1>0, <2>1, UntouchedContents
  <2>4. proc'[p].at = "open" /\ proc'[p].file = "key" /\ proc'[p].force = proc[p].force
    BY <1>0, <1>5 DEF InitGenerates, TypeOK, Terminal
  <2>5. UnforcedOK(p)'
    BY <2>2, <2>3, <2>4, SameKey DEF UnforcedOK
  <2>6. \A q \in Process : q # p => UnforcedOK(q)'
    BY <1>0, <1>2, <2>1, <2>2, <2>3, UnforcedBystander
  <2> QED
    BY <1>2, <2>1, <2>2, <2>3, <2>5, <2>6, SameRegistered, SameConfig
<1>6. ASSUME OpenTmp(p) \/ WriteTmp(p), Same("key"), Same("config")
      PROVE  RegisteredOK' /\ ConfigOK' /\ \A q \in Process : UnforcedOK(q)'
  <2>1. /\ raced' = raced /\ forced' = forced /\ registered' = registered /\ edited' = edited
        /\ proc[p].at \in {"open", "write"}
    BY <1>6 DEF OpenTmp, WriteTmp, history, At
  <2>2. /\ proc'[p].at \in {"write", "rename"} /\ proc'[p].file = proc[p].file
        /\ proc'[p].name = proc[p].name /\ proc'[p].force = proc[p].force
    BY <1>6, OpenTmpContents, WriteTmpContents
  <2>3. Initialising(p) /\ (SavesKey(p)' <=> SavesKey(p))
    BY <2>1, <2>2, InitPlaces DEF SavesKey
  <2>4. UnforcedOK(p)'
    BY <1>1, <1>2, <1>6, <2>1, <2>2, <2>3, SameKey DEF UnforcedOK
  <2>5. \A q \in Process : q # p => UnforcedOK(q)'
    BY <1>0, <1>1, <1>2, <1>6, <2>1, UnforcedBystander
  <2> QED
    BY <1>1, <1>2, <1>6, <2>1, <2>4, <2>5, SameRegistered, SameConfig
<1>7. CASE OpenTmp(p)
  BY <1>0, <1>6, <1>7, OpenTmpContents
<1>8. CASE WriteTmp(p)
  <2>1. /\ final' = final /\ raced' = raced /\ forced' = forced /\ At(p, "write")
        /\ \A i \in Inode : disk'[i] = IF i = proc[p].fd THEN Text(p) ELSE disk[i]
    BY <1>8, WriteTmpContents DEF WriteTmp, history
  <2>2. proc[p].fd = tmp[proc[p].file] /\ proc[p].fd # NoFile
    BY <1>1, <1>2, <2>1 DEF InitOK, NoAlias
  <2>3. \A g \in File : final[g] # proc[p].fd /\ final[g] \in Inode \cup {NoFile}
    BY <1>0, <2>2 DEF NoAlias, TypeOK
  <2>4. \A g \in File : Same(g)
    BY <2>1, <2>3 DEF Same, Exists, Content
  <2> QED
    BY <1>0, <1>6, <1>8, <2>4
<1>9. CASE RenameTmp(p)
  <2>1. /\ raced' = raced /\ forced' = forced /\ edited' = edited /\ At(p, "rename")
        /\ registered' = registered \cup (IF proc[p].file = "config" THEN {proc[p].self} ELSE {})
    BY <1>9 DEF RenameTmp
  <2>2. Initialising(p)
    BY <2>1, InitPlaces DEF At
  <2>3. \A g \in File \ {proc[p].file} : Same(g)
    BY <1>9, RenameTmpContents
  <2>4. ~proc[p].force
    BY <1>1, <1>2, <2>1, <2>2 DEF UnforcedOK
  <2>5. CASE proc[p].file = "key"
    <3>1. ~Exists("key")
      BY <1>1, <1>2, <2>1, <2>5 DEF UnforcedOK, SavesKey, At
    <3>2. registered' = {} /\ \A q \in Process : proc[q].at \notin {"config", "server"}
      BY <1>1, <1>2, <2>1, <2>5, <3>1 DEF UnforcedOK, RegisteredOK, IsKey
    <3>3. ConfigOK'
      BY <1>0, <1>1, <1>2, <2>1, <2>3, <2>5, SameConfig
    <3>4. UnforcedOK(p)'
      <4>1. proc'[p].at = "open" /\ proc'[p].file = "pub" /\ proc'[p].force = proc[p].force
        BY <1>9, <2>5, AfterRename
      <4> QED
        BY <2>4, <4>1 DEF UnforcedOK, SavesKey
    <3>5. ASSUME NEW q \in Process, q # p PROVE UnforcedOK(q)'
      <4>1. ~Initialising(q)' /\ ~SavesKey(q)'
        BY <1>1, <2>1, <2>2, <3>5, OthersOfInit
      <4>2. proc'[q].at \notin {"config", "server"}
        BY <1>0, <3>2, <3>5
      <4> QED
        BY <4>1, <4>2 DEF UnforcedOK
    <3> QED
      BY <3>2, <3>3, <3>4, <3>5 DEF RegisteredOK
  <2>6. CASE proc[p].file # "key"
    <3>1. Same("key")
      BY <1>0, <2>3, <2>6
    <3>2. \A q \in Process : q # p => UnforcedOK(q)'
      BY <1>0, <1>1, <1>2, <2>1, <3>1, UnforcedBystander
    <3>3. CASE proc[p].file = "pub"
      <4>1. proc'[p].at = "access" /\ proc'[p].file = "pub" /\ proc'[p].force = proc[p].force
        BY <1>9, <3>3, AfterRename
      <4>2. UnforcedOK(p)'
        BY <2>4, <4>1 DEF UnforcedOK, SavesKey
      <4>3. Same("config") /\ registered' = registered
        BY <1>0, <2>1, <2>3, <3>3
      <4> QED
        BY <1>1, <1>2, <2>1, <3>1, <3>2, <4>2, <4>3, SameRegistered, SameConfig
    <3>4. CASE proc[p].file = "config"
      <4>1. proc'[p].at = "idle" /\ proc'[p].name = "none"
        BY <1>9, <3>4, AfterRename DEF Idle
      <4>2. UnforcedOK(p)'
        BY <4>1 DEF UnforcedOK, SavesKey, Initialising, Running
      <4>3. ~edited
        BY <1>1, <1>2, <2>1, <2>2, <3>4 DEF UnforcedOK
      <4>4. IsKey(proc[p].self)
        BY <1>1, <1>2, <2>1, <2>2, <2>6 DEF InitOK, SavesKey
      <4>5. RegisteredOK'
        BY <1>1, <1>2, <2>1, <3>1, <3>4, <4>4, MoreRegistered
      <4> QED
        BY <2>1, <3>2, <4>2, <4>3, <4>5 DEF ConfigOK
    <3> QED
      BY <1>0, <2>6, <3>3, <3>4 DEF Saved
  <2> QED
    BY <2>5, <2>6
<1>10. CASE InitChecksConfig(p)
  <2>1. UNCHANGED files /\ raced' = raced /\ forced' = forced /\ edited' = edited /\ At(p, "access")
    BY <1>10 DEF InitChecksConfig
  <2>2. Initialising(p)
    BY <2>1, InitPlaces DEF At
  <2>3. Same("key") /\ Same("config")
    BY <1>0, <2>1, UntouchedContents
  <2>4. IsKey(proc[p].self) /\ ~proc[p].force
    BY <1>1, <1>2, <2>1, <2>2 DEF InitOK, UnforcedOK, SavesKey, At
  <2>5. \A q \in Process : q # p => UnforcedOK(q)'
    BY <1>0, <1>1, <1>2, <2>1, <2>3, UnforcedBystander
  <2>6. ConfigOK'
    BY <1>1, <1>2, <2>1, <2>3, SameConfig
  <2>7. CASE KeepsConfig(p)
    <3>1. Exit(p) /\ registered' = registered \cup {proc[p].self}
      BY <1>10, <2>7 DEF InitChecksConfig
    <3>2. proc'[p].at = "idle" /\ proc'[p].name = "none"
      BY <3>1, AfterExit DEF Idle
    <3>3. UnforcedOK(p)'
      BY <3>2 DEF UnforcedOK, SavesKey, Initialising, Running
    <3>4. RegisteredOK'
      BY <1>1, <1>2, <2>1, <2>3, <2>4, <3>1, MoreRegistered
    <3> QED
      BY <2>5, <2>6, <3>3, <3>4
  <2>8. CASE ~KeepsConfig(p)
    <3>1. proc' = [proc EXCEPT ![p].at = "open", ![p].file = "config"] /\ registered' = registered
      BY <1>10, <2>8 DEF InitChecksConfig
    <3>2. proc'[p].at = "open" /\ proc'[p].file = "config" /\ proc'[p].force = proc[p].force
      BY <1>0, <3>1 DEF TypeOK, Terminal
    <3>3. ~edited
      BY <1>1, <1>2, <2>1, <2>4, <2>8 DEF KeepsConfig, ConfigOK
    <3>4. UnforcedOK(p)'
      BY <2>1, <2>4, <3>2, <3>3 DEF UnforcedOK, SavesKey
    <3>5. RegisteredOK'
      BY <1>1, <1>2, <2>1, <2>3, <3>1, SameRegistered
    <3> QED
      BY <2>5, <2>6, <3>4, <3>5
  <2> QED
    BY <2>7, <2>8
<1> QED
  BY <1>3, <1>4, <1>5, <1>7, <1>8, <1>9, <1>10 DEF Inits

LEMMA IdentityEdit ==
  ASSUME TypeOK, Phases, NoAlias, IdentityInv, UnforcedInv, EditConfig
  PROVE  IdentityInv' /\ UnforcedInv'
<1>1. /\ Same("key") /\ Same("pub") /\ Exists("config")' /\ Content("config")' = Edited
      /\ UNCHANGED <<proc, registered, forced, raced, cut>>
      /\ \A q \in Process : ~Initialising(q)
  BY EditContents DEF EditConfig, File, Saved
<1>2. \A q \in Process : proc[q].at \notin {"open", "write", "rename", "access"}
  BY <1>1, InitPlaces
<1>3. \A n \in Nat : IsKey(n)' <=> IsKey(n)
  BY <1>1, SameKey
<1>4. \A q \in Process : ~Initialising(q)' /\ ~BetweenTheTwo(q)' /\ ~BetweenTheTwo(q) /\ ~SavesKey(q)'
  BY <1>1, <1>2 DEF Initialising, Running, At, BetweenTheTwo, SavesKey
<1>5. KeyOK => KeyOK'
  BY <1>1, <1>3, SameKey DEF KeyOK, IsKey
<1>6. PubOK => PubOK'
  BY <1>1, <1>4, SameKey, SamePub DEF PubOK
<1>7. \A q \in Process : InitOK(q)'
  BY <1>1, <1>2, <1>4 DEF InitOK, At
<1>8. IdentityInv'
  <2>1. IdentityInv' <=>
          ("identity" \notin raced' =>
             /\ (\A r, q \in Process : Initialising(r) /\ Initialising(q) => r = q)'
             /\ KeyOK' /\ PubOK' /\ \A q \in Process : InitOK(q)')
    BY DEF IdentityInv, KeyOK, PubOK, InitOK
  <2> QED
    BY <1>1, <1>4, <1>5, <1>6, <1>7, <2>1, IdentityParts
<1>9. RegisteredOK => RegisteredOK'
  BY <1>1, SameRegistered
<1>10. ConfigOK'
  BY <1>1 DEF ConfigOK
<1>11. ASSUME NEW q \in Process, UnforcedOK(q) PROVE UnforcedOK(q)'
  <2>1. proc[q].self \in Nat
    BY DEF TypeOK, Terminal
  <2>2. IsKey(proc[q].self)' <=> IsKey(proc[q].self)
    BY <1>1, <1>3, <2>1 DEF IsKey
  <2> QED
    BY <1>1, <1>4, <1>11, <2>2 DEF UnforcedOK
<1>12. UnforcedInv'
  <2>1. UnforcedInv' <=> (~forced' /\ "identity" \notin raced' =>
                            RegisteredOK' /\ ConfigOK' /\ \A q \in Process : UnforcedOK(q)')
    BY DEF UnforcedInv, RegisteredOK, ConfigOK, UnforcedOK
  <2> QED
    BY <1>1, <1>9, <1>10, <1>11, <2>1, IdentityParts
<1> QED
  BY <1>8, <1>12

-----------------------------------------------------------------------------
(* The theorems.                                                           *)

LEMMA IInvInit == Init => IInv
<1> SUFFICES ASSUME Init PROVE IInv
  OBVIOUS
<1>1. \A q \in Process : proc[q].at = "idle" /\ proc[q].name = "none"
  BY DEF Init, Idle
<1>2. Phases
  BY <1>1 DEF Phases, At, Running
<1> QED
  BY <1>2, TypeInit, KeyTextsInit, NoAliasInit, TrustInit, StayInit, IdentityInit DEF IInv

LEMMA IInvStep == IInv /\ [Next]_vars => IInv'
<1> SUFFICES ASSUME IInv, [Next]_vars PROVE IInv'
  OBVIOUS
<1>1. ASSUME NEW p \in Process, Step(p) PROVE IInv'
  BY <1>1, TypeStep, KeyTextsStep, PhasesStep, NoAliasStep, TrustStep, StayStep, IdentityStep,
     UnforcedStep DEF IInv
<1>2. CASE EditConfig
  <2>1. Phases'
    BY <1>2 DEF IInv, EditConfig, Phases, At, Running
  <2> QED
    BY <1>2, <2>1, TypeEdit, KeyTextsEdit, NoAliasEdit, KnownEdit, IdentityEdit DEF IInv
<1>3. CASE UNCHANGED vars
  <2>1. UNCHANGED <<final, tmp, disk, proc, keys, open, left, registered, edited, confirmed,
                    enrolled, forced, raced, cut>>
    BY <1>3 DEF vars, files, history
  <2>2. TypeOK' /\ Phases' /\ KeyTexts'
    BY <2>1 DEF IInv, TypeOK, Phases, KeyTexts, At, Running, Exists, Content
  <2>3. NoAlias'
    BY <2>1 DEF IInv, NoAlias, At, Exists
  <2>4. TrustInv' /\ StayInv'
    <3>1. KnownText' = KnownText /\ KnownPeers' = KnownPeers
      BY <2>1, SameKnownPeers DEF files
    <3> QED
      BY <2>1, <3>1 DEF IInv, TrustInv, StayInv, At, Peer, Saving
  <2>5. IdentityInv'
    BY <2>1 DEF IInv, IdentityInv, Initialising, Running, At, Exists, Content, IsKey, SavesKey,
                Text, BetweenTheTwo
  <2>6. UnforcedInv'
    BY <2>1 DEF IInv, UnforcedInv, Initialising, Running, At, Exists, Content, IsKey, SavesKey
  <2> QED
    BY <2>2, <2>3, <2>4, <2>5, <2>6 DEF IInv
<1> QED
  BY <1>1, <1>2, <1>3 DEF Next

\* Every step of every terminal, every kill and every edit keeps the invariant.
THEOREM Invariance == Spec => []IInv
BY IInvInit, IInvStep, PTL DEF Spec

\* The state of the directory, of the terminals and of the histories has its
\* type: in particular a new file always finds a free inode.
THEOREM DirectoryTypes == Spec => []TypeOK
<1>1. IInv => TypeOK
  BY DEF IInv
<1> QED
  BY <1>1, Invariance, PTL

\* identity.key never holds less than a key pair and identity.pub belongs to it,
\* whatever is killed and whenever (identity-storage.ts:52).
THEOREM KeyPairWhole == Spec => []IdentityIsWhole
<1>1. IInv => IdentityIsWhole
  BY DEF IInv, IdentityInv, IdentityIsWhole, Whole, IsKey, Exists, Content, Empty
<1> QED
  BY <1>1, Invariance, PTL

\* Nothing but init --force replaces an identity that somebody has been told,
\* or the config.toml that the user has edited.
THEOREM OnlyForceReplaces == Spec => []NothingIsReplacedUnforced
<1>1. IInv => NothingIsReplacedUnforced
  BY DEF IInv, UnforcedInv, NothingIsReplacedUnforced, Whole, IsKey, Empty
<1> QED
  BY <1>1, Invariance, PTL

\* A peer is verified in known_peers.toml only if the user has confirmed its
\* fingerprint: whatever saves overlap, and whatever is cut short, unless one
\* list met both (known-peers.ts:46-83, 136-138).
THEOREM VerifiedOnlyIfConfirmed == Spec => []TrustIsEarned
<1>1. IInv => TrustIsEarned
  BY KnownPeersEarned DEF IInv, TrustIsEarned, Earned
<1> QED
  BY <1>1, Invariance, PTL

\* A peer that was reported as added stays, with its trust, as long as no two
\* saves have overlapped and none was cut short (accept.ts:200-217).
THEOREM AddedPeersStay == Spec => []KnownPeersStay
<1>1. IInv => KnownPeersStay
  BY DirectoryAssumption DEF IInv, StayInv, KnownPeersStay
<1> QED
  BY <1>1, Invariance, PTL
=============================================================================
