---------------------------- MODULE Announcements ----------------------------
(***************************************************************************)
(* Telling the contacts where this client collects (core/src/core.rs).  A  *)
(* hosted relay has a new address at every launch; announce_pending holds  *)
(* the contacts to be told, and is cleared one by one as they are heard    *)
(* from.  Letters travel by relay or through the network, in any order,    *)
(* and one that waited in the network may be days old.                     *)
(***************************************************************************)
EXTENDS Naturals

CONSTANTS Friends,      \* contacts
          MaxLaunches,  \* bound on launches, each with an address of its own
          MaxTold,      \* bound on announcements sent in one launch
          MaxAnswers    \* bound on letters the contacts write

VARIABLES launch,       \* the address of this launch's hosted relay
          announcing,   \* announce_pending
          announcedAt,  \* announce_sent_at: those told within ANNOUNCE_REPEAT_EVERY
          accepted,     \* contacts neither blocked nor still a request of theirs
          outbound,     \* our letters under way: <<friend, address named>>
          inbound,      \* theirs: <<friend, the address they had for us>>
          knows,        \* the address each friend has for us
          cleared,      \* whom note_heard_from took off the list in this launch
          told, answers

announceVars == <<launch, announcing, announcedAt, accepted, outbound, inbound,
                  knows, cleared, told, answers>>

AnnouncementsInit ==
    /\ launch = 1 /\ announcing = {} /\ announcedAt = {} /\ accepted \in SUBSET Friends
    /\ outbound = {} /\ inbound = {} /\ knows = [f \in Friends |-> 1] /\ cleared = {}
    /\ told = 0 /\ answers = 0

\* run_hosted_relay: the relay is up under a new address, and every contact
\* is to be told.  The lists themselves do not survive a launch.
Launch ==
    /\ launch < MaxLaunches
    /\ launch' = launch + 1
    /\ announcing' = Friends
    /\ announcedAt' = {} /\ cleared' = {} /\ told' = 0
    /\ UNCHANGED <<accepted, outbound, inbound, knows, answers>>

\* flush_relay_announcements, for one contact of the list.
FlushAnnouncement(f) ==
    /\ f \in announcing
    /\ IF f \notin accepted
       THEN announcing' = announcing \ {f} /\ UNCHANGED <<announcedAt, outbound, told>>
       ELSE /\ f \notin announcedAt /\ told < MaxTold
            /\ told' = told + 1
            /\ outbound' = outbound \union {<<f, launch>>}
            /\ announcedAt' = announcedAt \union {f}
            /\ UNCHANGED announcing
    /\ UNCHANGED <<launch, accepted, inbound, knows, cleared, answers>>

\* ANNOUNCE_REPEAT_EVERY has passed.
RepeatDue(f) ==
    /\ f \in announcedAt
    /\ announcedAt' = announcedAt \ {f}
    /\ UNCHANGED <<launch, announcing, accepted, outbound, inbound, knows, cleared, told, answers>>

\* accept_contact_request: the contact is let in, and told at the next round.
Accept(f) ==
    /\ f \notin accepted
    /\ accepted' = accepted \union {f}
    /\ announcing' = announcing \union {f}
    /\ UNCHANGED <<launch, announcedAt, outbound, inbound, knows, cleared, told, answers>>

\* apply_contact_hints at the friend's end.
FriendReads(m) ==
    /\ m \in outbound
    /\ outbound' = outbound \ {m}
    /\ knows' = [knows EXCEPT ![m[1]] = m[2]]
    /\ UNCHANGED <<launch, announcing, announcedAt, accepted, inbound, cleared, told, answers>>

FriendWrites(f) ==
    /\ answers < MaxAnswers
    /\ answers' = answers + 1
    /\ inbound' = inbound \union {<<f, knows[f]>>}
    /\ UNCHANGED <<launch, announcing, announcedAt, accepted, outbound, knows, cleared, told>>

\* persist_incoming: note_heard_from.
HearFrom(m) ==
    /\ m \in inbound
    /\ inbound' = inbound \ {m}
    /\ announcing' = announcing \ {m[1]}
    /\ IF m[1] \in announcing
       THEN announcedAt' = announcedAt \ {m[1]} /\ cleared' = cleared \union {m[1]}
       ELSE UNCHANGED <<announcedAt, cleared>>
    /\ UNCHANGED <<launch, accepted, outbound, knows, told, answers>>

AnnouncementsNext ==
    \/ Launch
    \/ \E f \in Friends : FlushAnnouncement(f) \/ RepeatDue(f) \/ Accept(f) \/ FriendWrites(f)
    \/ \E m \in outbound : FriendReads(m)
    \/ \E m \in inbound : HearFrom(m)

AnnouncementsSpec == AnnouncementsInit /\ [][AnnouncementsNext]_announceVars

\* A contact no longer announced to because something came from it has this
\* launch's address (core.rs: "which is the only proof they have our
\* address").
HeardFromKnowsAddress == \A f \in cleared : knows[f] = launch
=============================================================================
