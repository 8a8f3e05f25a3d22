----------------------------- MODULE MCMailStore -----------------------------
(***************************************************************************)
(* MailStore on small instances.  The batches are those in which every     *)
(* message is named once, as the cycles build them: a page keeps one       *)
(* change per message, and a removal, a flag change and an arrival come    *)
(* from disjoint parts of a listing.                                       *)
(***************************************************************************)
EXTENDS MailStore, FiniteSets, TLC

CONSTANTS a1, f1, f2, m1, m2,
          MaxNamed,     \* how many messages one batch names
          Contents      \* the contents fetched records bring

\* The states a batch of this instance saves.
States == {{}, {NeverSynchronized}, {[synchronized |-> TRUE, place |-> NoPlace]}}

\* What a batch says of one message.
Named == [part : {"removed"}]
         \union [part : {"flag_states", "known_arrived"}, flags : Flags]
         \union [part : {"arrived"}, flags : Flags, content : Contents]

Part(roles, part) == {i \in DOMAIN roles : roles[i].part = part}

BatchOf(roles, state) ==
    [removed       |-> Part(roles, "removed"),
     flag_states   |-> [i \in Part(roles, "flag_states") |-> roles[i].flags],
     known_arrived |-> [i \in Part(roles, "known_arrived") |-> roles[i].flags],
     arrived       |-> [i \in Part(roles, "arrived") |->
                           [flags |-> roles[i].flags, content |-> roles[i].content]],
     state         |-> state]

SomeMessages == {ids \in SUBSET MessageId : Cardinality(ids) <= MaxNamed}
MCBatch == UNION {{BatchOf(roles, state) : roles \in [ids -> Named]} :
                     ids \in SomeMessages, state \in States} \ {EmptyBatch}

Symmetry == Permutations(Account) \union Permutations(FolderId) \union Permutations(MessageId)
=============================================================================
