----------------------------- MODULE JsonMembers -----------------------------
(***************************************************************************)
(* Which members of a Go struct its JSON form has.                         *)
(*                                                                         *)
(* A struct promotes the members of the structs it embeds, so several      *)
(* members may bear one name.  The documentation must list those           *)
(* encoding/json serializes; okapi finds them in one pass over all         *)
(* members (dominantFields), remembering the best member of each name and  *)
(* whether another is as good.  Here the pass is a behaviour that meets    *)
(* one member after the other, any members in any order.                   *)
(***************************************************************************)
EXTENDS Integers, Sequences

CONSTANTS
    MemberNames,  \* JSON names
    MaxDepth,     \* how deep structs are embedded
    MaxMembers    \* how many members a struct has, at most

ASSUME JsonMembersAssumption == MaxDepth \in Nat /\ MaxMembers \in Nat

\* schemaField: depth is the length of its index, tagged: named by a json tag.
Members == [name : MemberNames, depth : 1..MaxDepth, tagged : BOOLEAN]

VARIABLES
    members,    \* the members met so far (fields[:i])
    winners,    \* for each name the position of its best member, 0 for none
    ambiguous   \* the names whose best member has an equal

membersVars == <<members, winners, ambiguous>>

MembersTypeOK ==
    /\ members \in Seq(Members)
    /\ winners \in [MemberNames -> 0..Len(members)]
    /\ ambiguous \subseteq MemberNames

MembersInit ==
    /\ members = <<>>
    /\ winners = [name \in MemberNames |-> 0]
    /\ ambiguous = {}

\* dominance: positive when a dominates b, zero when neither does.
Dominance(a, b) ==
    IF a.depth # b.depth THEN b.depth - a.depth
    ELSE IF a.tagged = b.tagged THEN 0
    ELSE IF a.tagged THEN 1 ELSE -1

\* Bug: a better member leaves its name ambiguous.
ConsiderKeepsTie(member) ==
    LET best == winners[member.name]
        d    == IF best = 0 THEN 1 ELSE Dominance(member, members[best])
    IN  /\ members' = Append(members, member)
        /\ winners' = IF d > 0 THEN [winners EXCEPT ![member.name] = Len(members) + 1]
                      ELSE winners
        /\ ambiguous' = IF d = 0 THEN ambiguous \cup {member.name} ELSE ambiguous

\* One round of dominantFields' loop.
Consider(member) ==
    LET best == winners[member.name]
        d    == IF best = 0 THEN 1 ELSE Dominance(member, members[best])
    IN  /\ members' = Append(members, member)
        /\ winners' = IF d > 0 THEN [winners EXCEPT ![member.name] = Len(members) + 1]
                      ELSE winners
        /\ ambiguous' = IF d > 0 THEN ambiguous \ {member.name}
                        ELSE IF d = 0 THEN ambiguous \cup {member.name}
                        ELSE ambiguous

MembersNext == Len(members) < MaxMembers /\ \E member \in Members : Consider(member)

MembersSpec == MembersInit /\ [][MembersNext]_membersVars

\* What dominantFields returns, as positions.
Dominant(i) == winners[members[i].name] = i /\ members[i].name \notin ambiguous

\* The rule of encoding/json: among the members of a name only the least deeply embedded
\* count, among those only the tagged ones if there are any, and one must be left.
Serialized(i) ==
    LET same == {j \in DOMAIN members : members[j].name = members[i].name}
        top  == {j \in same : \A k \in same : members[j].depth <= members[k].depth}
    IN  top = {i} \/ {j \in top : members[j].tagged} = {i}

\* The documentation lists exactly the members encoding/json serializes, however many
\* embedded structs compete for a name and in whatever order their members are met.
DocumentsSerialized == \A i \in DOMAIN members : Dominant(i) <=> Serialized(i)
=============================================================================
