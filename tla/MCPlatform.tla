----------------------------- MODULE MCPlatform -----------------------------
(***************************************************************************)
(* More services that share no state, with the media jobs, as MCServices:  *)
(* the initial state chooses which of them moves.                          *)
(***************************************************************************)
EXTENDS MCMediaJobs, Presence, ChatPush, MatrimonyProfiles, HelpRequests, LegalDocuments, Accounts,
        TLC

CONSTANTS k1, k2, t1, t2,
          ProfileBudget, HelpBudget, LegalBudget, AccountsBudget   \* bounds: requests that begin

VARIABLES part, spent

Parts == {"media", "presence", "chat", "profile", "help", "legal", "accounts"}

Symmetry == Permutations({k1, k2}) \cup Permutations({t1, t2})

platformVars == <<vars, presenceVars, chatVars, profileVars, helpVars, legalVars, accountsVars,
                  part, spent>>

PlatformInit ==
    /\ Init /\ PresenceInit /\ ChatInit /\ ProfilesInit /\ HelpInit /\ LegalInit
    /\ AccountsInit
    /\ part \in Parts
    /\ redis => part = "chat"
    /\ status = "APPROVED" => part = "accounts"
    /\ spent = 0

\* One process sweeps at a time, and one of them fails once.
OneFault ==
    /\ Cardinality({s \in Servers : sweep'[s].pc # "idle"}) <= 1
    /\ Cardinality(lapsed') + Cardinality({s \in Servers : server'[s] # "up"}) <= 1

\* bound: how much begins.
Spends(steps, n) == steps /\ spent < n /\ spent' = spent + 1
Free(steps) == steps /\ UNCHANGED spent

Moves(p) == part = p /\ UNCHANGED part

PlatformNext ==
    \/ /\ Moves("media") /\ Free(Next)
       /\ UNCHANGED <<presenceVars, chatVars, profileVars, helpVars, legalVars, accountsVars>>
    \/ /\ Moves("presence") /\ Free(PresenceNext) /\ OneFault
       /\ UNCHANGED <<vars, chatVars, profileVars, helpVars, legalVars, accountsVars>>
    \/ /\ Moves("chat") /\ Free(ChatNext)
       /\ UNCHANGED <<vars, presenceVars, profileVars, helpVars, legalVars, accountsVars>>
    \/ /\ Moves("profile")
       /\ Spends(ProfilesBegin, ProfileBudget) \/ Free(ProfilesGoOn)
       /\ UNCHANGED <<vars, presenceVars, chatVars, helpVars, legalVars, accountsVars>>
    \/ /\ Moves("help")
       /\ Spends(HelpBegin, HelpBudget) \/ Free(HelpGoesOn)
       /\ UNCHANGED <<vars, presenceVars, chatVars, profileVars, legalVars, accountsVars>>
    \/ /\ Moves("legal")
       /\ Spends(LegalBegin, LegalBudget) \/ Free(LegalGoesOn)
       /\ UNCHANGED <<vars, presenceVars, chatVars, profileVars, helpVars, accountsVars>>
    \/ /\ Moves("accounts")
       /\ Spends(AccountsBegin, AccountsBudget) \/ Free(AccountsGoOn)
       /\ UNCHANGED <<vars, presenceVars, chatVars, profileVars, helpVars, legalVars>>

PlatformSpec == PlatformInit /\ [][PlatformNext]_platformVars

PlatformTypeOK ==
    /\ TypeOK /\ PresenceTypeOK /\ ChatTypeOK
    /\ ProfilesTypeOK /\ HelpTypeOK /\ LegalTypeOK /\ AccountsTypeOK
=============================================================================
