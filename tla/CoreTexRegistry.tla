--------------------------- MODULE CoreTexRegistry ---------------------------
(***************************************************************************)
(* The on-chain state-transition ledger (contracts/src/CoreTexRegistry.sol).*)
(* A registry keeps, per epoch, the live state root and the number of      *)
(* state advances, and seals the epoch with a header.  The epoch contexts  *)
(* it checks against belong to BotcoinMiningV4 and are read through        *)
(* _context(), so `context' is declared here and written only by V4.       *)
(*                                                                         *)
(* V4 can be pointed at another registry, so every variable is indexed by  *)
(* the registry.  `advances' is the log of CoreTexStateAdvanced events.    *)
(***************************************************************************)
EXTENDS V4Base

CONSTANTS Registries,    \* deployed CoreTexRegistry instances
          Roots,         \* state roots (non-zero bytes32)
          Pins,          \* corpus/core-version/frontier/baseline hashes, as one value
          Patches,       \* patch hashes
          NoRoot,        \* an uninitialised bytes32 slot
          NoContext,     \* an epoch whose context was never set
          NoHeader       \* an epoch that was never sealed

VARIABLES
  context,          \* V4: _coreTexEpochContexts / coreTexEpochContextSet
  pinnedToV4,       \* botcoinMiningV4 is this V4 (FALSE: still the zero address)
  regPaused,        \* Pausable
  liveRoot,         \* _liveStateRoot; NoRoot while _liveRootInitialized is false
  transitionCount,
  sealed,           \* epochFinalized
  header,           \* _headers
  advances          \* emitted CoreTexStateAdvanced events, oldest first

registryVars == <<pinnedToV4, regPaused, liveRoot, transitionCount, sealed, header, advances>>

Contexts == [parent : Roots, pins : Pins]
Headers  == [parent : Roots, final : Roots, pins : Pins]
Advances == [index : Nat, miner : Miners, parent : Roots, new : Roots, patch : Patches]

ASSUME SentinelAssumption ==
  NoRoot \notin Roots /\ NoContext \notin Contexts /\ NoHeader \notin Headers

RegistryTypeOK ==
  /\ context \in [Epochs -> Contexts \cup {NoContext}]
  /\ pinnedToV4 \in [Registries -> BOOLEAN]
  /\ regPaused \in [Registries -> BOOLEAN]
  /\ liveRoot \in [Registries -> [Epochs -> Roots \cup {NoRoot}]]
  /\ transitionCount \in [Registries -> [Epochs -> Nat]]
  /\ sealed \in [Registries -> [Epochs -> BOOLEAN]]
  /\ header \in [Registries -> [Epochs -> Headers \cup {NoHeader}]]
  /\ advances \in [Registries -> [Epochs -> Seq(Advances)]]

RegistryInit ==
  /\ pinnedToV4 = [r \in Registries |-> FALSE]
  /\ regPaused = [r \in Registries |-> FALSE]
  /\ liveRoot = [r \in Registries |-> [e \in Epochs |-> NoRoot]]
  /\ transitionCount = [r \in Registries |-> [e \in Epochs |-> 0]]
  /\ sealed = [r \in Registries |-> [e \in Epochs |-> FALSE]]
  /\ header = [r \in Registries |-> [e \in Epochs |-> NoHeader]]
  /\ advances = [r \in Registries |-> [e \in Epochs |-> << >>]]

-----------------------------------------------------------------------------
\* _context(epoch) does not revert.
HasContext(r, e) == pinnedToV4[r] /\ context[e] # NoContext

\* liveStateRoot(epoch); callers have ruled out the revert of _context.
LiveStateRoot(r, e) == IF liveRoot[r][e] # NoRoot THEN liveRoot[r][e] ELSE context[e].parent

\* submitStateAdvance(...), called by V4 inside submitCoreTexReceipt.
SubmitStateAdvance(r, e, miner, parent, new, pins, patch) ==
  /\ pinnedToV4[r]
  /\ ~regPaused[r]
  /\ ~sealed[r][e]
  /\ HasContext(r, e)
  /\ parent = LiveStateRoot(r, e)
  /\ pins = context[e].pins
  /\ new # parent
  /\ transitionCount' = [transitionCount EXCEPT ![r][e] = @ + 1]
  /\ liveRoot' = [liveRoot EXCEPT ![r][e] = new]
  /\ advances' = [advances EXCEPT ![r][e] =
        Append(@, [index |-> transitionCount[r][e], miner |-> miner,
                   parent |-> parent, new |-> new, patch |-> patch])]
  /\ UNCHANGED <<pinnedToV4, regPaused, sealed, header>>

\* Mutant: the sealed root is not compared with the live root.
SealEpochAnyRoot(r, e, final, pins) ==
  /\ ~regPaused[r] /\ ~sealed[r][e] /\ HasContext(r, e)
  /\ pins = context[e].pins
  /\ sealed' = [sealed EXCEPT ![r][e] = TRUE]
  /\ header' = [header EXCEPT ![r][e] =
        [parent |-> context[e].parent, final |-> final, pins |-> pins]]
  /\ UNCHANGED <<pinnedToV4, regPaused, liveRoot, transitionCount, advances>>

\* finalizeEpoch(...) by a coordinator or the owner.
SealEpoch(r, e, final, pins) ==
  /\ ~regPaused[r]
  /\ ~sealed[r][e]
  /\ HasContext(r, e)
  /\ final = LiveStateRoot(r, e)
  /\ pins = context[e].pins
  /\ sealed' = [sealed EXCEPT ![r][e] = TRUE]
  /\ header' = [header EXCEPT ![r][e] =
        [parent |-> context[e].parent, final |-> final, pins |-> pins]]
  /\ UNCHANGED <<pinnedToV4, regPaused, liveRoot, transitionCount, advances>>

\* setBotcoinMiningV4 with this V4 as its argument.  Wiring the registry to
\* another mining contract, whose contexts would then count, is outside the
\* model: there is one V4.
SetBotcoinMiningV4(r) ==
  /\ pinnedToV4' = [pinnedToV4 EXCEPT ![r] = TRUE]
  /\ UNCHANGED <<regPaused, liveRoot, transitionCount, sealed, header, advances>>

\* pause() / unpause(): each reverts when it would change nothing.
SetRegistryPaused(r, p) ==
  /\ regPaused[r] # p
  /\ regPaused' = [regPaused EXCEPT ![r] = p]
  /\ UNCHANGED <<pinnedToV4, liveRoot, transitionCount, sealed, header, advances>>
=============================================================================
