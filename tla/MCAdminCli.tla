----------------------------- MODULE MCAdminCli ----------------------------
(***************************************************************************)
(* Instances of AdminCli: the administrator and the relayer both run the   *)
(* tool.  The first mint is the administrator's, the second is empty, or,  *)
(* where a run names one mint for both, there is a single mint.            *)
(***************************************************************************)
EXTENDS AdminCli, FiniteSetsExt, TLC

CONSTANTS admin, relayer, pda, mintA, native, first

MCKeys == {admin, relayer}
MCMints == {mintA, native}
MCDecimals == [m \in MCMints |-> 0]
MCTokenAccounts == {Ata(pda, mintA), Ata(pda, native), Ata(admin, mintA)}
MCInitiallyOpen == MCTokenAccounts
TokensOfAdmin(n) == [a \in MCTokenAccounts |-> IF a = Ata(admin, mintA) THEN n ELSE 0]
OneToken == TokensOfAdmin(1)
MCInitialTokens == TokensOfAdmin(2)
MCLimits == {<<1, 2>>, <<0, 3>>}

Line(name, args) == [name |-> name, args |-> args]

Initialize == Line("initializeContract", <<relayer, pda, 0, 1, 2, mintA>>)
AddOne == Line("addLiquidity", <<1, mintA>>)
RemoveOne == Line("removeLiquidity", <<1, mintA>>)
RelayerUnpause == Line("relayerUnpause", <<>>)
RelayerPause == Line("relayerPause", <<>>)
AddRelayer == Line("addToWhitelist", <<relayer>>)
RemoveRelayer == Line("removeFromWhitelist", <<relayer>>)

EveryCommand ==
  {Initialize, AddOne, RemoveOne, RelayerUnpause, RelayerPause, AddRelayer,
   RemoveRelayer,
   Line("updateRelayer", <<admin>>),
   Line("updateWhitelistedMint", <<native>>),
   Line("setDepositLimits", <<0, 3>>),
   Line("setFeeAmount", <<1>>),
   Line("publicPause", <<>>), Line("publicUnpause", <<>>),
   Line("setWhitelistActive", <<>>), Line("setWhitelistInactive", <<>>)}

RerunCommands == {Initialize, AddOne}
EntryCommands == {Initialize, AddRelayer, RemoveRelayer}
RemovalCommands == {Initialize, AddOne, RemoveOne}

\* The behaviours of AdminSpec in which one run of the administrator initialises the
\* program, and prints its signature, before the others start, so that what the others ask can be accepted,
\* and in which the relayer's runs are of commands that are the relayer's, or of
\* one that is not.
InitialisingRun(signer, command) == signer = admin /\ command = Initialize

LaterRun(signer, command) ==
  /\ Initialized
  /\ runs[first].pc = "printed"
  /\ signer = relayer => command.name \in {"publicPause", "publicUnpause", "relayerUnpause"}

InitialisedFirst ==
  \A r \in Runs :
    runs[r] = Idle /\ runs'[r] # Idle =>
      IF r = first THEN InitialisingRun(runs'[r].signer, runs'[r].command)
      ELSE LaterRun(runs'[r].signer, runs'[r].command)

InitialisedSpec == AdminInit /\ [][AdminNext /\ InitialisedFirst]_adminVars

Symmetry == Permutations(Runs \ {first})

=============================================================================
