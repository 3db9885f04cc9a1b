---------------------------- MODULE OperatorWorld ----------------------------
(* What the operators' commands share: the provider queues and the staking     *)
(* events of the chain, the files one command leaves for another, and the      *)
(* bounds.  Addresses are compared without their case everywhere, so that an   *)
(* address is a value.                                                         *)
EXTENDS Integers, Sequences, FiniteSets, TLC, SequencesExt, FiniteSetsExt

CONSTANTS
    Attesters, Publishers,
    Operators,              \* who may run a command at the same time
    RegistryOrder,          \* STAKING_REGISTRY_TARGETS
    None,
    MaxFaults, MaxCommands  \* bounds

Registries == Range(RegistryOrder)

ASSUME WorldAssumption ==
    /\ None \notin Attesters \cup Publishers \cup Registries \cup Nat
    /\ IsFiniteSet(Publishers)
    /\ RegistryOrder \in Seq(Registries) /\ "native" \in Registries
    /\ {MaxFaults, MaxCommands} \subseteq Nat

VARIABLES
    commands,   \* the commands of this behaviour
    given,      \* how many were given
    urls,       \* whether WEB3SIGNER_URLS names the signers
    providers,  \* registries where the provider is registered
    queues,     \* [Registries -> Seq(Attesters)], the provider's queues
    events,     \* StakedWithProvider events; the block of an event is its index
    publicKeys, \* attesters in the public keys file; None when there is no file
    addresses,  \* publishers in the files of generated addresses
    faults

setting == <<commands, urls, providers, queues, events>>
notGiven == <<setting, publicKeys, addresses, faults>>
notFaults == <<setting, given, publicKeys, addresses>>
worldVars == <<setting, given, publicKeys, addresses, faults>>

Fails == faults < MaxFaults /\ faults' = faults + 1

Gives(command) ==
    /\ command \in commands
    /\ given < MaxCommands
    /\ given' = given + 1
==============================================================================
