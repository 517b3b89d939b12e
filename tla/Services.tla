------------------------------ MODULE Services ------------------------------
(***************************************************************************)
(* Seven services of the desktop for one TLC run: the configuration store, *)
(* the bot registry, the relocation of the data root, the layout of its    *)
(* directories, the server manager, the SnowLuma stack of a server and the *)
(* QQ tree of a server.                                                    *)
(*                                                                         *)
(* They share no variable, and no property here relates two of them, so a  *)
(* behaviour of all of them together shows nothing that a behaviour of one *)
(* does not: the initial state picks the service that runs, and the others *)
(* keep their initial state.  The states of the run are the sum of the     *)
(* services' states, not their product.                                    *)
(***************************************************************************)
EXTENDS ConfigStore, BotRegistry, DataRoot, DataLayout, ServerManager,
        RemoteStack, QqTree, TLC

CONSTANT Home   (* the first data root: roots are alike                     *)
ASSUME HomeAssumption == Home \in Roots

VARIABLE focus  (* the service that runs                                    *)

filesVars == <<configVars, registryVars, rootVars, layoutVars>>
remoteVars == <<serverVars, stackVars, treeVars>>
servicesVars == <<focus, filesVars, remoteVars>>

\* A service that does not run has one initial state.
ServicesInit ==
    /\ focus \in {"config", "registry", "root", "layout", "servers", "stack", "tree"}
    /\ ConfigInit /\ RegistryInit /\ RootInit /\ LayoutInit
    /\ ServerInit /\ StackInit /\ TreeInit
    /\ pointer = Home
    /\ focus # "config" => \A f \in ConfigFile : disk[f] = {}
    /\ focus # "registry" => saved = {}
    /\ focus # "layout" => had = {} /\ ~logShell
    /\ focus # "servers" => \A s \in Servers : profiles[s] = NoServer

ConfigRuns ==
    /\ focus = "config" /\ ConfigNext
    /\ UNCHANGED <<focus, registryVars, rootVars, layoutVars, remoteVars>>
RegistryRuns ==
    /\ focus = "registry" /\ RegistryNext
    /\ UNCHANGED <<focus, configVars, rootVars, layoutVars, remoteVars>>
RootRuns ==
    /\ focus = "root" /\ RootNext
    /\ UNCHANGED <<focus, configVars, registryVars, layoutVars, remoteVars>>
LayoutRuns ==
    /\ focus = "layout" /\ LayoutNext
    /\ UNCHANGED <<focus, configVars, registryVars, rootVars, remoteVars>>
ServersRun ==
    /\ focus = "servers" /\ ServerNext
    /\ UNCHANGED <<focus, filesVars, stackVars, treeVars>>
StackRuns ==
    /\ focus = "stack" /\ StackNext
    /\ UNCHANGED <<focus, filesVars, serverVars, treeVars>>
TreeRuns ==
    /\ focus = "tree" /\ TreeNext
    /\ UNCHANGED <<focus, filesVars, serverVars, stackVars>>

ServicesNext == \/ ConfigRuns \/ RegistryRuns \/ RootRuns \/ LayoutRuns
                \/ ServersRun \/ StackRuns \/ TreeRuns

ServicesSpec == ServicesInit /\ [][ServicesNext]_servicesVars

\* The writers, requesters and clients are one set of tasks; the bots
\* of the registry, the stack and the tree are named like the roots beside Home.
Symmetry == Permutations(Requesters) \cup Permutations(BotIds)

\* Type invariant of the service that runs.
ServicesTypeOK ==
    CASE focus = "config"   -> ConfigTypeOK
      [] focus = "registry" -> RegistryTypeOK
      [] focus = "root"     -> RootTypeOK
      [] focus = "layout"   -> LayoutTypeOK
      [] focus = "servers"  -> ServerTypeOK
      [] focus = "stack"    -> StackTypeOK
      [] focus = "tree"     -> TreeTypeOK
=============================================================================
