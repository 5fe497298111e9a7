--------------------------- MODULE PluginRegistry ---------------------------
(***************************************************************************)
(* The plugins (plugin-registry.ts) and the choice of a packet's decoder   *)
(* among those of the enabled ones (DecoderRegistry in packet-decoder.ts). *)
(* A registry is created with the core plugin, some more and the user's    *)
(* choices of what is enabled; every call either changes it or throws.     *)
(*                                                                         *)
(* A plugin's capabilities are its decoders, each with a priority, whether *)
(* it accepts the packet at hand, a binary frame ("throws" when canDecode  *)
(* does), and whether its decode succeeds.  Analyzers, filters and         *)
(* exporters are collected the same way.                                   *)
(***************************************************************************)
EXTENDS Arrangements, FiniteSetsExt

CONSTANTS
  Plugins,     \* [id, local, label, byDefault, decoders] of what may be registered
  MaxPlugins   \* bound: plugins registered

VARIABLES
  plugins,     \* registered, in the order of registration
  enablement,  \* what was chosen for each id, if anything
  threw        \* the last call threw

registryVars == <<plugins, enablement, threw>>

Decoder(id, priority, accepts, works) ==
  [id |-> id, priority |-> priority, accepts |-> accepts, works |-> works]

Fallback == Decoder("fallback", 0, "yes", TRUE)
Core ==
  [id |-> "core", local |-> TRUE, label |-> TRUE, byDefault |-> TRUE,
   decoders |-> <<Decoder("json", 2, "no", TRUE), Decoder("binary", 1, "yes", TRUE), Fallback>>]

Ids == {p.id : p \in Plugins} \cup {Core.id}

Known(list, id) == \E i \in DOMAIN list : list[i].id = id

----------------------------------------------------------------------------
(* The registry *)

ValidateLocalPlugin(p) == p.local /\ p.id # "" /\ p.label

IsEnabled(p, chosen) ==
  \/ chosen[p.id] = "on"
  \/ chosen[p.id] = "unset" /\ p.byDefault

GetEnabledPlugins(list, chosen) == Kept(list, {i \in DOMAIN list : IsEnabled(list[i], chosen)})

GetDecoders(list, chosen) ==
  LET enabled == GetEnabledPlugins(list, chosen)
  IN  Joined([i \in DOMAIN enabled |-> enabled[i].decoders])

Unset == [i \in Ids |-> "unset"]

(***************************************************************************)
(* createPluginRegistry: the options for ids that are not registered are   *)
(* left out.                                                               *)
(***************************************************************************)
Init ==
  /\ plugins = <<Core>>
  /\ \E choice \in {"unset", "on", "off"} : enablement = [Unset EXCEPT !["core"] = choice]
  /\ threw = FALSE

Register(p) ==
  LET accepted == ValidateLocalPlugin(p) /\ ~Known(plugins, p.id)
  IN /\ Len(plugins) < MaxPlugins
     /\ plugins' = IF accepted THEN Append(plugins, p) ELSE plugins
     /\ threw' = ~accepted
     /\ UNCHANGED enablement

SetEnabled(id, on) ==
  /\ enablement' = IF Known(plugins, id)
                   THEN [enablement EXCEPT ![id] = IF on THEN "on" ELSE "off"] ELSE enablement
  /\ threw' = ~Known(plugins, id)
  /\ UNCHANGED plugins

Next ==
  \/ \E p \in Plugins : Register(p)
  \/ \E id \in Ids, on \in BOOLEAN : SetEnabled(id, on)

Spec == Init /\ [][Next]_registryVars

----------------------------------------------------------------------------
(* The decoder registry *)

(***************************************************************************)
(* By priority, the highest first; decoders of one priority stay in the    *)
(* order they were collected in.  The fallback is taken out: it is always  *)
(* the last resort.                                                        *)
(***************************************************************************)
OrderedDecoders(decoders) ==
  LET others == Kept(decoders, {i \in DOMAIN decoders : decoders[i].id # Fallback.id})
      before == {ij \in (DOMAIN others) \X (DOMAIN others) :
                   \/ others[ij[1]].priority > others[ij[2]].priority
                   \/ others[ij[1]].priority = others[ij[2]].priority /\ ij[1] < ij[2]}
      order == Arranged(DOMAIN others, before)
  IN [k \in DOMAIN others |-> others[order[k]]]

FindDecoder(ordered) ==
  LET willing == {i \in DOMAIN ordered : ordered[i].accepts = "yes"}
  IN IF willing = {} THEN Fallback ELSE ordered[Min(willing)]

(***************************************************************************)
(* What decode returns: whose result it is, and the decoder that failed    *)
(* if the fallback had to stand in for it.                                 *)
(***************************************************************************)
Decode(ordered) ==
  LET d == FindDecoder(ordered)
  IN IF d.works THEN [by |-> d.id, insteadOf |-> "none"]
     ELSE [by |-> Fallback.id, insteadOf |-> d.id]

----------------------------------------------------------------------------
(* Properties *)

TypeOK ==
  /\ Len(plugins) \in 1 .. MaxPlugins
  /\ enablement \in [Ids -> {"unset", "on", "off"}]
  /\ threw \in BOOLEAN

(***************************************************************************)
(* Whatever was registered, refused and switched, ids stay unique, only a  *)
(* registered plugin has a choice, and a switched off plugin's decoders    *)
(* are never asked.                                                        *)
(***************************************************************************)
OnlyEnabledPluginsDecode ==
  LET used == Range(GetDecoders(plugins, enablement))
  IN /\ \A i, j \in DOMAIN plugins : plugins[i].id = plugins[j].id => i = j
     /\ \A id \in DOMAIN enablement : enablement[id] # "unset" => Known(plugins, id)
     /\ \A i \in DOMAIN plugins : \A d \in Range(plugins[i].decoders) :
          /\ d \in used => \E k \in DOMAIN plugins : /\ d \in Range(plugins[k].decoders)
                                                     /\ enablement[plugins[k].id] # "off"
          /\ enablement[plugins[i].id] = "on" => d \in used

(***************************************************************************)
(* A packet always decodes, by a willing decoder that no other willing one *)
(* outranks, and by the fallback only if there is none or that one failed. *)
(***************************************************************************)
EveryPacketDecodes ==
  LET decoders == GetDecoders(plugins, enablement)
      willing  == {d \in Range(decoders) : d.accepts = "yes" /\ d.id # Fallback.id}
      found    == FindDecoder(OrderedDecoders(decoders))
      result   == Decode(OrderedDecoders(decoders))
  IN /\ IF willing = {} THEN found = Fallback
        ELSE found \in willing /\ \A d \in willing : d.priority <= found.priority
     /\ result.by # found.id => result = [by |-> Fallback.id, insteadOf |-> found.id]

RegistryLaws == OnlyEnabledPluginsDecode /\ EveryPacketDecodes

=============================================================================
