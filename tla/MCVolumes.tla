----------------------------- MODULE MCVolumes -----------------------------
EXTENDS Volumes, TLC

Scene(ph, made, old, taken, requests, kinds) ==
  [phase |-> ph, made |-> made, old |-> old, taken |-> taken, requests |-> requests,
   kinds |-> kinds]

SiteKinds == {"delete_held", "restore", "create", "bind", "delete", "snapshot", "promote"}

AllScenes ==
  \* an installed app with its volume, and one upgraded from an earlier build
  {Scene("Installed", TRUE, FALSE, "none", 2, {"update", "restore", "delete_held"}),
   Scene("Installed", TRUE, FALSE, "none", 3, {"uninstall", "install"}),
   Scene("Installed", TRUE, FALSE, "none", 1, {"snapshot"}),
   Scene("Installed", FALSE, TRUE, "none", 1, {"update", "uninstall"})}
  \* site volumes alone, from each thing an earlier release may have left
  \cup {Scene("NotInstalled", FALSE, FALSE, taken, 3, SiteKinds) : taken \in {"none", "snapshot"}}
  \cup {Scene("NotInstalled", FALSE, FALSE, taken, 2, SiteKinds) : taken \in {"managed", "left"}}
  \cup {Scene("NotInstalled", FALSE, FALSE, "managed", 3, {"delete_held", "restore", "delete"}),
        Scene("NotInstalled", FALSE, FALSE, "snapshot", 4, {"create", "delete", "snapshot"})}
=============================================================================
