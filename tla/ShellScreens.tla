---------------------------- MODULE ShellScreens ----------------------------
(***************************************************************************)
(* What surrounds the pages: signing in, the header with its menus, and    *)
(* the popup and context menu of the browser extension.                    *)
(***************************************************************************)
EXTENDS OrderScreens

(* Signing in *)

\* A success leaves the page, and what a page has left cannot be clicked.
Credentials(d) ==
  [type   |-> Act([unless |-> {"left"}, edits |-> {d}]),
   submit |-> Act(Writing("loading") @@
                  [unless |-> {"loading", "left"}, typed |-> {d}, sends |-> {d}, okSets |-> {"left"}])]

LoginPage == Screen([drafts |-> [credentials |-> Free], acts |-> Credentials("credentials")])
RegisterPage == Screen([drafts |-> [form |-> Free], acts |-> Credentials("form")])

-----------------------------------------------------------------------------
(* The header *)

useSyncStatus == Query([data |-> {"sync-status"}])

Menus == {"language", "theme", "shortcut", "profile"}
\* Opening a menu closes the others, and so does a click elsewhere.
Menu(m) == Act([sets |-> {m}, clears |-> Menus \ {m}])

Header == Screen(
  [loads |-> [syncData |-> useSyncStatus,
              loadNetworkStatus |-> Load([polls |-> TRUE]),
              user |-> Load(<<>>)],
   acts |-> [language |-> Menu("language"), theme |-> Menu("theme"),
     shortcut |-> Menu("shortcut"), profile |-> Menu("profile"),
     outside  |-> Act([clears |-> Menus]),
     sync     |-> Act(useTriggerSync @@ [unless |-> {"syncing"}])]])

-----------------------------------------------------------------------------
(* The popup of the extension *)

\* The open tab is asked what it shows; what the popup then fills in, the user may correct.  A
\* popup loaded anew no longer hears what the one before it asked.
fillForm == Load([keyed |-> TRUE, fills |-> {"form"}])

\* The images found on the page; which are chosen matters only as some or none.
renderImgs ==
  [pick   |-> Act([need |-> {"grid"}, sets |-> {"images"}]),
   unpick |-> Act([need |-> {"grid"}, clears |-> {"images"}])]

\* A success empties the form, whatever was typed in it since.
doCollect ==
  Act(Writing("collecting") @@
      [need |-> {"token", "images"}, unless |-> {"collecting"}, shows |-> {"page"},
       sends |-> {"form"}, okDrops |-> {"form"}, okClears |-> {"grid", "images"}])

\* The listeners are attached once the tab has answered; a login loads the popup anew.
loginBtn ==
  Act([shows |-> {"page"}, unless |-> {"token"}, typed |-> {"login"}, call |-> "write", sends |-> {"login"},
       okSets |-> {"token"}, reload |-> {"page"}])

Popup(signedIn) == Screen(
  [drafts |-> [form |-> Free, login |-> Free],
   on |-> {"grid", "images"} \union IF signedIn THEN {"token"} ELSE {},
   loads |-> [page |-> fillForm],
   acts |-> [typeLogin |-> Act([unless |-> {"token"}, edits |-> {"login"}]),
             typeForm  |-> Act([need |-> {"token"}, edits |-> {"form"}]),
             loginBtn  |-> loginBtn, doCollect |-> doCollect]
     @@ renderImgs])

PopupSignedIn == Popup(TRUE)
PopupSignedOut == Popup(FALSE)

\* The items of the context menu: nothing on the screen says that one is at work.
sendImage == Act([call |-> "write"])
saveSignal == Act([call |-> "write"])
collectSupplier == Act([call |-> "write"])
contextMenus == Screen(
  [acts |-> [sendImage |-> sendImage, saveSignal |-> saveSignal, collectSupplier |-> collectSupplier]])
=============================================================================
