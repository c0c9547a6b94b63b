SPECIFICATION Spec
CONSTANTS
  Frontends <- MCFrontends
  Browsers = {"b1", "b2", "b3"}
  Users = {"amy", "bob"}
  MAX_WEB_CLNT = 1
  Habits = {"disable"}
  MaxCookies = 2
CONSTRAINT OneHalf
CHECK_DEADLOCK FALSE
INVARIANTS Aligned CookieIsUser
PROPERTIES BrowserRedirected CookieAnswered
